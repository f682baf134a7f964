----------------------------- MODULE Durability -----------------------------
(***************************************************************************)
(* What a client writer leaves on disk when one of its steps fails, the    *)
(* process is killed, or the machine loses power.                          *)
(*                                                                         *)
(* A program is the writer's sequence of durable steps (ClientScripts      *)
(* holds those of the repository).  A step writes or flushes rows of one   *)
(* store; a row stands for a kind of key that matters: the bulk of the     *)
(* state, its last batch, the header, the boot gate.  Steps of .script     *)
(* return on failure; those of .deferred are the deferred Closes, whose    *)
(* failure nobody sees.                                                    *)
(*                                                                         *)
(* The stores are RocksDB, Pebble, MDBX or plain files:                    *)
(*   volatile  a write with the WAL disabled: only in the memtable;        *)
(*   logged    a write in the log, not yet forced to disk;                 *)
(*   synced    a write in the log, and the log forced to disk;             *)
(*   flush     the rows' memtables become tables, and the store's log is   *)
(*             forced to disk.                                             *)
(* The operating system writes a log back in order and when it likes.      *)
(***************************************************************************)
EXTENDS Integers, Sequences

CONSTANTS
    Stores, Rows, Programs,
    Stops,            \* per program, how the process may end: "exit", "kill", "power"
    CloseFails        \* the programs whose deferred steps may fail

Step == [op : {"volatile", "logged", "synced", "flush"}, store : Stores, rows : SUBSET Rows]

Program == [script : Seq(Step), deferred : Seq(Step), always : BOOLEAN,
            gate : SUBSET Rows, needed : SUBSET Rows]

ASSUME DurabilityAssumption ==
    /\ Programs \subseteq Program
    /\ Stops \in [Programs -> SUBSET {"exit", "kill", "power"}]
    /\ CloseFails \subseteq Programs

VARIABLES
    prog, phase,      \* "run" | "defer" | "exit" | "down"
    pc, dpc,          \* next step of the script, next deferred step
    mem,              \* rows only in memtables
    log, synced,      \* per store: the rows of each logged write; how many are forced to disk
    sst,              \* rows in tables
    result,           \* none | ok | err
    left              \* once down: the rows the client finds

disk == <<mem, log, synced, sst>>
vars == <<prog, phase, pc, dpc, disk, result, left>>

Init ==
    /\ prog \in Programs /\ phase = "run" /\ pc = 1 /\ dpc = 1
    /\ mem = {} /\ log = [s \in Stores |-> <<>>] /\ synced = [s \in Stores |-> 0] /\ sst = {}
    /\ result = "none" /\ left = {}

-----------------------------------------------------------------------------
LogAppend(st) == [log EXCEPT ![st.store] = Append(@, st.rows)]

\* A successful step.
Volatile(st) ==
    /\ st.op = "volatile"
    /\ mem' = mem \cup st.rows
    /\ UNCHANGED <<log, synced, sst>>

Logged(st) ==
    /\ st.op = "logged"
    /\ log' = LogAppend(st)
    /\ UNCHANGED <<mem, synced, sst>>

SyncPoint(st) == [synced EXCEPT ![st.store] = Len(log[st.store]) + 1]

Synced(st) ==
    /\ st.op = "synced"
    /\ log' = LogAppend(st)
    /\ synced' = SyncPoint(st)
    /\ UNCHANGED <<mem, sst>>

Flush(st) ==
    /\ st.op = "flush"
    /\ sst' = sst \cup (mem \cap st.rows)
    /\ mem' = mem \ st.rows
    /\ synced' = [synced EXCEPT ![st.store] = Len(log[st.store])]
    /\ UNCHANGED log

Apply(st) == Volatile(st) \/ Logged(st) \/ Synced(st) \/ Flush(st)

\* A failed step leaves nothing, or a write that reached the log unsynced.
Spoil(st) ==
    \/ UNCHANGED disk
    \/ /\ st.op \in {"logged", "synced"}
       /\ log' = LogAppend(st)
       /\ UNCHANGED <<mem, synced, sst>>

-----------------------------------------------------------------------------
Do ==
    /\ phase = "run" /\ pc <= Len(prog.script)
    /\ Apply(prog.script[pc])
    /\ pc' = pc + 1
    /\ UNCHANGED <<prog, phase, dpc, result, left>>

Fail ==
    /\ phase = "run" /\ pc <= Len(prog.script)
    /\ Spoil(prog.script[pc])
    /\ phase' = "defer" /\ result' = "err"
    /\ UNCHANGED <<prog, pc, dpc, left>>

Return ==
    /\ phase = "run" /\ pc = Len(prog.script) + 1
    /\ phase' = IF prog.always THEN "defer" ELSE "exit"
    /\ result' = "ok"
    /\ UNCHANGED <<prog, pc, dpc, disk, left>>

Deferred ==
    /\ phase = "defer" /\ dpc <= Len(prog.deferred)
    /\ \/ Apply(prog.deferred[dpc])
       \/ prog \in CloseFails /\ Spoil(prog.deferred[dpc])
    /\ dpc' = dpc + 1
    /\ UNCHANGED <<prog, phase, pc, result, left>>

Exit ==
    /\ phase = "defer" /\ dpc = Len(prog.deferred) + 1
    /\ phase' = "exit"
    /\ UNCHANGED <<prog, pc, dpc, disk, result, left>>

\* A memtable that fills up becomes a table at any time.
BackgroundFlush ==
    /\ phase \in {"run", "defer"}
    /\ \E r \in mem : sst' = sst \cup {r} /\ mem' = mem \ {r}
    /\ UNCHANGED <<prog, phase, pc, dpc, log, synced, result, left>>

\* The operating system writes a log back in order, when it likes.
WriteBack ==
    /\ phase # "down"
    /\ \E s \in Stores : /\ synced[s] < Len(log[s])
                         /\ synced' = [synced EXCEPT ![s] = @ + 1]
    /\ UNCHANGED <<prog, phase, pc, dpc, mem, log, sst, result, left>>

LoggedUpTo(cut) == {r \in Rows : \E s \in Stores : \E k \in 1 .. cut[s] : r \in log[s][k]}
LogLengths == [s \in Stores |-> Len(log[s])]

\* What a power loss leaves, and what the end of the process leaves.
Durable == sst \cup LoggedUpTo(synced)
Kept == sst \cup LoggedUpTo(LogLengths)

Boot == phase = "exit" /\ left' = Kept
Kill == phase \in {"run", "defer"} /\ left' = Kept
PowerLoss == phase # "down" /\ left' = Durable

Stop ==
    /\ \/ "exit" \in Stops[prog] /\ Boot
       \/ "kill" \in Stops[prog] /\ Kill
       \/ "power" \in Stops[prog] /\ PowerLoss
    /\ phase' = "down"
    /\ UNCHANGED <<prog, pc, dpc, disk, result>>

Next == Do \/ Fail \/ Return \/ Deferred \/ Exit \/ BackgroundFlush \/ WriteBack \/ Stop

Spec == Init /\ [][Next]_vars

-----------------------------------------------------------------------------
\* Types; no store claims to have synced more than its log holds, and what is
\* found on disk was written by a step of the program.
TypeOK ==
    /\ prog \in Programs /\ phase \in {"run", "defer", "exit", "down"}
    /\ pc \in 1 .. Len(prog.script) + 1 /\ dpc \in 1 .. Len(prog.deferred) + 1
    /\ mem \subseteq Rows /\ sst \subseteq Rows /\ left \subseteq Rows
    /\ log \in [Stores -> Seq(SUBSET Rows)]
    /\ synced \in [Stores -> Nat]
    /\ \A s \in Stores : synced[s] <= Len(log[s])
    /\ result \in {"none", "ok", "err"}

\* A client that finds the whole boot gate finds the whole state: whatever
\* step failed and however the process ended, a partial run is not mistaken
\* for a complete one.
GateImpliesState ==
    phase = "down" /\ prog.gate \subseteq left => prog.needed \subseteq left

\* A run that reported success leaves the gate and the state behind, whatever
\* ends the process or the machine after that: no failure of a deferred Close
\* stays behind a nil error.
SuccessIsLeft ==
    phase = "down" /\ result = "ok" => prog.gate \cup prog.needed \subseteq left

-----------------------------------------------------------------------------
(* The order of writes that makes GateImpliesState true of any program.    *)

Logs(st) == st.op \in {"logged", "synced"}
Forces(st) == st.op \in {"synced", "flush"}

\* Once the first i steps have succeeded, row r survives everything.
MadeDurable(p, i, r) ==
    \E j \in 1 .. i : \E k \in j .. i :
        /\ r \in p.script[j].rows
        /\ \/ /\ Logs(p.script[j]) /\ Forces(p.script[k])
              /\ p.script[k].store = p.script[j].store
           \/ /\ p.script[j].op = "volatile" /\ p.script[k].op = "flush"
              /\ r \in p.script[k].rows

\* Row r is in the log of step i's store no later than step i's own rows.
LoggedBy(p, i, r) ==
    \E j \in 1 .. i : /\ Logs(p.script[j]) /\ r \in p.script[j].rows
                      /\ p.script[j].store = p.script[i].store

\* Step i may write a gate row.
Covered(p, i) ==
    /\ Logs(p.script[i])
    /\ \A r \in p.needed : MadeDurable(p, i - 1, r) \/ LoggedBy(p, i, r)

\* One gate row is written, by a script step only, after all needed rows are
\* durable or ahead of it in the same log.
GateRow(p, g) ==
    /\ g \in p.gate
    /\ \A i \in 1 .. Len(p.script) :
        g \in p.script[i].rows /\ p.script[i].op # "flush" => Covered(p, i)
    /\ \A i \in 1 .. Len(p.deferred) :
        g \in p.deferred[i].rows => p.deferred[i].op = "flush"

WellOrdered(p) == \E g \in Rows : GateRow(p, g)

(* The same for a program that is only asked about its own exit, after     *)
(* deferred steps that do not fail.                                        *)

FlushedIn(steps, from, to, r) ==
    \E k \in from .. to : steps[k].op = "flush" /\ r \in steps[k].rows

\* The deferred steps flush row r after an error, and some step does after a
\* success.
FlushedAtEnd(p, j, r) ==
    /\ FlushedIn(p.deferred, 1, Len(p.deferred), r)
    /\ p.always \/ FlushedIn(p.script, j, Len(p.script), r)

\* Once step i has written its rows, or failed with them in the log, row r is
\* left when the program exits.
HeldFrom(p, i, r) ==
    \E j \in 1 .. i :
        /\ r \in p.script[j].rows
        /\ \/ Logs(p.script[j])
           \/ /\ j < i /\ p.script[j].op = "volatile"
              /\ FlushedIn(p.script, j, i - 1, r) \/ FlushedAtEnd(p, j, r)

ClosedRow(p, g) ==
    /\ g \in p.gate
    /\ \A i \in 1 .. Len(p.script) :
        g \in p.script[i].rows /\ p.script[i].op # "flush" => \A r \in p.needed : HeldFrom(p, i, r)
    /\ \A i \in 1 .. Len(p.deferred) :
        g \in p.deferred[i].rows => p.deferred[i].op = "flush"

WellClosed(p) == \E g \in Rows : ClosedRow(p, g)

\* The program is asked about its exit alone, and its Close does not fail.
ExitsOnly(p) == Stops[p] \subseteq {"exit"} /\ p \notin CloseFails

-----------------------------------------------------------------------------
(* What makes SuccessIsLeft true of any program: its rows are durable when *)
(* the script ends, or left when the program exits.                        *)

Lasting(p) == \A r \in p.gate \cup p.needed : MadeDurable(p, Len(p.script), r)

LeftOnExit(p, r) ==
    \E j \in 1 .. Len(p.script) :
        /\ r \in p.script[j].rows
        /\ \/ Logs(p.script[j])
           \/ /\ p.script[j].op = "volatile"
              /\ \/ FlushedIn(p.script, j, Len(p.script), r)
                 \/ p.always /\ FlushedIn(p.deferred, 1, Len(p.deferred), r)

LeavesAll(p) == \A r \in p.gate \cup p.needed : LeftOnExit(p, r)
=============================================================================
