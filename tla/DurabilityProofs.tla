-------------------------- MODULE DurabilityProofs --------------------------
(***************************************************************************)
(* Proofs about Durability for every set of programs: types; that a        *)
(* program whose gate row is written only when every needed row is durable *)
(* or ahead of it in the same log never leaves the gate without the state; *)
(* and that a success leaves both, when the script makes them durable or   *)
(* the deferred flushes complete them.                                     *)
(***************************************************************************)
EXTENDS Durability, TLAPS

LEMMA ScriptSteps ==
    ASSUME NEW p \in Programs, NEW i \in 1 .. Len(p.script)
    PROVE  p.script[i] \in Step
  BY DurabilityAssumption DEF Program

LEMMA DeferredSteps ==
    ASSUME NEW p \in Programs, NEW i \in 1 .. Len(p.deferred)
    PROVE  p.deferred[i] \in Step
  BY DurabilityAssumption DEF Program

LEMMA ProgramLengths ==
    ASSUME NEW p \in Programs
    PROVE  Len(p.script) \in Nat /\ Len(p.deferred) \in Nat /\ p.always \in BOOLEAN
  BY DurabilityAssumption DEF Program

DiskOK ==
    /\ mem \subseteq Rows /\ sst \subseteq Rows
    /\ log \in [Stores -> Seq(SUBSET Rows)]
    /\ synced \in [Stores -> Nat]
    /\ \A s \in Stores : synced[s] <= Len(log[s])

LEMMA LogLength ==
    ASSUME DiskOK, NEW s \in Stores
    PROVE  log[s] \in Seq(SUBSET Rows) /\ Len(log[s]) \in Nat /\ synced[s] \in Nat
           /\ synced[s] <= Len(log[s])
  BY DEF DiskOK

LEMMA AppendType ==
    ASSUME DiskOK, NEW st \in Step
    PROVE  /\ LogAppend(st) \in [Stores -> Seq(SUBSET Rows)]
           /\ \A s \in Stores : Len(log[s]) \in Nat /\ Len(LogAppend(st)[s]) >= Len(log[s])
           /\ Len(LogAppend(st)[st.store]) = Len(log[st.store]) + 1
  BY DEF DiskOK, Step, LogAppend

LEMMA ApplyType ==
    ASSUME DiskOK, NEW st \in Step, Apply(st)
    PROVE  DiskOK'
<1>1. CASE Volatile(st) BY <1>1 DEF Volatile, DiskOK, Step
<1>0. st.store \in Stores BY DEF Step
<1>2. CASE Logged(st)
  <2>1. \A s \in Stores : synced[s] <= Len(log'[s]) BY <1>2, AppendType DEF Logged, DiskOK
  <2> QED BY <1>2, <2>1, AppendType DEF Logged, DiskOK
<1>3. CASE Synced(st)
  <2>1. log' \in [Stores -> Seq(SUBSET Rows)] BY <1>3, AppendType DEF Synced
  <2>2. synced' \in [Stores -> Nat] BY <1>3, AppendType DEF Synced, SyncPoint, DiskOK, Step
  <2>3. ASSUME NEW s \in Stores PROVE synced'[s] <= Len(log'[s])
    <3>1. Len(log[s]) \in Nat /\ Len(log'[s]) >= Len(log[s]) /\ synced[s] <= Len(log[s])
          /\ Len(log'[st.store]) = Len(log[st.store]) + 1
      BY <1>3, AppendType DEF Synced, DiskOK
    <3>2. synced'[s] = IF s = st.store THEN Len(log[s]) + 1 ELSE synced[s]
      BY <1>0, <1>3 DEF Synced, SyncPoint, DiskOK
    <3>3. synced[s] \in Nat /\ Len(log'[s]) \in Nat BY <2>1 DEF DiskOK
    <3> QED BY <3>1, <3>2, <3>3
  <2> QED BY <1>3, <2>1, <2>2, <2>3 DEF Synced, DiskOK
<1>4. CASE Flush(st)
  <2>1. \A s \in Stores : Len(log[s]) \in Nat BY AppendType
  <2>2. synced' \in [Stores -> Nat] BY <1>4, <2>1 DEF Flush, DiskOK, Step
  <2>3. ASSUME NEW s \in Stores PROVE synced'[s] <= Len(log'[s])
    BY <1>4, <2>1 DEF Flush, DiskOK, Step
  <2> QED BY <1>4, <2>2, <2>3 DEF Flush, DiskOK
<1> QED BY <1>1, <1>2, <1>3, <1>4 DEF Apply

LEMMA SpoilType ==
    ASSUME DiskOK, NEW st \in Step, Spoil(st)
    PROVE  DiskOK'
<1>1. CASE UNCHANGED disk BY <1>1 DEF disk, DiskOK
<1>2. CASE log' = LogAppend(st) /\ UNCHANGED <<mem, synced, sst>>
  <2>1. \A s \in Stores : synced[s] <= Len(log'[s]) BY <1>2, AppendType DEF DiskOK
  <2> QED BY <1>2, <2>1, AppendType DEF DiskOK
<1> QED BY <1>1, <1>2 DEF Spoil

\* The variables of every reachable state have their types, and no store has
\* synced more than its log holds.
THEOREM TypeCorrect == Spec => []TypeOK
<1>1. Init => TypeOK
  BY ProgramLengths DEF Init, TypeOK
<1>2. TypeOK /\ [Next]_vars => TypeOK'
  <2> SUFFICES ASSUME TypeOK, [Next]_vars PROVE TypeOK' OBVIOUS
  <2>0. DiskOK BY DEF TypeOK, DiskOK
  <2>l. Len(prog.script) \in Nat /\ Len(prog.deferred) \in Nat /\ prog.always \in BOOLEAN
    BY ProgramLengths DEF TypeOK
  <2>1. CASE Do
    <3>1. prog.script[pc] \in Step BY <2>1, <2>l, ScriptSteps DEF Do, TypeOK
    <3>2. DiskOK' BY <2>0, <2>1, <3>1, ApplyType DEF Do
    <3> QED BY <2>1, <2>l, <3>2 DEF Do, TypeOK, DiskOK
  <2>2. CASE Fail
    <3>1. prog.script[pc] \in Step BY <2>2, <2>l, ScriptSteps DEF Fail, TypeOK
    <3>2. DiskOK' BY <2>0, <2>2, <3>1, SpoilType DEF Fail
    <3> QED BY <2>2, <2>l, <3>2 DEF Fail, TypeOK, DiskOK
  <2>3. CASE Return BY <2>3, <2>l DEF Return, TypeOK, disk
  <2>4. CASE Deferred
    <3>1. prog.deferred[dpc] \in Step BY <2>4, <2>l, DeferredSteps DEF Deferred, TypeOK
    <3>2. DiskOK' BY <2>0, <2>4, <3>1, ApplyType, SpoilType DEF Deferred
    <3> QED BY <2>4, <2>l, <3>2 DEF Deferred, TypeOK, DiskOK
  <2>5. CASE Exit BY <2>5 DEF Exit, TypeOK, disk
  <2>6. CASE BackgroundFlush BY <2>6 DEF BackgroundFlush, TypeOK
  <2>7. CASE WriteBack
    <3>1. PICK s \in Stores : synced[s] < Len(log[s]) /\ synced' = [synced EXCEPT ![s] = @ + 1]
      BY Zenon, <2>7 DEF WriteBack
    <3>2. synced' \in [Stores -> Nat] BY <3>1 DEF TypeOK
    <3>3. \A t \in Stores : synced'[t] <= Len(log[t]) BY <3>1 DEF TypeOK
    <3> QED BY <2>7, <3>2, <3>3 DEF WriteBack, TypeOK
  <2>8. CASE Stop
    <3>1. Durable \subseteq Rows /\ Kept \subseteq Rows
      BY DEF Durable, Kept, LoggedUpTo, TypeOK
    <3>2. left' \in {Durable, Kept} BY <2>8 DEF Stop, Boot, Kill, PowerLoss
    <3> QED BY <2>8, <3>1, <3>2 DEF Stop, TypeOK, disk
  <2>9. CASE UNCHANGED vars BY <2>9 DEF vars, disk, TypeOK
  <2> QED BY <2>1, <2>2, <2>3, <2>4, <2>5, <2>6, <2>7, <2>8, <2>9 DEF Next
<1> QED BY <1>1, <1>2, PTL DEF Spec

-----------------------------------------------------------------------------
(* Nothing on disk is ever lost by a step. *)

Grows ==
    /\ \A s \in Stores : /\ Len(log[s]) <= Len(log'[s]) /\ synced[s] <= synced'[s]
                         /\ \A k \in 1 .. Len(log[s]) : log'[s][k] = log[s][k]
    /\ sst \subseteq sst' /\ mem \subseteq mem' \cup sst'

LEMMA AppendGrows ==
    ASSUME DiskOK, NEW st \in Step
    PROVE  /\ \A s \in Stores : \A k \in 1 .. Len(log[s]) : LogAppend(st)[s][k] = log[s][k]
           /\ \A s \in Stores : s # st.store => LogAppend(st)[s] = log[s]
           /\ LogAppend(st)[st.store][Len(log[st.store]) + 1] = st.rows
<1>1. st.store \in Stores /\ st.rows \in SUBSET Rows BY DEF Step
<1>2. LogAppend(st)[st.store] = Append(log[st.store], st.rows) BY <1>1 DEF LogAppend, DiskOK
<1>3. \A s \in Stores : s # st.store => LogAppend(st)[s] = log[s] BY <1>1 DEF LogAppend, DiskOK
<1>4. log[st.store] \in Seq(SUBSET Rows) BY <1>1, LogLength
<1>5. LogAppend(st)[st.store][Len(log[st.store]) + 1] = st.rows BY <1>1, <1>2, <1>4
<1>6. \A k \in 1 .. Len(log[st.store]) : LogAppend(st)[st.store][k] = log[st.store][k]
  BY <1>1, <1>2, <1>4
<1> QED BY <1>3, <1>5, <1>6

LEMMA ApplyGrows ==
    ASSUME DiskOK, NEW st \in Step, Apply(st)
    PROVE  Grows
<1>0. st.store \in Stores BY DEF Step
<1>1. CASE Volatile(st)
  <2>1. \A s \in Stores : Len(log[s]) \in Nat /\ synced[s] \in Nat BY Zenon, LogLength
  <2> QED BY <1>1, <2>1 DEF Volatile, Grows
<1>2. CASE Logged(st)
  <2>1. \A s \in Stores : synced[s] \in Nat BY Zenon DEF DiskOK
  <2>2. \A s \in Stores : Len(log'[s]) >= Len(log[s]) /\ Len(log[s]) \in Nat
    BY <1>2, AppendType DEF Logged
  <2>3. log' \in [Stores -> Seq(SUBSET Rows)] BY <1>2, AppendType DEF Logged
  <2>4. \A s \in Stores : \A k \in 1 .. Len(log[s]) : log'[s][k] = log[s][k]
    BY <1>2, AppendGrows DEF Logged
  <2> QED BY <1>2, <2>1, <2>2, <2>3, <2>4 DEF Logged, Grows
<1>3. CASE Synced(st)
  <2>1. \A s \in Stores : synced[s] <= synced'[s]
    BY <1>0, <1>3, LogLength DEF Synced, SyncPoint, DiskOK
  <2> QED BY <1>3, <2>1, AppendType, AppendGrows DEF Synced, Grows
<1>4. CASE Flush(st)
  <2>1. \A s \in Stores : synced[s] <= synced'[s]
    BY <1>0, <1>4, LogLength DEF Flush, DiskOK
  <2> QED BY <1>4, <2>1, LogLength DEF Flush, Grows
<1> QED BY <1>1, <1>2, <1>3, <1>4 DEF Apply

LEMMA SpoilGrows ==
    ASSUME DiskOK, NEW st \in Step, Spoil(st)
    PROVE  Grows
<1>1. CASE UNCHANGED disk BY <1>1, LogLength DEF disk, Grows
<1>2. CASE log' = LogAppend(st) /\ UNCHANGED <<mem, synced, sst>>
  BY <1>2, AppendType, AppendGrows, LogLength DEF Grows
<1> QED BY <1>1, <1>2 DEF Spoil

LEMMA DurableGrows ==
    ASSUME DiskOK, DiskOK', Grows
    PROVE  Durable \subseteq Durable'
<1> SUFFICES ASSUME NEW r \in Durable PROVE r \in Durable' OBVIOUS
<1>1. CASE r \in sst BY <1>1 DEF Grows, Durable
<1>2. CASE r \in LoggedUpTo(synced)
  <2>1. PICK s \in Stores : \E k \in 1 .. synced[s] : r \in log[s][k] BY <1>2 DEF LoggedUpTo
  <2>5. PICK k \in 1 .. synced[s] : r \in log[s][k] BY <2>1
  <2>2. k \in 1 .. Len(log[s]) /\ k \in 1 .. synced'[s]
    <3>1. synced[s] \in Nat /\ Len(log[s]) \in Nat /\ synced[s] <= Len(log[s]) BY LogLength
    <3>2. synced'[s] \in Nat /\ synced[s] <= synced'[s] BY DEF DiskOK, Grows
    <3> QED BY <3>1, <3>2
  <2>3. log'[s][k] = log[s][k] BY <2>2 DEF Grows
  <2>4. r \in Rows BY <1>2 DEF LoggedUpTo
  <2> QED BY <2>5, <2>2, <2>3, <2>4 DEF Durable, LoggedUpTo
<1> QED BY <1>1, <1>2 DEF Durable

-----------------------------------------------------------------------------
(* The invariant behind GateImpliesState. *)

\* Whoever finds g in a log finds every needed row on disk, or earlier in
\* the same log.
Protected(g) ==
    \A s \in Stores : \A k \in 1 .. Len(log[s]) : g \in log[s][k] =>
        \A r \in prog.needed : r \in Durable \/ \E l \in 1 .. k : r \in log[s][l]

\* What the steps done so far have left in memory, in the logs and on disk.
ScriptInv ==
    /\ \A j \in 1 .. pc - 1 : prog.script[j].op = "volatile" =>
                                prog.script[j].rows \subseteq mem \cup sst
    /\ \A j \in 1 .. pc - 1 : Logs(prog.script[j]) =>
            \E k \in 1 .. Len(log[prog.script[j].store]) :
                log[prog.script[j].store][k] = prog.script[j].rows
    /\ \A r \in Rows : MadeDurable(prog, pc - 1, r) => r \in Durable

GateInv ==
    /\ \E g \in Rows : GateRow(prog, g) /\ g \notin mem \cup sst /\ Protected(g)
    /\ GateImpliesState

LEMMA NewEntries ==
    ASSUME DiskOK, NEW st \in Step, Apply(st) \/ Spoil(st),
           NEW s \in Stores, NEW k \in Nat, k > Len(log[s]), k <= Len(log'[s])
    PROVE  s = st.store /\ Logs(st) /\ log'[s][k] = st.rows
<1>0. Len(log[s]) \in Nat BY LogLength
<1>1. log' # log BY <1>0
<1>2. log' = LogAppend(st) /\ Logs(st)
  BY <1>1 DEF Apply, Spoil, Volatile, Logged, Synced, Flush, Logs, disk
<1>3. s = st.store BY <1>0, <1>2, AppendGrows
<1>4. k = Len(log[s]) + 1 BY <1>0, <1>2, <1>3, AppendType
<1> QED BY <1>2, <1>3, <1>4, AppendGrows

LEMMA NewRows ==
    ASSUME NEW st \in Step, Apply(st) \/ Spoil(st), NEW g \in mem' \cup sst'
    PROVE  g \in mem \cup sst \/ (st.op = "volatile" /\ g \in st.rows)
  BY DEF Apply, Spoil, Volatile, Logged, Synced, Flush, disk

LEMMA ProtectedKept ==
    ASSUME DiskOK, DiskOK', Grows, prog' = prog, NEW g, Protected(g),
           \A s \in Stores : \A k \in Nat : k > Len(log[s]) /\ k <= Len(log'[s]) /\ g \in log'[s][k] =>
               \A r \in prog.needed : r \in Durable' \/ \E l \in 1 .. k : r \in log'[s][l]
    PROVE  Protected(g)'
<1> SUFFICES ASSUME NEW s \in Stores, NEW k \in 1 .. Len(log'[s]), g \in log'[s][k],
                    NEW r \in prog.needed
             PROVE  r \in Durable' \/ \E l \in 1 .. k : r \in log'[s][l]
  BY DEF Protected
<1>0. Len(log[s]) \in Nat /\ Len(log'[s]) \in Nat BY LogLength DEF DiskOK
<1>1. CASE k > Len(log[s]) BY <1>0, <1>1
<1>2. CASE k <= Len(log[s])
  <2>1. k \in 1 .. Len(log[s]) BY <1>0, <1>2
  <2>2. \A l \in 1 .. k : log'[s][l] = log[s][l] BY <1>0, <2>1 DEF Grows
  <2>3. g \in log[s][k] BY <2>1, <2>2
  <2>4. r \in Durable \/ \E l \in 1 .. k : r \in log[s][l] BY <2>1, <2>3 DEF Protected
  <2> QED BY <2>2, <2>4, DurableGrows
<1> QED BY <1>0, <1>1, <1>2

\* A step that loses nothing and does not advance the script keeps what the
\* steps done so far have left.
LEMMA ScriptKept ==
    ASSUME TypeOK, DiskOK, DiskOK', Grows, ScriptInv, prog' = prog, pc' = pc
    PROVE  ScriptInv'
<1>0. \A j \in 1 .. pc - 1 : prog.script[j] \in Step
  BY ScriptSteps, ProgramLengths DEF TypeOK
<1>1. \A j \in 1 .. pc - 1 : prog.script[j].op = "volatile" =>
                              prog.script[j].rows \subseteq mem' \cup sst'
  BY DEF ScriptInv, Grows
<1>2. ASSUME NEW j \in 1 .. pc - 1, Logs(prog.script[j])
      PROVE  \E k \in 1 .. Len(log'[prog.script[j].store]) :
                log'[prog.script[j].store][k] = prog.script[j].rows
  <2>1. prog.script[j].store \in Stores BY <1>0 DEF Step
  <2>2. Len(log[prog.script[j].store]) \in Nat /\ Len(log'[prog.script[j].store]) \in Nat
    BY <2>1, LogLength DEF DiskOK
  <2>3. PICK k \in 1 .. Len(log[prog.script[j].store]) :
            log[prog.script[j].store][k] = prog.script[j].rows
    BY <1>2 DEF ScriptInv
  <2> QED BY <2>1, <2>2, <2>3 DEF Grows
<1>3. \A r \in Rows : MadeDurable(prog, pc - 1, r) => r \in Durable'
  BY DurableGrows DEF ScriptInv
<1>5. \A r \in Rows : MadeDurable(prog, pc - 1, r)' => r \in Durable'
  BY <1>3 DEF MadeDurable
<1> QED BY <1>1, <1>2, <1>5 DEF ScriptInv, Logs

\* A step that leaves pc, prog, phase and left alone keeps the invariant when
\* the gate row it may write is covered.
LEMMA InvKept ==
    ASSUME prog' = prog, NEW g \in Rows, GateRow(prog, g), g \notin mem' \cup sst',
           Protected(g)', GateImpliesState'
    PROVE  GateInv'
<1>1. GateRow(prog, g)' BY DEF GateRow, Covered, MadeDurable, LoggedBy, Logs, Forces
<1> QED BY <1>1 DEF GateInv

\* Step i of the script, done or failed, keeps the gate row protected.
LEMMA StepProtects ==
    ASSUME TypeOK, DiskOK, DiskOK', Grows, ScriptInv, prog' = prog,
           pc <= Len(prog.script), Apply(prog.script[pc]) \/ Spoil(prog.script[pc]),
           NEW g \in Rows, GateRow(prog, g), g \notin mem \cup sst, Protected(g)
    PROVE  g \notin mem' \cup sst' /\ Protected(g)'
<1> DEFINE st == prog.script[pc]
<1>0. Len(prog.script) \in Nat /\ pc \in 1 .. Len(prog.script) /\ st \in Step
  BY ScriptSteps, ProgramLengths DEF TypeOK
<1>1. g \in st.rows /\ st.op # "flush" => Covered(prog, pc) BY <1>0 DEF GateRow
<1>2. g \notin mem' \cup sst' BY <1>0, <1>1, NewRows DEF Covered, Logs
<1>3. ASSUME NEW s \in Stores, NEW k \in Nat, k > Len(log[s]), k <= Len(log'[s]), g \in log'[s][k],
             NEW r \in prog.needed
      PROVE  r \in Durable' \/ \E l \in 1 .. k : r \in log'[s][l]
  <2>1. s = st.store /\ Logs(st) /\ log'[s][k] = st.rows BY <1>0, <1>3, NewEntries
  <2>2. Covered(prog, pc) BY <1>1, <1>3, <2>1 DEF Logs
  <2>3. r \in Rows BY DurabilityAssumption DEF TypeOK, Program
  <2>4. CASE MadeDurable(prog, pc - 1, r) BY <2>3, <2>4, DurableGrows DEF ScriptInv
  <2>5. CASE LoggedBy(prog, pc, r)
    <3>1. PICK j \in 1 .. pc : /\ Logs(prog.script[j]) /\ r \in prog.script[j].rows
                               /\ prog.script[j].store = s
      BY <2>1, <2>5 DEF LoggedBy
    <3>2. Len(log[s]) \in Nat BY LogLength
    <3>3. CASE j = pc BY <1>3, <2>1, <3>1, <3>2, <3>3
    <3>4. CASE j # pc
      <4>1. j \in 1 .. pc - 1 BY <1>0, <3>4
      <4>2. PICK l \in 1 .. Len(log[s]) : log[s][l] = prog.script[j].rows
        BY <3>1, <4>1 DEF ScriptInv
      <4>3. log'[s][l] = log[s][l] BY DEF Grows
      <4> QED BY <1>3, <3>1, <3>2, <4>2, <4>3
    <3> QED BY <3>3, <3>4
  <2> QED BY <2>2, <2>4, <2>5 DEF Covered
<1> QED BY <1>2, <1>3, ProtectedKept

\* A successful step makes durable what the static criterion says it does.
LEMMA DoMakesDurable ==
    ASSUME TypeOK, DiskOK, DiskOK', Grows, ScriptInv, pc <= Len(prog.script),
           Apply(prog.script[pc]), NEW r \in Rows, MadeDurable(prog, pc, r)
    PROVE  r \in Durable'
<1> DEFINE st == prog.script[pc]
<1>0. Len(prog.script) \in Nat /\ pc \in 1 .. Len(prog.script) /\ st \in Step
  BY ScriptSteps, ProgramLengths DEF TypeOK
<1>1. CASE MadeDurable(prog, pc - 1, r) BY <1>1, DurableGrows DEF ScriptInv
<1>2. CASE ~MadeDurable(prog, pc - 1, r)
  <2>1. PICK j \in 1 .. pc : \E k \in j .. pc :
            /\ r \in prog.script[j].rows
            /\ \/ /\ Logs(prog.script[j]) /\ Forces(prog.script[k])
                  /\ prog.script[k].store = prog.script[j].store
               \/ /\ prog.script[j].op = "volatile" /\ prog.script[k].op = "flush"
                  /\ r \in prog.script[k].rows
    BY DEF MadeDurable
  <2>2. /\ r \in prog.script[j].rows
        /\ \/ Logs(prog.script[j]) /\ Forces(st) /\ st.store = prog.script[j].store
           \/ prog.script[j].op = "volatile" /\ st.op = "flush" /\ r \in st.rows
    <3>1. PICK k \in j .. pc :
            /\ r \in prog.script[j].rows
            /\ \/ /\ Logs(prog.script[j]) /\ Forces(prog.script[k])
                  /\ prog.script[k].store = prog.script[j].store
               \/ /\ prog.script[j].op = "volatile" /\ prog.script[k].op = "flush"
                  /\ r \in prog.script[k].rows
      BY <2>1
    <3>2. ASSUME k # pc PROVE FALSE
      <4>1. j \in 1 .. pc - 1 /\ k \in j .. pc - 1 BY <1>0, <3>2
      <4> QED BY <1>2, <3>1, <4>1 DEF MadeDurable
    <3> QED BY <3>1, <3>2
  <2>3. CASE prog.script[j].op = "volatile" /\ st.op = "flush" /\ r \in st.rows
    <3>1. j \in 1 .. pc - 1 BY <1>0, <2>3
    <3>2. r \in mem \cup sst BY <2>2, <2>3, <3>1 DEF ScriptInv
    <3> QED BY <2>3, <3>2 DEF Apply, Volatile, Logged, Synced, Flush, Durable
  <2>4. CASE Logs(prog.script[j]) /\ Forces(st) /\ st.store = prog.script[j].store
    <3>0. st.store \in Stores /\ Len(log[st.store]) \in Nat BY <1>0, LogLength DEF Step
    <3>1. CASE j = pc
      <4>1. Synced(st) BY <2>4, <3>1 DEF Apply, Volatile, Logged, Flush, Logs, Forces
      <4>2. log'[st.store][Len(log[st.store]) + 1] = st.rows BY <1>0, <4>1, AppendGrows DEF Synced
      <4>3. synced'[st.store] = Len(log[st.store]) + 1
        BY <3>0, <4>1 DEF Synced, SyncPoint, DiskOK
      <4>4. Len(log[st.store]) + 1 \in 1 .. synced'[st.store] BY <3>0, <4>3
      <4>5. r \in log'[st.store][Len(log[st.store]) + 1] BY <2>2, <3>1, <4>2
      <4>6. \E k \in 1 .. synced'[st.store] : r \in log'[st.store][k] BY <4>4, <4>5
      <4> QED BY <3>0, <4>6 DEF Durable, LoggedUpTo
    <3>2. CASE j # pc
      <4>1. j \in 1 .. pc - 1 BY <1>0, <3>2
      <4>2. PICK l \in 1 .. Len(log[st.store]) : log[st.store][l] = prog.script[j].rows
        BY <2>4, <4>1 DEF ScriptInv
      <4>3. log'[st.store][l] = log[st.store][l] BY <3>0 DEF Grows
      <4>4. synced'[st.store] \in {Len(log[st.store]), Len(log[st.store]) + 1}
        BY <2>4, <3>0 DEF Apply, Volatile, Logged, Synced, Flush, SyncPoint, Forces, DiskOK
      <4>5. l \in 1 .. synced'[st.store] BY <3>0, <4>4
      <4> QED BY <2>2, <3>0, <4>2, <4>3, <4>5 DEF Durable, LoggedUpTo
    <3> QED BY <3>1, <3>2
  <2> QED BY <2>2, <2>3, <2>4
<1> QED BY <1>1, <1>2

\* A successful step leaves what it writes.
LEMMA DoKeepsScript ==
    ASSUME TypeOK, TypeOK', ScriptInv, Do
    PROVE  ScriptInv'
<1> DEFINE st == prog.script[pc]
<1>0. DiskOK /\ DiskOK' BY DEF TypeOK, DiskOK
<1>1. Len(prog.script) \in Nat /\ pc \in 1 .. Len(prog.script) /\ st \in Step
  BY ScriptSteps, ProgramLengths DEF TypeOK, Do
<1>2. Grows /\ prog' = prog /\ pc' = pc + 1 /\ pc' - 1 = pc BY <1>0, <1>1, ApplyGrows DEF Do
<1>5. ASSUME NEW j \in 1 .. pc, prog.script[j].op = "volatile"
      PROVE  prog.script[j].rows \subseteq mem' \cup sst'
  <2>1. CASE j = pc BY <1>5, <2>1 DEF Do, Apply, Volatile, Logged, Synced, Flush
  <2>2. CASE j # pc
    <3>1. j \in 1 .. pc - 1 BY <1>1, <2>2
    <3> QED BY <1>2, <1>5, <3>1 DEF ScriptInv, Grows
  <2> QED BY <2>1, <2>2
<1>6. ASSUME NEW j \in 1 .. pc, Logs(prog.script[j])
      PROVE  \E k \in 1 .. Len(log'[prog.script[j].store]) :
                log'[prog.script[j].store][k] = prog.script[j].rows
  <2> DEFINE s == prog.script[j].store
  <2>0. s \in Stores
    <3>1. prog \in Programs /\ j \in 1 .. Len(prog.script) BY <1>1 DEF TypeOK
    <3>2. prog.script[j] \in Step BY <3>1, ScriptSteps
    <3> QED BY <3>2 DEF Step
  <2>1. Len(log[s]) \in Nat /\ Len(log'[s]) \in Nat BY <1>0, <2>0, LogLength DEF DiskOK
  <2>2. CASE j = pc
    <3>1. log' = LogAppend(st) BY <1>6, <2>2 DEF Do, Apply, Volatile, Logged, Synced, Flush, Logs
    <3>2. log'[s][Len(log[s]) + 1] = st.rows /\ Len(log'[s]) = Len(log[s]) + 1
      BY <1>0, <1>1, <2>2, <3>1, AppendGrows, AppendType
    <3>3. Len(log[s]) + 1 \in 1 .. Len(log'[s]) BY <2>1, <3>2
    <3>4. prog.script[j].rows = st.rows BY <2>2
    <3> HIDE DEF s, st
    <3> QED BY SMTT(30), <3>2, <3>3, <3>4 DEF s
  <2>3. CASE j # pc
    <3>1. j \in 1 .. pc - 1 BY <1>1, <2>3
    <3>2. PICK k \in 1 .. Len(log[s]) : log[s][k] = prog.script[j].rows
      BY <1>6, <3>1 DEF ScriptInv
    <3> HIDE DEF s
    <3>3. k \in 1 .. Len(log'[s]) /\ log'[s][k] = log[s][k]
      BY <1>2, <2>0, <2>1, <3>2 DEF Grows
    <3> QED BY <3>2, <3>3 DEF s
  <2> QED BY <2>2, <2>3
<1>7. \A r \in Rows : MadeDurable(prog, pc, r) => r \in Durable'
  BY <1>0, <1>2, DoMakesDurable DEF Do
<1>8. \A r \in Rows : MadeDurable(prog, pc - 1, r)' => r \in Durable'
  BY <1>2, <1>7 DEF MadeDurable
<1>11. 1 .. pc' - 1 = 1 .. pc BY <1>2
<1>12. \A j \in 1 .. pc' - 1 : prog'.script[j].op = "volatile" =>
                                prog'.script[j].rows \subseteq mem' \cup sst'
  BY <1>2, <1>5, <1>11
<1>13. \A j \in 1 .. pc' - 1 : Logs(prog'.script[j]) =>
            \E k \in 1 .. Len(log'[prog'.script[j].store]) :
                log'[prog'.script[j].store][k] = prog'.script[j].rows
  BY <1>2, <1>6, <1>11
<1> QED BY <1>8, <1>12, <1>13 DEF ScriptInv, Logs

\* A successful step keeps the gate row protected.
LEMMA DoKeepsInv ==
    ASSUME TypeOK, TypeOK', ScriptInv, GateInv, Do
    PROVE  GateInv'
<1> DEFINE st == prog.script[pc]
<1>0. DiskOK /\ DiskOK' BY DEF TypeOK, DiskOK
<1>1. Len(prog.script) \in Nat /\ pc \in 1 .. Len(prog.script) /\ st \in Step
  BY ScriptSteps, ProgramLengths DEF TypeOK, Do
<1>2. Grows /\ prog' = prog /\ pc' = pc + 1 /\ pc' - 1 = pc BY <1>0, <1>1, ApplyGrows DEF Do
<1>3. PICK g \in Rows : GateRow(prog, g) /\ g \notin mem \cup sst /\ Protected(g) BY DEF GateInv
<1>4. g \notin mem' \cup sst' /\ Protected(g)' BY <1>0, <1>2, <1>3, StepProtects DEF Do
<1>5. GateImpliesState' BY DEF Do, GateImpliesState
<1> QED BY <1>2, <1>3, <1>4, <1>5, InvKept

LEMMA FailKeepsInv ==
    ASSUME TypeOK, TypeOK', ScriptInv, GateInv, Fail
    PROVE  GateInv'
<1>0. DiskOK /\ DiskOK' BY DEF TypeOK, DiskOK
<1>1. prog.script[pc] \in Step BY ScriptSteps, ProgramLengths DEF TypeOK, Fail
<1>2. Grows BY <1>0, <1>1, SpoilGrows DEF Fail
<1>3. PICK g \in Rows : GateRow(prog, g) /\ g \notin mem \cup sst /\ Protected(g) BY DEF GateInv
<1>4. g \notin mem' \cup sst' /\ Protected(g)' BY <1>0, <1>2, <1>3, StepProtects DEF Fail
<1>5. GateImpliesState' BY DEF Fail, GateImpliesState
<1> QED BY <1>0, <1>2, <1>3, <1>4, <1>5, InvKept DEF Fail

LEMMA DeferredKeepsInv ==
    ASSUME TypeOK, TypeOK', GateInv, Deferred
    PROVE  GateInv'
<1> DEFINE st == prog.deferred[dpc]
<1>0. DiskOK /\ DiskOK' BY DEF TypeOK, DiskOK
<1>1. st \in Step /\ dpc \in 1 .. Len(prog.deferred)
  BY DeferredSteps, ProgramLengths DEF TypeOK, Deferred
<1>2. Apply(st) \/ Spoil(st) BY DEF Deferred
<1>3. Grows BY <1>0, <1>1, <1>2, ApplyGrows, SpoilGrows
<1>4. PICK g \in Rows : GateRow(prog, g) /\ g \notin mem \cup sst /\ Protected(g) BY DEF GateInv
<1>5. g \in st.rows => st.op = "flush" BY <1>1, <1>4 DEF GateRow
<1>6. g \notin mem' \cup sst' BY <1>1, <1>2, <1>4, <1>5, NewRows
<1>7. ASSUME NEW s \in Stores, NEW k \in Nat, k > Len(log[s]), k <= Len(log'[s])
      PROVE  g \notin log'[s][k]
  BY <1>0, <1>1, <1>2, <1>5, <1>7, NewEntries DEF Logs
<1>8. prog' = prog /\ pc' = pc BY DEF Deferred
<1>9. Protected(g)' BY <1>0, <1>3, <1>4, <1>7, <1>8, ProtectedKept
<1>10. GateImpliesState' BY DEF Deferred, GateImpliesState
<1> QED BY <1>0, <1>3, <1>4, <1>6, <1>8, <1>9, <1>10, InvKept

\* The steps of the environment: tables and logs reach the disk.
LEMMA EnvironmentKeepsInv ==
    ASSUME TypeOK, TypeOK', GateInv, BackgroundFlush \/ WriteBack
    PROVE  GateInv'
<1>0. DiskOK /\ DiskOK' BY DEF TypeOK, DiskOK
<1>1. log' = log /\ prog' = prog /\ pc' = pc /\ mem' \cup sst' = mem \cup sst
  BY DEF BackgroundFlush, WriteBack
<1>2. \A s \in Stores : Len(log[s]) \in Nat /\ synced[s] \in Nat BY <1>0, LogLength
<1>3. \A s \in Stores : synced[s] <= synced'[s]
  <2>1. CASE BackgroundFlush BY <1>2, <2>1 DEF BackgroundFlush
  <2>2. CASE WriteBack
    <3>1. PICK s \in Stores : synced' = [synced EXCEPT ![s] = @ + 1] BY Zenon, <2>2 DEF WriteBack
    <3>2. synced \in [Stores -> Nat] BY DEF TypeOK
    <3> QED BY <1>2, <3>1, <3>2
  <2> QED BY <2>1, <2>2
<1>4. sst \subseteq sst' BY DEF BackgroundFlush, WriteBack
<1>5. Grows BY <1>1, <1>2, <1>3, <1>4 DEF Grows
<1>6. PICK g \in Rows : GateRow(prog, g) /\ g \notin mem \cup sst /\ Protected(g) BY DEF GateInv
<1>7. Protected(g)'
  <2>1. \A s \in Stores : \A k \in Nat : ~(k > Len(log[s]) /\ k <= Len(log'[s])) BY <1>1, <1>2
  <2> QED BY <1>0, <1>1, <1>5, <1>6, <2>1, ProtectedKept
<1>8. GateImpliesState' BY DEF BackgroundFlush, WriteBack, GateImpliesState, GateInv
<1> QED BY <1>0, <1>1, <1>5, <1>6, <1>7, <1>8, InvKept

\* Whatever ends the process, the client that finds the gate row finds the state.
LEMMA StopKeepsGate ==
    ASSUME TypeOK, GateInv, Stop
    PROVE  GateImpliesState'
<1>1. PICK g \in Rows : GateRow(prog, g) /\ g \notin mem \cup sst /\ Protected(g) BY DEF GateInv
<1>2. SUFFICES ASSUME g \in left', NEW r \in prog.needed PROVE r \in left'
  BY <1>1 DEF GateImpliesState, GateRow, Stop
<1>3. r \in Rows BY DurabilityAssumption DEF TypeOK, Program
<1>4. DiskOK BY DEF TypeOK, DiskOK
<1>5. CASE left' = Kept
  <2>1. PICK s \in Stores : \E k \in 1 .. Len(log[s]) : g \in log[s][k]
    BY <1>1, <1>2, <1>5 DEF Kept, LoggedUpTo, LogLengths
  <2>2. PICK k \in 1 .. Len(log[s]) : g \in log[s][k] BY <2>1
  <2>3. r \in Durable \/ \E l \in 1 .. k : r \in log[s][l] BY <1>1, <2>2 DEF Protected
  <2>4. Durable \subseteq Kept
    <3>1. \A t \in Stores : 1 .. synced[t] \subseteq 1 .. Len(log[t]) BY <1>4, LogLength
    <3> QED BY <3>1 DEF Durable, Kept, LoggedUpTo, LogLengths
  <2>5. Len(log[s]) \in Nat BY <1>4, LogLength
  <2>6. CASE \E l \in 1 .. k : r \in log[s][l]
    <3>1. \E l \in 1 .. Len(log[s]) : r \in log[s][l] BY <2>5, <2>6
    <3> QED BY <1>3, <1>5, <3>1 DEF Kept, LoggedUpTo, LogLengths
  <2> QED BY <1>5, <2>3, <2>4, <2>6
<1>6. CASE left' = Durable
  <2>1. PICK s \in Stores : \E k \in 1 .. synced[s] : g \in log[s][k]
    BY <1>1, <1>2, <1>6 DEF Durable, LoggedUpTo
  <2>2. PICK k \in 1 .. synced[s] : g \in log[s][k] BY <2>1
  <2>3. Len(log[s]) \in Nat /\ synced[s] \in Nat /\ synced[s] <= Len(log[s]) BY <1>4, LogLength
  <2>4. k \in 1 .. Len(log[s]) BY <2>2, <2>3
  <2>5. r \in Durable \/ \E l \in 1 .. k : r \in log[s][l] BY <1>1, <2>2, <2>4 DEF Protected
  <2>6. CASE \E l \in 1 .. k : r \in log[s][l]
    <3>1. \E l \in 1 .. synced[s] : r \in log[s][l] BY <2>3, <2>6
    <3> QED BY <1>3, <1>6, <3>1 DEF Durable, LoggedUpTo
  <2> QED BY <1>6, <2>5, <2>6
<1> QED BY <1>5, <1>6 DEF Stop, Boot, Kill, PowerLoss

-----------------------------------------------------------------------------
(* Control, and what the deferred steps leave. *)

\* When the script has ended, and when the deferred steps have.
Control ==
    /\ phase = "run" => dpc = 1 /\ result = "none"
    /\ result = "ok" => pc = Len(prog.script) + 1
    /\ phase = "exit" => \/ dpc = Len(prog.deferred) + 1
                         \/ result = "ok" /\ ~prog.always

\* What the script wrote to a memtable is in a table once a deferred step has
\* flushed it.
Closing ==
    prog \notin CloseFails =>
        \A j \in 1 .. pc - 1 : \A k \in 1 .. dpc - 1 : \A r \in Rows :
            /\ prog.script[j].op = "volatile" /\ r \in prog.script[j].rows
            /\ prog.deferred[k].op = "flush" /\ r \in prog.deferred[k].rows
            => r \in sst

RunInv == TypeOK /\ ScriptInv /\ Control /\ Closing

\* Every step of the run and of its environment only adds to the disk.
LEMMA NextGrows ==
    ASSUME TypeOK, TypeOK', [Next]_vars
    PROVE  DiskOK /\ DiskOK' /\ Grows /\ prog' = prog
<1>0. DiskOK /\ DiskOK' BY DEF TypeOK, DiskOK
<1>1. \A s \in Stores : Len(log[s]) \in Nat /\ synced[s] \in Nat BY <1>0, LogLength
<1>2. CASE Do
  <2>1. prog.script[pc] \in Step BY <1>2, ScriptSteps, ProgramLengths DEF TypeOK, Do
  <2> QED BY <1>0, <1>2, <2>1, ApplyGrows DEF Do
<1>3. CASE Fail
  <2>1. prog.script[pc] \in Step BY <1>3, ScriptSteps, ProgramLengths DEF TypeOK, Fail
  <2> QED BY <1>0, <1>3, <2>1, SpoilGrows DEF Fail
<1>4. CASE Deferred
  <2>1. prog.deferred[dpc] \in Step BY <1>4, DeferredSteps, ProgramLengths DEF TypeOK, Deferred
  <2> QED BY <1>0, <1>4, <2>1, ApplyGrows, SpoilGrows DEF Deferred
<1>5. CASE BackgroundFlush BY <1>0, <1>1, <1>5 DEF BackgroundFlush, Grows
<1>6. CASE WriteBack
  <2>1. PICK s \in Stores : synced' = [synced EXCEPT ![s] = @ + 1] BY Zenon, <1>6 DEF WriteBack
  <2>2. \A t \in Stores : synced[t] <= synced'[t] BY <1>0, <1>1, <2>1 DEF DiskOK
  <2> QED BY <1>0, <1>1, <1>6, <2>2 DEF WriteBack, Grows
<1>7. CASE Return \/ Exit \/ Stop \/ UNCHANGED vars
  BY <1>0, <1>1, <1>7 DEF Return, Exit, Stop, vars, disk, Grows
<1> QED BY <1>2, <1>3, <1>4, <1>5, <1>6, <1>7 DEF Next

\* The phases follow one another.
LEMMA ControlStep ==
    ASSUME TypeOK, Control, [Next]_vars
    PROVE  Control'
<1>1. CASE Do
  <2>1. Len(prog.script) \in Nat /\ pc \in Nat BY ProgramLengths DEF TypeOK
  <2> QED BY <1>1, <2>1 DEF Do, Control
<1>2. CASE Deferred
  <2>1. Len(prog.deferred) \in Nat /\ dpc \in Nat BY ProgramLengths DEF TypeOK
  <2> QED BY <1>2, <2>1 DEF Deferred, Control
<1>3. CASE Fail BY <1>3 DEF Fail, Control
<1>4. CASE Return BY <1>4, ProgramLengths DEF Return, Control, TypeOK
<1>5. CASE Exit BY <1>5 DEF Exit, Control
<1>6. CASE BackgroundFlush \/ WriteBack \/ Stop \/ UNCHANGED vars
  BY <1>6 DEF BackgroundFlush, WriteBack, Stop, vars, Control
<1> QED BY <1>1, <1>2, <1>3, <1>4, <1>5, <1>6 DEF Next

\* A flush among the deferred steps moves the script's rows into tables.
LEMMA ClosingStep ==
    ASSUME RunInv, TypeOK', [Next]_vars
    PROVE  Closing'
<1> SUFFICES ASSUME prog' \notin CloseFails,
                    NEW j \in 1 .. pc' - 1, NEW k \in 1 .. dpc' - 1, NEW r \in Rows,
                    prog'.script[j].op = "volatile", r \in prog'.script[j].rows,
                    prog'.deferred[k].op = "flush", r \in prog'.deferred[k].rows
             PROVE  r \in sst'
  BY DEF Closing
<1>1. Grows /\ prog' = prog /\ pc \in Nat /\ dpc \in Nat BY NextGrows, ProgramLengths DEF RunInv, TypeOK
<1>2. CASE j \in 1 .. pc - 1 /\ k \in 1 .. dpc - 1
  BY <1>1, <1>2 DEF RunInv, Closing, Grows
<1>3. CASE Do
  <2>1. 1 .. dpc' - 1 = {} BY <1>3 DEF Do, RunInv, Control
  <2> QED BY <2>1
<1>4. CASE Deferred
  <2>1. pc' = pc /\ dpc' = dpc + 1 BY <1>4 DEF Deferred
  <2>2. CASE k = dpc
    <3>1. Apply(prog.deferred[dpc]) BY <1>1, <1>4 DEF Deferred
    <3>2. Flush(prog.deferred[dpc])
      BY <1>1, <2>2, <3>1 DEF Apply, Volatile, Logged, Synced
    <3>3. r \in mem \cup sst BY <1>1, <2>1 DEF RunInv, ScriptInv
    <3> QED BY <1>1, <2>2, <3>2, <3>3 DEF Flush
  <2>3. CASE k # dpc
    <3>1. k \in 1 .. dpc - 1 BY <1>1, <2>1, <2>3
    <3> QED BY <1>2, <2>1, <3>1
  <2> QED BY <2>2, <2>3
<1>5. CASE pc' = pc /\ dpc' = dpc BY <1>2, <1>5
<1> QED BY <1>3, <1>4, <1>5 DEF Next, Fail, Return, Exit, BackgroundFlush, WriteBack, Stop, vars

\* The invariant of the run holds initially and is kept by every step.
LEMMA RunHolds == Spec => []RunInv
<1>1. Init => ScriptInv /\ Control /\ Closing
  <2> SUFFICES ASSUME Init PROVE ScriptInv /\ Control /\ Closing OBVIOUS
  <2>1. pc = 1 /\ dpc = 1 /\ 1 .. pc - 1 = {} /\ prog \in Programs BY DEF Init
  <2>2. \A r \in Rows : ~MadeDurable(prog, pc - 1, r) BY <2>1 DEF MadeDurable
  <2>3. ScriptInv BY <2>1, <2>2 DEF ScriptInv
  <2>4. Control BY DEF Init, Control
  <2>5. Closing BY <2>1 DEF Closing
  <2> QED BY <2>3, <2>4, <2>5
<1>2. RunInv /\ TypeOK' /\ [Next]_vars => ScriptInv' /\ Control' /\ Closing'
  <2> SUFFICES ASSUME RunInv, TypeOK', [Next]_vars PROVE ScriptInv' /\ Control' /\ Closing'
    OBVIOUS
  <2>1. DiskOK /\ DiskOK' /\ Grows /\ prog' = prog BY NextGrows DEF RunInv
  <2>2. CASE Do BY <2>2, DoKeepsScript, ControlStep, ClosingStep DEF RunInv
  <2>3. CASE ~Do
    <3>1. pc' = pc
      BY <2>3 DEF Next, Fail, Return, Deferred, Exit, BackgroundFlush, WriteBack, Stop, vars
    <3>2. ScriptInv' BY <2>1, <3>1, ScriptKept DEF RunInv
    <3> QED BY <3>2, ControlStep, ClosingStep DEF RunInv
  <2> QED BY <2>2, <2>3
<1> QED BY <1>1, <1>2, TypeCorrect, PTL DEF Spec, RunInv

\* What a power loss leaves is left by any end of the process.
LEMMA DurableIsKept == ASSUME DiskOK PROVE Durable \subseteq Kept
<1>1. \A t \in Stores : 1 .. synced[t] \subseteq 1 .. Len(log[t]) BY LogLength
<1> QED BY <1>1 DEF Durable, Kept, LoggedUpTo, LogLengths

\* The rows of a step that reached the log are left.
LEMMA LoggedIsKept ==
    ASSUME NEW r \in Rows, NEW s \in Stores, NEW k \in 1 .. Len(log[s]), r \in log[s][k]
    PROVE  r \in Kept
  BY DEF Kept, LoggedUpTo, LogLengths

\* What the script has written and logged, flushed, or leaves to a deferred
\* flush that has run, is left.
LEMMA WrittenIsKept ==
    ASSUME RunInv, NEW j \in 1 .. pc - 1, NEW r \in Rows, r \in prog.script[j].rows,
           \/ Logs(prog.script[j])
           \/ /\ prog.script[j].op = "volatile"
              /\ \/ FlushedIn(prog.script, j, pc - 1, r)
                 \/ /\ prog \notin CloseFails /\ dpc = Len(prog.deferred) + 1
                    /\ FlushedIn(prog.deferred, 1, Len(prog.deferred), r)
    PROVE  r \in Kept
<1>0. DiskOK /\ pc \in Nat /\ prog \in Programs BY ProgramLengths DEF RunInv, TypeOK, DiskOK
<1>1. CASE Logs(prog.script[j])
  <2>1. prog.script[j] \in Step
    BY <1>0, ScriptSteps, ProgramLengths DEF RunInv, TypeOK
  <2>2. PICK k \in 1 .. Len(log[prog.script[j].store]) :
            log[prog.script[j].store][k] = prog.script[j].rows
    BY <1>1 DEF RunInv, ScriptInv
  <2> QED BY <2>1, <2>2, LoggedIsKept DEF Step
<1>2. CASE prog.script[j].op = "volatile" /\ FlushedIn(prog.script, j, pc - 1, r)
  <2>1. PICK k \in j .. pc - 1 : prog.script[k].op = "flush" /\ r \in prog.script[k].rows
    BY <1>2 DEF FlushedIn
  <2>2. MadeDurable(prog, pc - 1, r) BY <1>2, <2>1 DEF MadeDurable
  <2>3. r \in Durable BY <2>2 DEF RunInv, ScriptInv
  <2> QED BY <1>0, <2>3, DurableIsKept
<1>3. CASE /\ prog.script[j].op = "volatile" /\ prog \notin CloseFails
           /\ dpc = Len(prog.deferred) + 1 /\ FlushedIn(prog.deferred, 1, Len(prog.deferred), r)
  <2>1. Len(prog.deferred) \in Nat BY <1>0, ProgramLengths
  <2>2. PICK k \in 1 .. Len(prog.deferred) :
            prog.deferred[k].op = "flush" /\ r \in prog.deferred[k].rows
    BY <1>3 DEF FlushedIn
  <2>3. k \in 1 .. dpc - 1 BY <1>3, <2>1
  <2>4. r \in sst BY <1>3, <2>2, <2>3 DEF RunInv, Closing
  <2> QED BY <2>4 DEF Kept
<1> QED BY <1>1, <1>2, <1>3

-----------------------------------------------------------------------------
(* The gate of a program that exits by itself. *)

\* Row g has reached memory, a log or a table.
Reached(g) ==
    g \in mem \cup sst \/ \E s \in Stores : \E k \in 1 .. Len(log[s]) : g \in log[s][k]

\* Step i has succeeded, or it is the one that failed and its rows are in the
\* log all the same.
Begun(i) ==
    \/ i \in 1 .. pc - 1
    \/ /\ i = pc /\ i <= Len(prog.script) /\ Logs(prog.script[i])
       /\ \E k \in 1 .. Len(log[prog.script[i].store]) :
            log[prog.script[i].store][k] = prog.script[i].rows

\* A row that was reached was written by a step of the script that has begun.
BegunBefore(g) ==
    Reached(g) => \E i \in 1 .. Len(prog.script) :
        g \in prog.script[i].rows /\ prog.script[i].op # "flush" /\ Begun(i)

ExitInv == (\E g \in Rows : ClosedRow(prog, g) /\ BegunBefore(g)) /\ GateImpliesState

\* A step that does not write row g leaves it where it was.
LEMMA ReachedOnlyBy ==
    ASSUME DiskOK, DiskOK', NEW st \in Step, Apply(st) \/ Spoil(st), NEW g, Reached(g)'
    PROVE  \/ Reached(g)
           \/ /\ g \in st.rows /\ st.op # "flush"
              /\ Logs(st) => \E k \in 1 .. Len(log'[st.store]) : log'[st.store][k] = st.rows
<1>1. CASE g \in mem' \cup sst'
  <2>1. g \in mem \cup sst \/ (st.op = "volatile" /\ g \in st.rows) BY <1>1, NewRows
  <2> QED BY <2>1 DEF Reached, Logs
<1>2. ASSUME NEW s \in Stores, NEW k \in 1 .. Len(log'[s]), g \in log'[s][k]
      PROVE  \/ Reached(g)
             \/ /\ g \in st.rows /\ st.op # "flush"
                /\ Logs(st) => \E l \in 1 .. Len(log'[st.store]) : log'[st.store][l] = st.rows
  <2>1. Len(log[s]) \in Nat /\ Len(log'[s]) \in Nat /\ k \in Nat BY LogLength DEF DiskOK
  <2>2. CASE k > Len(log[s])
    <3>1. s = st.store /\ Logs(st) /\ log'[s][k] = st.rows BY <2>1, <2>2, NewEntries
    <3> QED BY <1>2, <3>1 DEF Logs
  <2>3. CASE k <= Len(log[s])
    <3>1. k \in 1 .. Len(log[s]) BY <2>1, <2>3
    <3>2. Grows BY ApplyGrows, SpoilGrows
    <3>3. log'[s][k] = log[s][k] BY <3>1, <3>2 DEF Grows
    <3> QED BY <1>2, <3>1, <3>3 DEF Reached
  <2> QED BY <2>1, <2>2, <2>3
<1> QED BY <1>1, <1>2 DEF Reached

\* A step that has begun stays so.
LEMMA BegunKept ==
    ASSUME TypeOK, DiskOK, DiskOK', Grows, prog' = prog, pc' \in {pc, pc + 1},
           NEW i \in 1 .. Len(prog.script), Begun(i)
    PROVE  Begun(i)'
<1>0. pc \in Nat /\ Len(prog.script) \in Nat /\ prog.script[i] \in Step
  BY ScriptSteps, ProgramLengths DEF TypeOK
<1>1. CASE i \in 1 .. pc - 1 BY <1>0, <1>1 DEF Begun
<1>2. CASE i = pc /\ pc' = pc + 1 BY <1>0, <1>2 DEF Begun
<1>3. CASE i \notin 1 .. pc - 1 /\ pc' = pc
  <2> DEFINE s == prog.script[i].store
  <2>0. s \in Stores BY <1>0 DEF Step
  <2>1. i = pc /\ Logs(prog.script[i]) BY <1>3 DEF Begun
  <2>2. PICK k \in 1 .. Len(log[s]) : log[s][k] = prog.script[i].rows BY <1>3 DEF Begun
  <2>3. Len(log[s]) \in Nat /\ Len(log'[s]) \in Nat BY <2>0, LogLength DEF DiskOK
  <2> HIDE DEF s
  <2>4. k \in 1 .. Len(log'[s]) /\ log'[s][k] = prog.script[i].rows
    BY <2>0, <2>2, <2>3 DEF Grows
  <2>5. \E l \in 1 .. Len(log'[s]) : log'[s][l] = prog.script[i].rows BY <2>4
  <2> QED BY <1>3, <2>1, <2>5 DEF Begun, Logs, s
<1> QED BY <1>1, <1>2, <1>3 DEF Begun

\* No step reaches the gate row before a step of the script that writes it.
LEMMA BegunStep ==
    ASSUME TypeOK, TypeOK', [Next]_vars, NEW g \in Rows, ClosedRow(prog, g), BegunBefore(g)
    PROVE  BegunBefore(g)'
<1>0. DiskOK /\ DiskOK' /\ Grows /\ prog' = prog BY NextGrows
<1>1. pc \in Nat /\ Len(prog.script) \in Nat /\ Len(prog.deferred) \in Nat
  BY ProgramLengths DEF TypeOK
<1>2. pc' \in {pc, pc + 1}
  BY DEF Next, Do, Fail, Return, Deferred, Exit, BackgroundFlush, WriteBack, Stop, vars
<1>3. ASSUME Reached(g) PROVE BegunBefore(g)'
  <2>1. PICK i \in 1 .. Len(prog.script) :
            g \in prog.script[i].rows /\ prog.script[i].op # "flush" /\ Begun(i)
    BY <1>3 DEF BegunBefore
  <2>2. Begun(i)' BY <1>0, <1>2, <2>1, BegunKept
  <2> QED BY <1>0, <2>1, <2>2 DEF BegunBefore
<1>4. CASE Do \/ Fail
  <2> DEFINE st == prog.script[pc]
  <2>1. pc \in 1 .. Len(prog.script) /\ (Apply(st) \/ Spoil(st)) BY <1>1, <1>4 DEF Do, Fail, TypeOK
  <2>2. st \in Step BY SMTT(30), <2>1, ScriptSteps DEF TypeOK
  <2>3. ASSUME Reached(g)', ~Reached(g)
        PROVE  /\ g \in st.rows /\ st.op # "flush"
               /\ Logs(st) => \E k \in 1 .. Len(log'[st.store]) : log'[st.store][k] = st.rows
    BY <1>0, <2>1, <2>2, <2>3, ReachedOnlyBy
  <2>4. PICK i \in 1 .. Len(prog.script) : i = pc BY <2>1
  <2>5. ASSUME Reached(g)', ~Reached(g) PROVE Begun(i)'
    <3>1. CASE Do
      <4>1. pc' = pc + 1 BY <3>1 DEF Do
      <4> QED BY <1>1, <2>4, <4>1 DEF Begun
    <3>2. CASE Fail
      <4>1. pc' = pc /\ Spoil(st) BY <3>2 DEF Fail
      <4>2. Logs(st)
        <5>1. UNCHANGED disk => ~Reached(g)' BY <2>5 DEF disk, Reached
        <5> QED BY <2>5, <4>1, <5>1 DEF Spoil, Logs
      <4>3. \E k \in 1 .. Len(log'[st.store]) : log'[st.store][k] = st.rows
        BY <2>3, <2>5, <4>2
      <4> QED BY <1>0, <1>1, <2>1, <2>4, <4>1, <4>2, <4>3 DEF Begun, Logs
    <3> QED BY <1>4, <3>1, <3>2
  <2>6. CASE Reached(g)' /\ ~Reached(g)
    <3>1. g \in prog.script[i].rows /\ prog.script[i].op # "flush" BY <2>3, <2>4, <2>6
    <3>2. Begun(i)' BY <2>5, <2>6
    <3> QED BY <1>0, <3>1, <3>2 DEF BegunBefore
  <2> QED BY <1>3, <2>6 DEF BegunBefore
<1>5. CASE Deferred
  <2> DEFINE st == prog.deferred[dpc]
  <2>1. dpc \in 1 .. Len(prog.deferred) /\ (Apply(st) \/ Spoil(st))
    BY <1>1, <1>5 DEF Deferred, TypeOK
  <2>2. st \in Step BY <2>1, DeferredSteps DEF TypeOK
  <2>3. g \in st.rows => st.op = "flush" BY <2>1 DEF ClosedRow
  <2>4. Reached(g)' => Reached(g) BY <1>0, <2>1, <2>2, <2>3, ReachedOnlyBy
  <2> QED BY <1>3, <2>4 DEF BegunBefore
<1>6. CASE Return \/ Exit \/ BackgroundFlush \/ WriteBack \/ Stop \/ UNCHANGED vars
  <2>1. log' = log /\ mem' \cup sst' = mem \cup sst
    BY <1>6 DEF Return, Exit, BackgroundFlush, WriteBack, Stop, vars, disk
  <2>2. Reached(g)' => Reached(g) BY <2>1 DEF Reached
  <2> QED BY <1>3, <2>2 DEF BegunBefore
<1> QED BY <1>4, <1>5, <1>6 DEF Next

\* A program that exits by itself with its gate row left has its state left.
LEMMA ExitKeepsGate ==
    ASSUME RunInv, ExitInv, ExitsOnly(prog), Stop
    PROVE  GateImpliesState'
<1>0. /\ DiskOK /\ prog \in Programs /\ pc \in 1 .. Len(prog.script) + 1
      /\ Len(prog.script) \in Nat /\ Len(prog.deferred) \in Nat
  BY ProgramLengths DEF RunInv, TypeOK, DiskOK
<1>1. PICK g \in Rows : ClosedRow(prog, g) /\ BegunBefore(g) BY DEF ExitInv
<1>2. Boot /\ prog' = prog BY DEF Stop, ExitsOnly
<1>3. SUFFICES ASSUME g \in Kept, NEW r \in prog.needed PROVE r \in Kept
  BY <1>1, <1>2 DEF GateImpliesState, ClosedRow, Boot
<1>4. r \in Rows BY <1>0, DurabilityAssumption DEF Program
<1>5. Reached(g) BY <1>3 DEF Reached, Kept, LoggedUpTo, LogLengths
<1>6. PICK i \in 1 .. Len(prog.script) :
          g \in prog.script[i].rows /\ prog.script[i].op # "flush" /\ Begun(i)
  BY <1>1, <1>5 DEF BegunBefore
<1>7. HeldFrom(prog, i, r) BY <1>1, <1>6 DEF ClosedRow
<1>8. PICK j \in 1 .. i :
          /\ r \in prog.script[j].rows
          /\ \/ Logs(prog.script[j])
             \/ /\ j < i /\ prog.script[j].op = "volatile"
                /\ FlushedIn(prog.script, j, i - 1, r) \/ FlushedAtEnd(prog, j, r)
  BY <1>7 DEF HeldFrom
<1>9. i \in 1 .. pc - 1 \/ i = pc BY <1>6 DEF Begun
<1>10. CASE j = pc
  <2>1. i = pc /\ Logs(prog.script[i]) /\ i \notin 1 .. pc - 1 BY <1>0, <1>8, <1>9, <1>10
  <2>2. PICK k \in 1 .. Len(log[prog.script[i].store]) :
            log[prog.script[i].store][k] = prog.script[i].rows
    BY <1>6, <2>1 DEF Begun
  <2>3. prog.script[i].store \in Stores BY <1>0, ScriptSteps DEF Step
  <2> QED BY <1>4, <1>8, <1>10, <2>1, <2>2, <2>3, LoggedIsKept
<1>11. CASE j # pc
  <2>1. j \in 1 .. pc - 1 /\ i <= pc BY <1>0, <1>9, <1>11
  <2>2. prog \notin CloseFails BY DEF ExitsOnly
  <2>3. CASE Logs(prog.script[j]) BY <1>4, <1>8, <2>1, <2>3, WrittenIsKept
  <2>4. ASSUME prog.script[j].op = "volatile", FlushedIn(prog.script, j, i - 1, r)
        PROVE  r \in Kept
    <3>1. FlushedIn(prog.script, j, pc - 1, r)
      <4>1. j .. i - 1 \subseteq j .. pc - 1 BY <1>0, <2>1
      <4> QED BY <2>4, <4>1 DEF FlushedIn
    <3> QED BY <1>4, <1>8, <2>1, <2>4, <3>1, WrittenIsKept
  <2>5. ASSUME prog.script[j].op = "volatile", FlushedAtEnd(prog, j, r)
        PROVE  r \in Kept
    <3>1. CASE dpc = Len(prog.deferred) + 1
      BY <1>4, <1>8, <2>1, <2>2, <2>5, <3>1, WrittenIsKept DEF FlushedAtEnd
    <3>2. CASE result = "ok" /\ ~prog.always
      <4>1. pc - 1 = Len(prog.script) BY <1>0, <3>2 DEF RunInv, Control
      <4>2. FlushedIn(prog.script, j, pc - 1, r) BY <2>5, <3>2, <4>1 DEF FlushedAtEnd
      <4> QED BY <1>4, <1>8, <2>1, <2>5, <4>2, WrittenIsKept
    <3> QED BY <1>2, <3>1, <3>2 DEF RunInv, Control, Boot
  <2> QED BY <1>8, <2>3, <2>4, <2>5
<1> QED BY <1>10, <1>11

-----------------------------------------------------------------------------
(* The theorems. *)

LEMMA GateInvInit == ASSUME Init, WellOrdered(prog) PROVE GateInv
<1>1. PICK g \in Rows : GateRow(prog, g) BY DEF WellOrdered
<1>2. g \notin mem \cup sst BY DEF Init
<1>3. Protected(g) BY DEF Protected, Init
<1>4. GateImpliesState BY DEF Init, GateImpliesState
<1> QED BY <1>1, <1>2, <1>3, <1>4 DEF GateInv

LEMMA ExitInvInit == ASSUME Init, WellClosed(prog) PROVE ExitInv
<1>1. PICK g \in Rows : ClosedRow(prog, g) BY DEF WellClosed
<1>2. ~Reached(g) BY DEF Reached, Init
<1>3. GateImpliesState BY DEF Init, GateImpliesState
<1> QED BY <1>1, <1>2, <1>3 DEF ExitInv, BegunBefore

\* No step uncovers the gate of a well-ordered program.
LEMMA GateInvStep ==
    ASSUME RunInv, TypeOK', GateInv, [Next]_vars
    PROVE  GateInv'
<1>0. TypeOK /\ ScriptInv BY DEF RunInv
<1>1. DiskOK /\ DiskOK' /\ Grows /\ prog' = prog BY <1>0, NextGrows
<1>2. \A s \in Stores : Len(log[s]) \in Nat BY <1>1, LogLength
<1>3. CASE Do BY <1>0, <1>3, DoKeepsInv
<1>4. CASE Fail BY <1>0, <1>4, FailKeepsInv
<1>5. CASE Deferred BY <1>0, <1>5, DeferredKeepsInv
<1>6. CASE BackgroundFlush \/ WriteBack BY <1>0, <1>6, EnvironmentKeepsInv
<1>7. ASSUME UNCHANGED disk, GateImpliesState' PROVE GateInv'
  <2>1. PICK g \in Rows : GateRow(prog, g) /\ g \notin mem \cup sst /\ Protected(g) BY DEF GateInv
  <2>2. g \notin mem' \cup sst' BY <1>7, <2>1 DEF disk
  <2>3. \A s \in Stores : \A k \in Nat : ~(k > Len(log[s]) /\ k <= Len(log'[s]))
    BY <1>2, <1>7 DEF disk
  <2>4. Protected(g)' BY <1>1, <2>1, <2>3, ProtectedKept
  <2> QED BY <1>1, <1>7, <2>1, <2>2, <2>4, InvKept
<1>8. CASE Return \/ Exit \/ UNCHANGED vars
  <2>1. GateImpliesState' BY <1>0, <1>8 DEF Return, Exit, vars, GateInv, GateImpliesState, TypeOK
  <2> QED BY <1>7, <1>8, <2>1 DEF Return, Exit, vars, disk
<1>9. CASE Stop BY <1>0, <1>7, <1>9, StopKeepsGate DEF Stop
<1> QED BY <1>3, <1>4, <1>5, <1>6, <1>8, <1>9 DEF Next

\* No step breaks the order of a program that exits by itself.
LEMMA ExitInvStep ==
    ASSUME RunInv, TypeOK', ExitsOnly(prog), ExitInv, [Next]_vars
    PROVE  ExitInv'
<1>0. TypeOK /\ prog' = prog BY NextGrows DEF RunInv
<1>1. PICK g \in Rows : ClosedRow(prog, g) /\ BegunBefore(g) BY DEF ExitInv
<1>2. BegunBefore(g)' BY <1>0, <1>1, BegunStep
<1>3. ClosedRow(prog, g)'
  BY <1>0, <1>1 DEF ClosedRow, HeldFrom, FlushedIn, FlushedAtEnd, Logs
<1>4. GateImpliesState'
  <2>1. CASE Stop BY <2>1, ExitKeepsGate
  <2>2. CASE ~Stop
    <3>1. phase' = "down" => phase = "down" /\ left' = left
      BY <1>0, <2>2 DEF Next, Do, Fail, Return, Deferred, Exit, BackgroundFlush, WriteBack, vars, TypeOK
    <3> QED BY <1>0, <3>1 DEF ExitInv, GateImpliesState
  <2> QED BY <2>1, <2>2
<1> QED BY <1>2, <1>3, <1>4 DEF ExitInv

\* A writer that writes its gate row with a logged write, when every row the
\* client needs is durable or ahead of it in the same log, never leaves the
\* gate without the state, whatever step fails and however the process or the
\* machine stops.  A writer that is asked only about its own exit, with a
\* Close that does not fail, may leave needed rows to the deferred flush.
THEOREM GateProtectsState ==
    ASSUME \A p \in Programs : WellOrdered(p) \/ (ExitsOnly(p) /\ WellClosed(p))
    PROVE  Spec => []GateImpliesState
<1> DEFINE Inv == \/ WellOrdered(prog) /\ GateInv
                  \/ ExitsOnly(prog) /\ WellClosed(prog) /\ ExitInv
<1>1. Init => Inv
  <2> SUFFICES ASSUME Init PROVE Inv OBVIOUS
  <2>1. prog \in Programs BY DEF Init
  <2> QED BY <2>1, GateInvInit, ExitInvInit
<1>2. RunInv /\ TypeOK' /\ Inv /\ [Next]_vars => Inv'
  <2> SUFFICES ASSUME RunInv, TypeOK', Inv, [Next]_vars PROVE Inv' OBVIOUS
  <2>1. prog' = prog BY SMTT(30), NextGrows DEF RunInv
  <2>2. WellOrdered(prog)' <=> WellOrdered(prog)
    BY SMTT(30), <2>1 DEF WellOrdered, GateRow, Covered, MadeDurable, LoggedBy, Logs, Forces
  <2>3. WellClosed(prog)' <=> WellClosed(prog)
    BY <2>1 DEF WellClosed, ClosedRow, HeldFrom, FlushedIn, FlushedAtEnd, Logs
  <2>4. ExitsOnly(prog)' <=> ExitsOnly(prog) BY <2>1 DEF ExitsOnly
  <2> QED BY <2>2, <2>3, <2>4, GateInvStep, ExitInvStep
<1>3. Inv => GateImpliesState BY DEF GateInv, ExitInv
<1>4. RunInv => TypeOK BY DEF RunInv
<1> HIDE DEF Inv
<1> QED BY <1>1, <1>2, <1>3, <1>4, RunHolds, PTL DEF Spec

\* Whatever the result was when the process ended, it is left unchanged, and a
\* success leaves the rows the program's shape promises.
LEMMA SuccessStops ==
    ASSUME RunInv, Stop, result = "ok",
           Lasting(prog) \/ (ExitsOnly(prog) /\ LeavesAll(prog))
    PROVE  prog.gate \cup prog.needed \subseteq left'
<1> SUFFICES ASSUME NEW r \in prog.gate \cup prog.needed PROVE r \in left' OBVIOUS
<1>0. /\ DiskOK /\ prog \in Programs /\ Len(prog.script) \in Nat /\ Len(prog.deferred) \in Nat
      /\ pc = Len(prog.script) + 1 /\ r \in Rows
  BY ProgramLengths, DurabilityAssumption DEF RunInv, TypeOK, DiskOK, Control, Program
<1>1. CASE Lasting(prog)
  <2>1. MadeDurable(prog, pc - 1, r) BY <1>0, <1>1 DEF Lasting
  <2>2. r \in Durable BY <1>0, <2>1 DEF RunInv, ScriptInv
  <2> QED BY <1>0, <2>2, DurableIsKept DEF Stop, Boot, Kill, PowerLoss
<1>2. CASE ExitsOnly(prog) /\ LeavesAll(prog)
  <2>1. Boot BY <1>2 DEF Stop, ExitsOnly
  <2>2. LeftOnExit(prog, r) BY <1>2 DEF LeavesAll
  <2>3. PICK j \in 1 .. Len(prog.script) :
            /\ r \in prog.script[j].rows
            /\ \/ Logs(prog.script[j])
               \/ /\ prog.script[j].op = "volatile"
                  /\ \/ FlushedIn(prog.script, j, Len(prog.script), r)
                     \/ prog.always /\ FlushedIn(prog.deferred, 1, Len(prog.deferred), r)
    BY <2>2 DEF LeftOnExit
  <2>4. j \in 1 .. pc - 1 /\ pc - 1 = Len(prog.script) BY <1>0
  <2>5. prog.always => dpc = Len(prog.deferred) + 1 BY <2>1 DEF RunInv, Control, Boot
  <2>6. prog \notin CloseFails BY <1>2 DEF ExitsOnly
  <2>7. r \in Kept BY <1>0, <2>3, <2>4, <2>5, <2>6, WrittenIsKept
  <2> QED BY <2>1, <2>7 DEF Boot
<1> QED BY <1>1, <1>2

\* A run that reported success leaves the gate and the state behind: whatever
\* stops it if its last step leaves all of them durable, and on its own exit
\* if the deferred flushes, which do not fail, complete what the script wrote.
THEOREM SuccessLeavesState ==
    ASSUME \A p \in Programs : Lasting(p) \/ (ExitsOnly(p) /\ LeavesAll(p))
    PROVE  Spec => []SuccessIsLeft
<1>1. Init => SuccessIsLeft BY DEF Init, SuccessIsLeft
<1>2. RunInv /\ SuccessIsLeft /\ [Next]_vars => SuccessIsLeft'
  <2> SUFFICES ASSUME RunInv, SuccessIsLeft, [Next]_vars PROVE SuccessIsLeft' OBVIOUS
  <2>1. CASE Stop
    <3>1. prog \in Programs /\ prog' = prog /\ result' = result BY SMTT(30), <2>1 DEF Stop, RunInv, TypeOK
    <3> QED BY <2>1, <3>1, SuccessStops DEF SuccessIsLeft
  <2>2. CASE ~Stop
    BY <2>2 DEF Next, Do, Fail, Return, Deferred, Exit, BackgroundFlush, WriteBack, vars,
                SuccessIsLeft, RunInv, TypeOK
  <2> QED BY <2>1, <2>2
<1> QED BY <1>1, <1>2, RunHolds, PTL DEF Spec
=============================================================================
