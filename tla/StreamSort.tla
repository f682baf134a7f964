----------------------------- MODULE StreamSort -----------------------------
(***************************************************************************)
(* internal/streamsort: a sorted spill store over a temporary Pebble LSM   *)
(* with the life cycle WRITING -> FINALIZED -> CLOSED.  One writer         *)
(* goroutine Puts, any reader may finalize the store, any goroutine may    *)
(* Close it.  A goroutine runs one call at a time; each of its steps is    *)
(* one atomic load, one lock acquisition or one call into Pebble.          *)
(*                                                                         *)
(* The key order of Pebble's iterators is Pebble's own contract, so a read *)
(* returns the whole key-value map: Get delivers one entry of it, Iterate, *)
(* a Cursor and a Getter any number of them before they release the        *)
(* reader reference.                                                       *)
(***************************************************************************)
EXTENDS Naturals

CONSTANTS Writer, Readers, Closers,   \* goroutines
          Keys, Values, NoValue,
          BatchFlushLen,              \* batchFlushBytes, in entries
          MaxPuts,                    \* bound on the calls of Put
          Faults,                     \* can Pebble's Commit and reads fail?
          CloseAnyTime                \* Close called while calls are in flight?

Procs == {Writer} \cup Readers \cup Closers
None == "none"
Map == [Keys -> Values \cup {NoValue}]
EmptyMap == [k \in Keys |-> NoValue]

ASSUME StreamSortAssumption ==
    /\ Writer \notin Readers \cup Closers
    /\ Readers \cap Closers = {}
    /\ None \notin Procs
    /\ NoValue \notin Values
    /\ BatchFlushLen \in Nat \ {0}
    /\ MaxPuts \in Nat
    /\ Faults \in BOOLEAN
    /\ CloseAnyTime \in BOOLEAN

VARIABLES
    batch, batchLen,      \* s.batch: the pending entries and how many were Set
    db, dbOpen,           \* s.db: the Pebble memtable + LSM
    putMu,                \* holder of s.putMu
    once, finalizeErr,    \* s.finalizeOnce, s.finalizeErr
    finalized, closed,    \* the two atomic gates
    readers,              \* s.readers: the goroutines counted by the WaitGroup
    pc, result,           \* per goroutine: next step; last value read
    misused,              \* a Pebble method was called on the closed DB
    put, nputs            \* ghost: what Put was given, and how often

mem == <<batch, batchLen, db, put>>
gates == <<once, finalizeErr, finalized>>
vars == <<batch, batchLen, db, dbOpen, putMu, once, finalizeErr, finalized,
          closed, readers, pc, result, misused, put, nputs>>

Overlay(lower, upper) ==
    [k \in Keys |-> IF upper[k] = NoValue THEN lower[k] ELSE upper[k]]

Init ==
    /\ batch = EmptyMap /\ batchLen = 0
    /\ db = EmptyMap /\ dbOpen = TRUE
    /\ putMu = None
    /\ once = "new" /\ finalizeErr = FALSE
    /\ finalized = FALSE /\ closed = FALSE
    /\ readers = {}
    /\ pc = [p \in Procs |-> "idle"]
    /\ result = [r \in Readers |-> NoValue]
    /\ misused = FALSE
    /\ put = EmptyMap /\ nputs = 0

Goto(p, from, to) == pc[p] = from /\ pc' = [pc EXCEPT ![p] = to]

\* Pebble panics when a method is called on a closed DB (db.go:1557).
Misuse == ~dbOpen /\ misused' = TRUE

\* batch.Commit: Pebble applies the batch; with Faults it may refuse.
CommitOK == dbOpen /\ db' = Overlay(db, batch) /\ UNCHANGED misused
ResetBatch == batch' = EmptyMap /\ batchLen' = 0
CommitRefused == Faults /\ dbOpen /\ UNCHANGED <<db, misused>>
CommitOnClosed == Misuse /\ UNCHANGED db

\* The guards the synchronisation rests on, most with a form they must not have.
MuFree == putMu = None
NotRechecked == FALSE
PutRefused == finalized
NotDrained == TRUE
Drained == readers = {}
KeepReader(r) == UNCHANGED readers
ReleaseReader(r) == readers' = readers \ {r}
GateFirst == finalized' = TRUE
GateAfterFlush == UNCHANGED finalized

-----------------------------------------------------------------------------
(* Put: the gate is read before the lock, finalized again under it.        *)

PutCheck ==
    /\ nputs < MaxPuts
    /\ ~closed
    /\ Goto(Writer, "idle", "putLock")
    /\ UNCHANGED <<mem, gates, dbOpen, putMu, closed, readers, result,
                   misused, nputs>>

PutSet(k, v) ==
    /\ MuFree
    /\ nputs' = nputs + 1
    /\ IF PutRefused
       THEN Goto(Writer, "putLock", "idle") /\ UNCHANGED <<mem, putMu>>
       ELSE /\ batch' = [batch EXCEPT ![k] = v]
            /\ batchLen' = batchLen + 1
            /\ put' = [put EXCEPT ![k] = v]
            /\ IF batchLen + 1 >= BatchFlushLen
               THEN Goto(Writer, "putLock", "putCommit") /\ putMu' = Writer
               ELSE Goto(Writer, "putLock", "idle") /\ UNCHANGED putMu
            /\ UNCHANGED db
    /\ UNCHANGED <<gates, dbOpen, closed, readers, result, misused>>

PutCommit ==
    /\ Goto(Writer, "putCommit", "idle")
    /\ \/ CommitOK /\ ResetBatch
       \/ (CommitRefused \/ CommitOnClosed) /\ UNCHANGED <<batch, batchLen>>
    /\ putMu' = None
    /\ UNCHANGED <<gates, dbOpen, closed, readers, result, put, nputs>>

-----------------------------------------------------------------------------
(* Finalize, called by the writer and, on a first read, by a reader.  An   *)
(* error sends the caller back to "idle", success on to Resume(p).         *)

Resume(p) == IF p \in Readers THEN "readAdd" ELSE "idle"

WriterFinalize ==
    /\ Goto(Writer, "idle", "finCheck")
    /\ UNCHANGED <<mem, gates, dbOpen, putMu, closed, readers, result,
                   misused, nputs>>

FinalizeCheck(p) ==
    /\ Goto(p, "finCheck", IF closed THEN "idle" ELSE "finOnce")
    /\ UNCHANGED <<mem, gates, dbOpen, putMu, closed, readers, result,
                   misused, nputs>>

\* sync.Once.Do: the first caller runs the body, the others wait for it.
FinalizeOnce(p) ==
    /\ \/ once = "new" /\ once' = "running" /\ Goto(p, "finOnce", "finLock")
       \/ /\ once = "done" /\ UNCHANGED once
          /\ Goto(p, "finOnce", IF finalizeErr THEN "idle" ELSE Resume(p))
    /\ UNCHANGED <<mem, finalizeErr, finalized, dbOpen, putMu, closed,
                   readers, result, misused, nputs>>

FinalizeLock(p) ==
    /\ MuFree /\ putMu' = p
    /\ Goto(p, "finLock", "finCommit")
    /\ GateAfterFlush
    /\ UNCHANGED <<mem, once, finalizeErr, dbOpen, closed, readers, result, misused, nputs>>

FinalizeCommit(p) ==
    /\ \/ /\ CommitOK /\ ResetBatch
          /\ finalized' = TRUE /\ UNCHANGED finalizeErr
          /\ Goto(p, "finCommit", Resume(p))
       \/ /\ CommitRefused \/ CommitOnClosed
          /\ finalizeErr' = TRUE /\ UNCHANGED <<batch, batchLen, finalized>>
          /\ Goto(p, "finCommit", "idle")
    /\ putMu' = None /\ once' = "done"
    /\ UNCHANGED <<dbOpen, closed, readers, result, put, nputs>>

-----------------------------------------------------------------------------
(* Get, Iterate, NewCursor, NewGetter: closed gate, finalize on first      *)
(* read, count the reader, read, release.                                  *)

ReadCheck(r) ==
    /\ ~closed
    /\ Goto(r, "idle", "readGate")
    /\ result' = [result EXCEPT ![r] = NoValue]
    /\ UNCHANGED <<mem, gates, dbOpen, putMu, closed, readers, misused, nputs>>

ReadGate(r) ==
    /\ Goto(r, "readGate", IF finalized THEN "readAdd" ELSE "finCheck")
    /\ UNCHANGED <<mem, gates, dbOpen, putMu, closed, readers, result,
                   misused, nputs>>

ReadAdd(r) ==
    /\ Goto(r, "readAdd", "reading")
    /\ readers' = readers \cup {r}
    /\ UNCHANGED <<mem, gates, dbOpen, putMu, closed, result, misused, nputs>>

ReadDb(r) ==
    /\ Goto(r, "reading", "readDone")
    /\ \/ dbOpen /\ result' = [result EXCEPT ![r] = db] /\ UNCHANGED misused
       \/ Faults /\ dbOpen /\ UNCHANGED <<result, misused>>
       \/ Misuse /\ UNCHANGED result
    /\ UNCHANGED <<mem, gates, dbOpen, putMu, closed, readers, nputs>>

ReadDone(r) ==
    /\ Goto(r, "readDone", "idle")
    /\ ReleaseReader(r)
    /\ UNCHANGED <<mem, gates, dbOpen, putMu, closed, result, misused, nputs>>

-----------------------------------------------------------------------------
(* Close: swap the gate, flush a never-finalized batch, drain the readers, *)
(* close Pebble and remove the directory.                                  *)

\* The calls that have passed the closed gate and do not hold a reader
\* reference: what an owner must have joined before Close.
InFlight == {"putLock", "putCommit", "finOnce", "finLock", "finCommit",
             "readGate", "readAdd"}

CloseSwap(c) ==
    /\ ~closed
    /\ CloseAnyTime \/ \A p \in Procs : pc[p] \notin InFlight
    /\ closed' = TRUE
    /\ Goto(c, "idle", "closeLock")
    /\ UNCHANGED <<mem, gates, dbOpen, putMu, readers, result, misused, nputs>>

CloseLock(c) ==
    /\ MuFree
    /\ IF finalized
       THEN Goto(c, "closeLock", "closeWait") /\ UNCHANGED putMu
       ELSE Goto(c, "closeLock", "closeCommit") /\ putMu' = c
    /\ UNCHANGED <<mem, gates, dbOpen, closed, readers, result, misused, nputs>>

CloseCommit(c) ==
    /\ Goto(c, "closeCommit", "closeWait")
    /\ CommitOK \/ CommitRefused
    /\ ResetBatch
    /\ putMu' = None
    /\ UNCHANGED <<gates, dbOpen, closed, readers, result, put, nputs>>

CloseWait(c) ==
    /\ Drained
    /\ Goto(c, "closeWait", "closeDb")
    /\ UNCHANGED <<mem, gates, dbOpen, putMu, closed, readers, result,
                   misused, nputs>>

CloseDb(c) ==
    /\ Goto(c, "closeDb", "idle")
    /\ dbOpen' = FALSE
    /\ UNCHANGED <<mem, gates, putMu, closed, readers, result, misused, nputs>>

-----------------------------------------------------------------------------
WriterStep ==
    \/ PutCheck \/ PutCommit \/ WriterFinalize
    \/ \E k \in Keys, v \in Values : PutSet(k, v)

FinalizeStep(p) ==
    FinalizeCheck(p) \/ FinalizeOnce(p) \/ FinalizeLock(p) \/ FinalizeCommit(p)

ReaderStep(r) ==
    ReadCheck(r) \/ ReadGate(r) \/ ReadAdd(r) \/ ReadDb(r) \/ ReadDone(r)

CloserStep(c) ==
    \/ CloseSwap(c) \/ CloseLock(c) \/ CloseCommit(c)
    \/ CloseWait(c) \/ CloseDb(c)

Next ==
    \/ WriterStep
    \/ \E p \in {Writer} \cup Readers : FinalizeStep(p)
    \/ \E r \in Readers : ReaderStep(r)
    \/ \E c \in Closers : CloserStep(c)

\* A call once begun is scheduled until it returns; nobody has to call.
Fairness ==
    /\ WF_vars(pc[Writer] # "idle" /\ (WriterStep \/ FinalizeStep(Writer)))
    /\ \A r \in Readers :
          WF_vars(pc[r] # "idle" /\ (ReaderStep(r) \/ FinalizeStep(r)))
    /\ \A c \in Closers : WF_vars(pc[c] # "idle" /\ CloserStep(c))

Spec == Init /\ [][Next]_vars /\ Fairness

-----------------------------------------------------------------------------
Steps == {"idle", "putLock", "putCommit", "finCheck", "finOnce", "finLock",
          "finCommit", "readGate", "readAdd", "reading", "readDone",
          "closeLock", "closeCommit", "closeWait", "closeDb"}

\* The state of the Store and of the goroutines is well formed.
TypeOK ==
    /\ batch \in Map /\ db \in Map /\ put \in Map
    /\ batchLen \in Nat /\ nputs \in Nat
    /\ putMu \in Procs \cup {None}
    /\ once \in {"new", "running", "done"}
    /\ finalizeErr \in BOOLEAN /\ finalized \in BOOLEAN
    /\ closed \in BOOLEAN /\ dbOpen \in BOOLEAN /\ misused \in BOOLEAN
    /\ readers \in SUBSET Readers
    /\ pc \in [Procs -> Steps]
    /\ result \in [Readers -> Map \cup {NoValue}]

\* Close drains every reader before db.Close, and no Put, Finalize or read
\* reaches Pebble afterwards: no Pebble method runs on the closed DB.
NoUseAfterClose == ~misused

\* The drain alone, as the package comment states it: Pebble is never closed
\* under a goroutine that is inside Get, Iterate, a Cursor or a Getter.
CloseDrainsReaders == \A r \in Readers : pc[r] = "reading" => dbOpen

\* Put, Finalize and Close never commit the shared batch at the same time:
\* Pebble panics with "batch already committing".
Committing == {p \in Procs : pc[p] \in {"putCommit", "finCommit", "closeCommit"}}
OneCommitter == \A p, q \in Committing : p = q

\* Whatever a read returned is exactly what was Put, no entry missing or
\* stale, whoever finalized the store and however Puts were batched.
ReadsSeeEveryPut == \A r \in Readers : result[r] # NoValue => result[r] = put

\* A finalized store is frozen: neither a late Put nor Close's own flush
\* changes what concurrent readers iterate over.
FrozenOnceFinalized == [][finalized => UNCHANGED <<db, put>>]_vars

\* Every call returns: no Finalize, Put, read or Close waits forever on the
\* lock, on the Once or on the reader count.
CallsReturn == \A p \in Procs : pc[p] # "idle" ~> pc[p] = "idle"

\* The store implements the sequential spill store its callers reason with.
Abstract == INSTANCE SpillStore WITH contents <- put, sealed <- finalized,
                                     shut <- closed, answer <- result
ImplementsSpillStore == Abstract!Spec
=============================================================================
