-------------------------- MODULE StreamSortProofs --------------------------
(***************************************************************************)
(* Proofs about the spill store for any set of goroutines, keys, values    *)
(* and batch size.  The invariant Safe is inductive; the parts of it that  *)
(* speak of a closed store need the owner's discipline (~CloseAnyTime).    *)
(***************************************************************************)
EXTENDS StreamSort, TLAPS

CommitSteps == {"putCommit", "finCommit", "closeCommit"}
ReadSteps == {"readGate", "readAdd", "reading", "readDone"}
FinSteps == {"finCheck", "finOnce", "finLock", "finCommit"}
CloseSteps == {"closeLock", "closeCommit", "closeWait", "closeDb"}

\* Each goroutine only runs the calls of its role.
Roles ==
    /\ pc[Writer] \in {"idle", "putLock", "putCommit"} \cup FinSteps
    /\ \A r \in Readers : pc[r] \in {"idle"} \cup FinSteps \cup ReadSteps
    /\ \A c \in Closers : pc[c] \in {"idle"} \cup CloseSteps

\* The batch is only ever committed by the holder of putMu.
LockInv == \A p \in Procs : pc[p] \in CommitSteps <=> putMu = p

\* What was Put is in the database or in the batch, and after Finalize all
\* of it is in the database; a goroutine past the gate sees that.
DataInv ==
    /\ ~closed => Overlay(db, batch) = put
    /\ finalized => db = put /\ batch = EmptyMap
    /\ (once = "done" /\ ~finalizeErr) => finalized
    /\ \A r \in Readers :
          /\ pc[r] \in {"readAdd", "reading", "readDone"} => finalized
          /\ result[r] # NoValue => finalized /\ result[r] = put

\* Close: its gate keeps every call out, its drain waits for the readers,
\* and only one goroutine gets past the gate.
CloseInv ==
    /\ \A r \in Readers : r \in readers <=> pc[r] \in {"reading", "readDone"}
    /\ closed => \A p \in Procs : pc[p] \notin InFlight
    /\ \A c \in Closers : pc[c] \in CloseSteps => closed /\ dbOpen
    /\ \A c, d \in Closers : pc[c] \in CloseSteps /\ pc[d] \in CloseSteps => c = d
    /\ \A c \in Closers : pc[c] = "closeDb" => readers = {}
    /\ ~dbOpen => closed /\ readers = {}
    /\ ~misused

Safe == TypeOK /\ Roles /\ LockInv /\ DataInv /\ CloseInv

\* Reading a committed batch through to the database yields a map again,
\* and an empty batch adds nothing to it.
LEMMA OverlayType ==
    ASSUME NEW lower \in Map, NEW upper \in Map
    PROVE  Overlay(lower, upper) \in Map /\ Overlay(lower, EmptyMap) = lower
BY DEF Overlay, Map, EmptyMap

LEMMA EmptyMapType == EmptyMap \in Map
BY DEF Map, EmptyMap

\* A Put changes one entry of a map.
LEMMA SetType ==
    ASSUME NEW m \in Map, NEW k \in Keys, NEW v \in Values
    PROVE  [m EXCEPT ![k] = v] \in Map
BY DEF Map

\* Setting an entry in the batch sets it in what the store holds.
LEMMA OverlaySet ==
    ASSUME NEW lower \in Map, NEW upper \in Map, NEW k \in Keys, NEW v \in Values
    PROVE  Overlay(lower, [upper EXCEPT ![k] = v])
               = [Overlay(lower, upper) EXCEPT ![k] = v]
BY Zenon, StreamSortAssumption DEF Overlay, Map

\* Every step keeps the state well formed.
LEMMA TypeStep ==
    ASSUME TypeOK, [Next]_vars
    PROVE  TypeOK'
<1> DEFINE Goal == TypeOK'
<1> USE StreamSortAssumption, OverlayType, EmptyMapType, SetType
    DEF Procs, None, Goto, TypeOK, Steps, mem, gates
<1>1. CASE PutCheck
  BY <1>1 DEF PutCheck
<1>2. CASE PutCommit
  <2> USE <1>2 DEF PutCommit, CommitOK, CommitRefused, CommitOnClosed,
      Misuse, ResetBatch
  <2>1. pc' \in [Procs -> Steps]
    OBVIOUS
  <2>2. batch' \in Map /\ batchLen' \in Nat
    OBVIOUS
  <2>3. db' \in Map
    OBVIOUS
  <2>4. misused' \in BOOLEAN
    BY Zenon
  <2> QED
    BY <2>1, <2>2, <2>3, <2>4
<1>3. ASSUME NEW k \in Keys, NEW v \in Values, PutSet(k, v) PROVE Goal
  BY <1>3 DEF PutSet, PutRefused, MuFree
<1>4. CASE WriterFinalize
  BY <1>4 DEF WriterFinalize
<1>5. ASSUME NEW p \in {Writer} \cup Readers, FinalizeCheck(p) PROVE Goal
  BY <1>5 DEF FinalizeCheck
<1>6. ASSUME NEW p \in {Writer} \cup Readers, FinalizeOnce(p) PROVE Goal
  BY <1>6 DEF FinalizeOnce, Resume
<1>7. ASSUME NEW p \in {Writer} \cup Readers, FinalizeLock(p) PROVE Goal
  BY <1>7 DEF FinalizeLock, MuFree, GateAfterFlush
<1>8. ASSUME NEW p \in {Writer} \cup Readers, FinalizeCommit(p) PROVE Goal
  <2> USE <1>8 DEF FinalizeCommit, CommitOK, CommitRefused, CommitOnClosed,
      Misuse, ResetBatch, Resume
  <2>1. pc' \in [Procs -> Steps]
    OBVIOUS
  <2>2. batch' \in Map /\ batchLen' \in Nat
    OBVIOUS
  <2>3. db' \in Map
    OBVIOUS
  <2>4. misused' \in BOOLEAN
    BY Zenon
  <2>5. finalized' \in BOOLEAN /\ finalizeErr' \in BOOLEAN
    BY Zenon
  <2> QED
    BY <2>1, <2>2, <2>3, <2>4, <2>5
<1>9. ASSUME NEW r \in Readers, ReadCheck(r) PROVE Goal
  BY <1>9 DEF ReadCheck
<1>10. ASSUME NEW r \in Readers, ReadGate(r) PROVE Goal
  BY <1>10 DEF ReadGate
<1>11. ASSUME NEW r \in Readers, ReadAdd(r) PROVE Goal
  BY <1>11 DEF ReadAdd
<1>12. ASSUME NEW r \in Readers, ReadDb(r) PROVE Goal
  <2> USE <1>12 DEF ReadDb, Misuse
  <2>1. pc' \in [Procs -> Steps]
    OBVIOUS
  <2>2. result' \in [Readers -> Map \cup {NoValue}]
    OBVIOUS
  <2>3. misused' \in BOOLEAN
    BY Zenon
  <2> QED
    BY <2>1, <2>2, <2>3
<1>13. ASSUME NEW r \in Readers, ReadDone(r) PROVE Goal
  BY <1>13 DEF ReadDone, ReleaseReader
<1>14. ASSUME NEW c \in Closers, CloseSwap(c) PROVE Goal
  BY <1>14 DEF CloseSwap
<1>15. ASSUME NEW c \in Closers, CloseLock(c) PROVE Goal
  BY <1>15 DEF CloseLock, MuFree
<1>16. ASSUME NEW c \in Closers, CloseCommit(c) PROVE Goal
  BY <1>16 DEF CloseCommit, CommitOK, CommitRefused, ResetBatch
<1>17. ASSUME NEW c \in Closers, CloseWait(c) PROVE Goal
  BY <1>17 DEF CloseWait, Drained
<1>18. ASSUME NEW c \in Closers, CloseDb(c) PROVE Goal
  BY Zenon, <1>18 DEF CloseDb
<1>19. CASE UNCHANGED vars
  BY <1>19 DEF vars
<1> QED
  BY <1>1, <1>2, <1>3, <1>4, <1>5, <1>6, <1>7, <1>8, <1>9, <1>10, <1>11,
      <1>12, <1>13, <1>14, <1>15, <1>16, <1>17, <1>18, <1>19
  DEF Next, WriterStep, FinalizeStep, ReaderStep, CloserStep

\* Every step is a step of its goroutine's role.
LEMMA RolesStep ==
    ASSUME TypeOK, Roles, [Next]_vars
    PROVE  Roles'
<1> DEFINE Goal == Roles'
<1> USE StreamSortAssumption
    DEF Procs, None, Goto, TypeOK, mem, gates, Roles, FinSteps,
        ReadSteps, CloseSteps
<1>1. CASE PutCheck
  BY <1>1 DEF PutCheck
<1>2. CASE PutCommit
  BY <1>2 DEF PutCommit, CommitOK, CommitRefused, CommitOnClosed,
      Misuse, ResetBatch
<1>3. ASSUME NEW k \in Keys, NEW v \in Values, PutSet(k, v) PROVE Goal
  BY <1>3 DEF PutSet, PutRefused, MuFree
<1>4. CASE WriterFinalize
  BY <1>4 DEF WriterFinalize
<1>5. ASSUME NEW p \in {Writer} \cup Readers, FinalizeCheck(p) PROVE Goal
  BY <1>5 DEF FinalizeCheck
<1>6. ASSUME NEW p \in {Writer} \cup Readers, FinalizeOnce(p) PROVE Goal
  BY <1>6 DEF FinalizeOnce, Resume
<1>7. ASSUME NEW p \in {Writer} \cup Readers, FinalizeLock(p) PROVE Goal
  BY <1>7 DEF FinalizeLock, MuFree, GateAfterFlush
<1>8. ASSUME NEW p \in {Writer} \cup Readers, FinalizeCommit(p) PROVE Goal
  BY <1>8 DEF FinalizeCommit, CommitOK, CommitRefused, CommitOnClosed,
      Misuse, ResetBatch, Resume
<1>9. ASSUME NEW r \in Readers, ReadCheck(r) PROVE Goal
  BY <1>9 DEF ReadCheck
<1>10. ASSUME NEW r \in Readers, ReadGate(r) PROVE Goal
  BY <1>10 DEF ReadGate
<1>11. ASSUME NEW r \in Readers, ReadAdd(r) PROVE Goal
  BY <1>11 DEF ReadAdd
<1>12. ASSUME NEW r \in Readers, ReadDb(r) PROVE Goal
  BY <1>12 DEF ReadDb, Misuse
<1>13. ASSUME NEW r \in Readers, ReadDone(r) PROVE Goal
  BY <1>13 DEF ReadDone, ReleaseReader
<1>14. ASSUME NEW c \in Closers, CloseSwap(c) PROVE Goal
  BY <1>14 DEF CloseSwap
<1>15. ASSUME NEW c \in Closers, CloseLock(c) PROVE Goal
  BY Zenon, <1>15 DEF CloseLock, MuFree
<1>16. ASSUME NEW c \in Closers, CloseCommit(c) PROVE Goal
  BY <1>16 DEF CloseCommit, CommitOK, CommitRefused, ResetBatch
<1>17. ASSUME NEW c \in Closers, CloseWait(c) PROVE Goal
  BY <1>17 DEF CloseWait, Drained
<1>18. ASSUME NEW c \in Closers, CloseDb(c) PROVE Goal
  BY <1>18 DEF CloseDb
<1>19. CASE UNCHANGED vars
  BY <1>19 DEF vars
<1> QED
  BY <1>1, <1>2, <1>3, <1>4, <1>5, <1>6, <1>7, <1>8, <1>9, <1>10, <1>11,
      <1>12, <1>13, <1>14, <1>15, <1>16, <1>17, <1>18, <1>19
  DEF Next, WriterStep, FinalizeStep, ReaderStep, CloserStep

\* A commit happens under putMu only: Put, Finalize and Close take it first.
LEMMA LockStep ==
    ASSUME TypeOK, Roles, LockInv, [Next]_vars
    PROVE  LockInv'
<1> DEFINE Goal == LockInv'
<1> USE StreamSortAssumption
    DEF Procs, None, Goto, TypeOK, mem, gates, Roles, FinSteps,
        ReadSteps, CloseSteps, LockInv, CommitSteps
<1>1. CASE PutCheck
  BY <1>1 DEF PutCheck
<1>2. CASE PutCommit
  BY <1>2 DEF PutCommit, CommitOK, CommitRefused, CommitOnClosed,
      Misuse, ResetBatch
<1>3. ASSUME NEW k \in Keys, NEW v \in Values, PutSet(k, v) PROVE Goal
  BY <1>3 DEF PutSet, PutRefused, MuFree
<1>4. CASE WriterFinalize
  BY <1>4 DEF WriterFinalize
<1>5. ASSUME NEW p \in {Writer} \cup Readers, FinalizeCheck(p) PROVE Goal
  BY <1>5 DEF FinalizeCheck
<1>6. ASSUME NEW p \in {Writer} \cup Readers, FinalizeOnce(p) PROVE Goal
  BY <1>6 DEF FinalizeOnce, Resume
<1>7. ASSUME NEW p \in {Writer} \cup Readers, FinalizeLock(p) PROVE Goal
  BY <1>7 DEF FinalizeLock, MuFree, GateAfterFlush
<1>8. ASSUME NEW p \in {Writer} \cup Readers, FinalizeCommit(p) PROVE Goal
  BY <1>8 DEF FinalizeCommit, CommitOK, CommitRefused, CommitOnClosed,
      Misuse, ResetBatch, Resume
<1>9. ASSUME NEW r \in Readers, ReadCheck(r) PROVE Goal
  BY <1>9 DEF ReadCheck
<1>10. ASSUME NEW r \in Readers, ReadGate(r) PROVE Goal
  BY <1>10 DEF ReadGate
<1>11. ASSUME NEW r \in Readers, ReadAdd(r) PROVE Goal
  BY <1>11 DEF ReadAdd
<1>12. ASSUME NEW r \in Readers, ReadDb(r) PROVE Goal
  BY <1>12 DEF ReadDb, Misuse
<1>13. ASSUME NEW r \in Readers, ReadDone(r) PROVE Goal
  BY <1>13 DEF ReadDone, ReleaseReader
<1>14. ASSUME NEW c \in Closers, CloseSwap(c) PROVE Goal
  BY <1>14 DEF CloseSwap
<1>15. ASSUME NEW c \in Closers, CloseLock(c) PROVE Goal
  BY <1>15 DEF CloseLock, MuFree
<1>16. ASSUME NEW c \in Closers, CloseCommit(c) PROVE Goal
  BY <1>16 DEF CloseCommit, CommitOK, CommitRefused, ResetBatch
<1>17. ASSUME NEW c \in Closers, CloseWait(c) PROVE Goal
  BY <1>17 DEF CloseWait, Drained
<1>18. ASSUME NEW c \in Closers, CloseDb(c) PROVE Goal
  BY <1>18 DEF CloseDb
<1>19. CASE UNCHANGED vars
  BY SMTT(30), <1>19 DEF vars
<1> QED
  BY <1>1, <1>2, <1>3, <1>4, <1>5, <1>6, <1>7, <1>8, <1>9, <1>10, <1>11,
      <1>12, <1>13, <1>14, <1>15, <1>16, <1>17, <1>18, <1>19
  DEF Next, WriterStep, FinalizeStep, ReaderStep, CloserStep
\* Under the owner's discipline, no step reaches a closed database.
LEMMA CloseStep ==
    ASSUME ~CloseAnyTime, TypeOK, Roles, LockInv, DataInv, CloseInv, [Next]_vars
    PROVE  CloseInv'
<1> DEFINE Goal == CloseInv'
<1> USE StreamSortAssumption
    DEF Procs, None, Goto, TypeOK, mem, gates, Roles, FinSteps,
        ReadSteps, CloseSteps, CloseInv, InFlight
<1>1. CASE PutCheck
  BY <1>1 DEF PutCheck
<1>2. CASE PutCommit
  BY <1>2 DEF PutCommit, CommitOK, CommitRefused, CommitOnClosed,
      Misuse, ResetBatch
<1>3. ASSUME NEW k \in Keys, NEW v \in Values, PutSet(k, v) PROVE Goal
  BY <1>3 DEF PutSet, PutRefused, MuFree
<1>4. CASE WriterFinalize
  BY <1>4 DEF WriterFinalize
<1>5. ASSUME NEW p \in {Writer} \cup Readers, FinalizeCheck(p) PROVE Goal
  BY <1>5 DEF FinalizeCheck
<1>6. ASSUME NEW p \in {Writer} \cup Readers, FinalizeOnce(p) PROVE Goal
  BY <1>6 DEF FinalizeOnce, Resume
<1>7. ASSUME NEW p \in {Writer} \cup Readers, FinalizeLock(p) PROVE Goal
  BY <1>7 DEF FinalizeLock, MuFree, GateAfterFlush
<1>8. ASSUME NEW p \in {Writer} \cup Readers, FinalizeCommit(p) PROVE Goal
  BY <1>8 DEF FinalizeCommit, CommitOK, CommitRefused, CommitOnClosed,
      Misuse, ResetBatch, Resume
<1>9. ASSUME NEW r \in Readers, ReadCheck(r) PROVE Goal
  BY <1>9 DEF ReadCheck
<1>10. ASSUME NEW r \in Readers, ReadGate(r) PROVE Goal
  BY <1>10 DEF ReadGate
<1>11. ASSUME NEW r \in Readers, ReadAdd(r) PROVE Goal
  BY <1>11 DEF ReadAdd
<1>12. ASSUME NEW r \in Readers, ReadDb(r) PROVE Goal
  BY <1>12 DEF ReadDb, Misuse
<1>13. ASSUME NEW r \in Readers, ReadDone(r) PROVE Goal
  BY <1>13 DEF ReadDone, ReleaseReader
<1>14. ASSUME NEW c \in Closers, CloseSwap(c) PROVE Goal
  BY <1>14 DEF CloseSwap
<1>15. ASSUME NEW c \in Closers, CloseLock(c) PROVE Goal
  <2>1. /\ pc[c] = "closeLock"
        /\ \E s \in {"closeWait", "closeCommit"} : pc' = [pc EXCEPT ![c] = s]
    BY <1>15 DEF CloseLock
  <2>2. UNCHANGED <<mem, gates, dbOpen, closed, readers, result, misused, nputs>>
    BY <1>15 DEF CloseLock
  <2> QED
    BY <2>1, <2>2
<1>16. ASSUME NEW c \in Closers, CloseCommit(c) PROVE Goal
  BY <1>16 DEF CloseCommit, CommitOK, CommitRefused, ResetBatch
<1>17. ASSUME NEW c \in Closers, CloseWait(c) PROVE Goal
  BY <1>17 DEF CloseWait, Drained
<1>18. ASSUME NEW c \in Closers, CloseDb(c) PROVE Goal
  BY <1>18 DEF CloseDb
<1>19. CASE UNCHANGED vars
  BY SMTT(30), <1>19 DEF vars
<1> QED
  BY Zenon, <1>1, <1>2, <1>3, <1>4, <1>5, <1>6, <1>7, <1>8, <1>9, <1>10, <1>11,
      <1>12, <1>13, <1>14, <1>15, <1>16, <1>17, <1>18, <1>19
  DEF Next, WriterStep, FinalizeStep, ReaderStep, CloserStep

\* Under the owner's discipline, no step loses or adds an entry.
LEMMA DataStep ==
    ASSUME ~CloseAnyTime, TypeOK, Roles, LockInv, DataInv, CloseInv, [Next]_vars
    PROVE  DataInv'
<1> DEFINE Goal == DataInv'
<1> USE StreamSortAssumption, OverlayType, EmptyMapType
    DEF Procs, None, Goto, TypeOK, mem, gates, Roles, FinSteps,
        ReadSteps, CloseSteps, LockInv, CommitSteps, DataInv, CloseInv, InFlight
<1>1. CASE PutCheck
  BY <1>1 DEF PutCheck
<1>2. CASE PutCommit
  BY <1>2 DEF PutCommit, CommitOK, CommitRefused, CommitOnClosed,
      Misuse, ResetBatch
<1>3. ASSUME NEW k \in Keys, NEW v \in Values, PutSet(k, v) PROVE Goal
  <2> USE <1>3 DEF PutSet, PutRefused, MuFree
  <2>1. CASE finalized
    BY <2>1
  <2>2. CASE ~finalized
    <3>1. Overlay(db, batch') = [Overlay(db, batch) EXCEPT ![k] = v]
      BY <2>2, OverlaySet
    <3>2. ~closed
      <4>1. pc[Writer] = "putLock"
        OBVIOUS
      <4> QED
        BY <4>1
    <3>3. \A r \in Readers : result[r] = NoValue
      BY <2>2
    <3>4. /\ put' = [put EXCEPT ![k] = v] /\ UNCHANGED <<db, gates, result, closed>>
          /\ \E s \in {"putCommit", "idle"} : pc' = [pc EXCEPT ![Writer] = s]
      BY <2>2
    <3>5. \A r \in Readers : pc'[r] = pc[r]
      BY <3>4
    <3> HIDE <1>3 DEF PutSet
    <3> QED
      BY <2>2, <3>1, <3>2, <3>3, <3>4, <3>5
  <2> QED
    BY <2>1, <2>2
<1>4. CASE WriterFinalize
  BY <1>4 DEF WriterFinalize
<1>5. ASSUME NEW p \in {Writer} \cup Readers, FinalizeCheck(p) PROVE Goal
  BY <1>5 DEF FinalizeCheck
<1>6. ASSUME NEW p \in {Writer} \cup Readers, FinalizeOnce(p) PROVE Goal
  BY <1>6 DEF FinalizeOnce, Resume
<1>7. ASSUME NEW p \in {Writer} \cup Readers, FinalizeLock(p) PROVE Goal
  BY <1>7 DEF FinalizeLock, MuFree, GateAfterFlush
<1>8. ASSUME NEW p \in {Writer} \cup Readers, FinalizeCommit(p) PROVE Goal
  BY <1>8 DEF FinalizeCommit, CommitOK, CommitRefused, CommitOnClosed,
      Misuse, ResetBatch, Resume
<1>9. ASSUME NEW r \in Readers, ReadCheck(r) PROVE Goal
  BY <1>9 DEF ReadCheck
<1>10. ASSUME NEW r \in Readers, ReadGate(r) PROVE Goal
  BY <1>10 DEF ReadGate
<1>11. ASSUME NEW r \in Readers, ReadAdd(r) PROVE Goal
  BY <1>11 DEF ReadAdd
<1>12. ASSUME NEW r \in Readers, ReadDb(r) PROVE Goal
  BY <1>12 DEF ReadDb, Misuse
<1>13. ASSUME NEW r \in Readers, ReadDone(r) PROVE Goal
  BY <1>13 DEF ReadDone, ReleaseReader
<1>14. ASSUME NEW c \in Closers, CloseSwap(c) PROVE Goal
  BY <1>14 DEF CloseSwap
<1>15. ASSUME NEW c \in Closers, CloseLock(c) PROVE Goal
  <2>1. /\ pc[c] = "closeLock"
        /\ \E s \in {"closeWait", "closeCommit"} : pc' = [pc EXCEPT ![c] = s]
    BY <1>15 DEF CloseLock
  <2>2. UNCHANGED <<mem, gates, dbOpen, closed, readers, result, misused, nputs>>
    BY <1>15 DEF CloseLock
  <2> QED
    BY <2>1, <2>2
<1>16. ASSUME NEW c \in Closers, CloseCommit(c) PROVE Goal
  BY <1>16 DEF CloseCommit, CommitOK, CommitRefused, ResetBatch
<1>17. ASSUME NEW c \in Closers, CloseWait(c) PROVE Goal
  BY <1>17 DEF CloseWait, Drained
<1>18. ASSUME NEW c \in Closers, CloseDb(c) PROVE Goal
  BY <1>18 DEF CloseDb
<1>19. CASE UNCHANGED vars
  BY <1>19 DEF vars
<1> QED
  BY Zenon, <1>1, <1>2, <1>3, <1>4, <1>5, <1>6, <1>7, <1>8, <1>9, <1>10, <1>11,
      <1>12, <1>13, <1>14, <1>15, <1>16, <1>17, <1>18, <1>19
  DEF Next, WriterStep, FinalizeStep, ReaderStep, CloserStep

\* The initial state satisfies the invariant.
LEMMA SafeInit == Init => Safe
<1> SUFFICES ASSUME Init PROVE Safe
  OBVIOUS
<1> USE StreamSortAssumption, OverlayType, EmptyMapType DEF Init, Procs, None
<1>1. TypeOK
  BY Zenon DEF TypeOK, Steps
<1>2. Roles
  BY DEF Roles
<1>3. LockInv
  BY DEF LockInv, CommitSteps
<1>4. DataInv
  BY DEF DataInv
<1>5. CloseInv
  BY DEF CloseInv, InFlight, CloseSteps
<1> QED
  BY <1>1, <1>2, <1>3, <1>4, <1>5 DEF Safe

\* Every step keeps it, when Close is only called once the calls that passed
\* its gate have returned.
LEMMA SafeStep == ~CloseAnyTime /\ Safe /\ [Next]_vars => Safe'
BY TypeStep, RolesStep, LockStep, DataStep, CloseStep DEF Safe

\* No step unseals the store, and none accepts a Put once it is sealed.
LEMMA FinalizedStays == ASSUME finalized, [Next]_vars PROVE finalized'
BY Zenon DEF Next, WriterStep, FinalizeStep, ReaderStep, CloserStep, PutCheck, PutSet,
    PutCommit, WriterFinalize, FinalizeCheck, FinalizeOnce, FinalizeLock,
    FinalizeCommit, ReadCheck, ReadGate, ReadAdd, ReadDb, ReadDone, CloseSwap,
    CloseLock, CloseCommit, CloseWait, CloseDb, GateAfterFlush, gates, vars

LEMMA PutFrozen == ASSUME finalized, [Next]_vars PROVE UNCHANGED put
BY Zenon DEF Next, WriterStep, FinalizeStep, ReaderStep, CloserStep, PutCheck, PutSet,
    PutCommit, WriterFinalize, FinalizeCheck, FinalizeOnce, FinalizeLock,
    FinalizeCommit, ReadCheck, ReadGate, ReadAdd, ReadDb, ReadDone, CloseSwap,
    CloseLock, CloseCommit, CloseWait, CloseDb, PutRefused, mem, vars

\* The Store's fields keep their types in every execution.
THEOREM TypeCorrect == Spec => []TypeOK
<1>1. Init => TypeOK
  BY SafeInit DEF Safe
<1> QED
  BY <1>1, TypeStep, PTL DEF Spec

\* Put, Finalize and Close never commit the shared batch concurrently, even
\* when Close is called while other calls are in flight.
THEOREM CommitExclusive == Spec => []OneCommitter
<1> DEFINE I == TypeOK /\ Roles /\ LockInv
<1>1. Init => I
  BY SafeInit DEF Safe
<1>2. I /\ [Next]_vars => I'
  BY TypeStep, RolesStep, LockStep
<1>3. I => OneCommitter
  BY DEF LockInv, OneCommitter, Committing, CommitSteps
<1> QED
  BY <1>1, <1>2, <1>3, PTL DEF Spec

\* No Pebble method runs after db.Close, if the owner joins its callers.
THEOREM CloseSafe == ASSUME ~CloseAnyTime PROVE Spec => []NoUseAfterClose
<1>1. Safe /\ [Next]_vars => Safe'
  BY SafeStep
<1>2. Safe => NoUseAfterClose
  BY DEF Safe, CloseInv, NoUseAfterClose
<1> QED
  BY <1>1, <1>2, SafeInit, PTL DEF Spec

\* Every value a read returned is exactly what was Put.
THEOREM ReadsComplete == ASSUME ~CloseAnyTime PROVE Spec => []ReadsSeeEveryPut
<1>1. Safe /\ [Next]_vars => Safe'
  BY SafeStep
<1>2. Safe => ReadsSeeEveryPut
  BY DEF Safe, DataInv, ReadsSeeEveryPut
<1> QED
  BY <1>1, <1>2, SafeInit, PTL DEF Spec

\* What a finalized store holds never changes again.
THEOREM Frozen == ASSUME ~CloseAnyTime PROVE Spec => FrozenOnceFinalized
<1>1. Safe /\ [Next]_vars => Safe'
  BY SafeStep
<1>2. Safe /\ Safe' /\ [Next]_vars => [finalized => UNCHANGED <<db, put>>]_vars
  <2> SUFFICES ASSUME Safe, Safe', [Next]_vars, finalized PROVE UNCHANGED <<db, put>>
    OBVIOUS
  <2>1. finalized' /\ db = put /\ db' = put'
    BY FinalizedStays DEF Safe, DataInv
  <2>2. UNCHANGED put
    BY PutFrozen
  <2> QED
    BY <2>1, <2>2
<1> QED
  BY <1>1, <1>2, SafeInit, PTL DEF Spec, FrozenOnceFinalized

\* Every step of the store is a step of the spill store, or invisible there.
LEMMA RefineStep ==
    ASSUME ~CloseAnyTime, Safe, [Next]_vars
    PROVE  [Abstract!SNext]_(Abstract!svars)
<1> DEFINE Goal == [Abstract!SNext]_(Abstract!svars)
<1> USE StreamSortAssumption
    DEF Procs, None, Goto, mem, gates, Abstract!svars, Abstract!SNext
<1>1. CASE PutCheck
  BY <1>1 DEF PutCheck
<1>2. CASE PutCommit
  BY <1>2 DEF PutCommit, CommitOK, CommitRefused, CommitOnClosed,
      Misuse, ResetBatch
<1>3. ASSUME NEW k \in Keys, NEW v \in Values, PutSet(k, v) PROVE Goal
  <2>1. CASE finalized
    BY <1>3, <2>1 DEF PutSet, PutRefused
  <2>2. CASE ~finalized
    <3>1. ~closed
      BY <1>3 DEF PutSet, Safe, CloseInv, InFlight
    <3>2. Abstract!SPut(k, v)
      BY <1>3, <2>2, <3>1 DEF PutSet, PutRefused, Abstract!SPut
    <3> QED
      BY <3>2
  <2> QED
    BY <2>1, <2>2
<1>4. CASE WriterFinalize
  BY <1>4 DEF WriterFinalize
<1>5. ASSUME NEW p \in {Writer} \cup Readers, FinalizeCheck(p) PROVE Goal
  BY <1>5 DEF FinalizeCheck
<1>6. ASSUME NEW p \in {Writer} \cup Readers, FinalizeOnce(p) PROVE Goal
  BY <1>6 DEF FinalizeOnce, Resume
<1>7. ASSUME NEW p \in {Writer} \cup Readers, FinalizeLock(p) PROVE Goal
  BY <1>7 DEF FinalizeLock, MuFree, GateAfterFlush
<1>8. ASSUME NEW p \in {Writer} \cup Readers, FinalizeCommit(p) PROVE Goal
  <2>1. CASE finalized' = finalized
    BY <1>8, <2>1 DEF FinalizeCommit
  <2>2. CASE finalized' # finalized
    <3>1. ~closed
      BY <1>8 DEF FinalizeCommit, Safe, CloseInv, InFlight
    <3>2. ~finalized /\ finalized' = TRUE
      BY Zenon, <1>8, <2>2 DEF FinalizeCommit, Safe, TypeOK
    <3>3. Abstract!Seal
      BY <1>8, <3>1, <3>2 DEF FinalizeCommit, Abstract!Seal
    <3> QED
      BY <3>3
  <2> QED
    BY <2>1, <2>2
<1>9. ASSUME NEW r \in Readers, ReadCheck(r) PROVE Goal
  BY Zenon, <1>9 DEF ReadCheck, Abstract!Ask
<1>10. ASSUME NEW r \in Readers, ReadGate(r) PROVE Goal
  BY <1>10 DEF ReadGate
<1>11. ASSUME NEW r \in Readers, ReadAdd(r) PROVE Goal
  BY <1>11 DEF ReadAdd
<1>12. ASSUME NEW r \in Readers, ReadDb(r) PROVE Goal
  <2>1. finalized /\ db = put
    BY <1>12 DEF ReadDb, Safe, DataInv
  <2> QED
    BY <1>12, <2>1 DEF ReadDb, Misuse, Abstract!Answer
<1>13. ASSUME NEW r \in Readers, ReadDone(r) PROVE Goal
  BY <1>13 DEF ReadDone, ReleaseReader
<1>14. ASSUME NEW c \in Closers, CloseSwap(c) PROVE Goal
  BY Zenon, <1>14 DEF CloseSwap, Abstract!Shut
<1>15. ASSUME NEW c \in Closers, CloseLock(c) PROVE Goal
  BY <1>15 DEF CloseLock, MuFree
<1>16. ASSUME NEW c \in Closers, CloseCommit(c) PROVE Goal
  BY <1>16 DEF CloseCommit, CommitOK, CommitRefused, ResetBatch
<1>17. ASSUME NEW c \in Closers, CloseWait(c) PROVE Goal
  BY <1>17 DEF CloseWait, Drained
<1>18. ASSUME NEW c \in Closers, CloseDb(c) PROVE Goal
  BY <1>18 DEF CloseDb
<1>19. CASE UNCHANGED vars
  BY <1>19 DEF vars
<1> QED
  BY <1>1, <1>2, <1>3, <1>4, <1>5, <1>6, <1>7, <1>8, <1>9, <1>10, <1>11,
      <1>12, <1>13, <1>14, <1>15, <1>16, <1>17, <1>18, <1>19
  DEF Next, WriterStep, FinalizeStep, ReaderStep, CloserStep

\* The concurrent store implements the sequential one its callers assume.
THEOREM Refinement == ASSUME ~CloseAnyTime PROVE Spec => ImplementsSpillStore
<1>1. Safe /\ [Next]_vars => Safe'
  BY SafeStep
<1>2. Init => Abstract!SInit
  BY DEF Init, EmptyMap, Abstract!SInit
<1>3. Safe /\ [Next]_vars => [Abstract!SNext]_(Abstract!svars)
  BY RefineStep
<1> QED
  BY <1>1, <1>2, <1>3, SafeInit, PTL DEF Spec, ImplementsSpillStore,
      Abstract!Spec
=============================================================================
