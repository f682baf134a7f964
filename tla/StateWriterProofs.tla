------------------------- MODULE StateWriterProofs --------------------------
(***************************************************************************)
(* Proofs about writeState of the ethrex and nimbus writers for any number *)
(* of accounts and workers and any channel capacities.                     *)
(*                                                                         *)
(* First Phase 2 on its own (Spec).  Its invariants build on one another:  *)
(* types, who has finished, vertex IDs, where accounts are, and where      *)
(* their rows are.                                                         *)
(*                                                                         *)
(* Then the three phases together (WriterSpec), which share the caller's   *)
(* context and the allocator.  Every step of the writer is a step of one   *)
(* phase and leaves the others' variables alone, but for the context and   *)
(* the allocator; so each phase keeps an invariant of its own, and Chain   *)
(* ties them.                                                              *)
(***************************************************************************)
EXTENDS StateWriter, FiniteSetTheorems, WellFoundedInduction, TLAPS

\* Stages end in order: the reader, every worker, the result channel, writeState.
Ended ==
    /\ workClosed <=> reader = "done"
    /\ reader = "done" /\ ~Done => next = N
    /\ \A w \in Workers : pc[w] = "exit" =>
          /\ reader = "done" /\ workCh = {}
          /\ ~firstErr => sink[w] = {}
    /\ resultClosed => AllExited
    /\ writerErr => firstErr
    /\ result # "none" => Joined
    /\ result = "ok" => ~firstErr

\* Blocks of IDs end at or below top and never overlap.
IdsInv ==
    /\ FirstDynamic - 1 <= top
    /\ \A e \in ids : FirstDynamic <= e[2] /\ e[2] + e[3] - 1 <= top
    /\ IdsDisjoint
    /\ result = "ok" => \A e \in ids : e[2] + e[3] - 1 <= vTop

Building(w, a) == pc[w] = "build" /\ cur[w] = a
InHand(a) == reader = "send" /\ a = next - 1

\* An account on its way is in one place, and is not below nextSeq.
OnePlace ==
    /\ nextSeq <= next
    /\ reader = "send" => nextSeq < next
    /\ \A a \in workCh : nextSeq <= a /\ a < next /\ ~InHand(a)
    /\ \A w \in Workers : pc[w] = "build" =>
          /\ nextSeq <= cur[w] /\ cur[w] < next
          /\ ~InHand(cur[w]) /\ cur[w] \notin workCh
          /\ \A v \in Workers : Building(v, cur[w]) => v = w
    /\ \A r \in resultCh \cup reorder :
          /\ nextSeq <= r[1] /\ r[1] < next
          /\ ~InHand(r[1]) /\ r[1] \notin workCh
          /\ \A w \in Workers : ~Building(w, r[1])
    /\ \A r, s \in resultCh \cup reorder : r[1] = s[1] => r = s
    /\ resultCh \cap reorder = {}

\* While the pipeline is live no account that was read is lost.
NoneLost ==
    ~Done => \A a \in Accounts : a < next =>
        \/ a < nextSeq \/ InHand(a) \/ a \in workCh
        \/ \E w \in Workers : Building(w, a)
        \/ \E r \in resultCh \cup reorder : r[1] = a

\* The rows of a storage trie that was built are in the database or in a sink.
Kept(a) == a \in db \/ \E w \in Workers : a \in sink[w]
RowsKept ==
    ~Done => \A a \in Storage \cap Accounts :
        a < nextSeq \/ (\E r \in resultCh \cup reorder : r = <<a, FALSE>>) => Kept(a)

-----------------------------------------------------------------------------
\* Every variable keeps its type.
LEMMA InitType == Init => TypeOK
<1> SUFFICES ASSUME Init PROVE TypeOK
  OBVIOUS
<1>1. sink \in [Workers -> SUBSET Accounts] /\ cur \in [Workers -> Accounts \cup {NoAccount}]
  BY DEF Init
<1>2. pc \in [Workers -> {"recv", "build", "exit"}]
  BY DEF Init
<1>3. top \in Nat /\ next \in 0 .. N /\ nextSeq \in 0 .. N
  BY PipelineAssumption DEF Init
<1> QED
  BY Zenon, <1>1, <1>2, <1>3 DEF Init, TypeOK

\* VidAllocator.Alloc keeps the allocator's types.
LEMMA AllocType ==
    ASSUME TypeOK, NEW a \in Accounts \cup {NoAccount}, NEW n \in {1, Block}, Alloc(a, n)
    PROVE  /\ top' \in Nat /\ vTop' \in Nat
           /\ ids' \subseteq (Accounts \cup {NoAccount}) \X Nat \X {1, Block}
<1>1. top \in Nat /\ n \in Nat
  BY PipelineAssumption DEF TypeOK
<1>2. FirstId(top + n, n) \in Nat
  BY <1>1 DEF FirstId
<1> QED
  BY <1>1, <1>2 DEF Alloc, TypeOK

\* The first element of a non-empty heap is an element with a least number:
\* container/heap returns a minimum.
LEMMA FirstIsLeast ==
    ASSUME TypeOK, reorder # {}
    PROVE  First(reorder) \in reorder /\ \A s \in reorder : First(reorder)[1] <= s[1]
<1> DEFINE T == {r[1] : r \in reorder}
<1>1. T \subseteq Nat /\ T # {}
  BY PipelineAssumption DEF TypeOK, Accounts
<1>2. \E x \in T : \A y \in T : ~(<<y, x>> \in OpToRel(<, Nat))
  <2> HIDE DEF T
  <2> QED
    BY Zenon, <1>1, NatLessThanWellFounded, WFMin
<1>3. PICK x \in T : \A y \in T : ~(y < x)
  BY Zenon, <1>1, <1>2 DEF OpToRel
<1>4. PICK r \in reorder : r[1] = x
  OBVIOUS
<1>5. \A s \in reorder : r[1] <= s[1]
  BY <1>1, <1>3, <1>4
<1> QED
  BY <1>4, <1>5 DEF First

\* No step of Phase 2 breaks the types.
LEMMA NextType == TypeOK /\ [Next]_vars => TypeOK'
<1> SUFFICES ASSUME TypeOK, [Next]_vars PROVE TypeOK'
  OBVIOUS
<1> USE PipelineAssumption
<1>1. CASE Read
  <2>1. CASE Done
    BY <1>1, <2>1 DEF Read, TypeOK, CloseWork, allocator, stageB, results, stageC
  <2>2. CASE ~Done
    <3>1. next \in Accounts /\ next' \in 0 .. N
      BY <1>1, <2>2 DEF Read, TypeOK, Accounts, More
    <3>2. CASE next \in Storage
      <4>1. Alloc(next, 1)
        BY <1>1, <2>2, <3>2 DEF Read
      <4> QED
        BY <1>1, <2>2, <3>1, <4>1, AllocType DEF Read, TypeOK, stageB, results, stageC
    <3>3. CASE next \notin Storage
      BY <1>1, <2>2, <3>1, <3>3 DEF Read, TypeOK, allocator, stageB, results, stageC
    <3> QED
      BY <3>2, <3>3
  <2> QED
    BY <2>1, <2>2
<1>2. CASE Send
  <2>1. next - 1 \in Accounts
    BY <1>2 DEF Send, TypeOK, Accounts
  <2> QED
    BY Zenon, <1>2, <2>1 DEF Send, TypeOK, CloseWork, allocator, stageB, results, stageC
<1>3. CASE ReadEnds
  BY Zenon, <1>3 DEF ReadEnds, TypeOK, CloseWork, allocator, stageB, results, stageC
<1>4. ASSUME NEW w \in Workers, Receive(w) PROVE TypeOK'
  BY <1>4 DEF Receive, Move, TypeOK, allocator, results, stageC
<1>5. ASSUME NEW w \in Workers, BuildBranch(w) PROVE TypeOK'
  <2>1. cur[w] \in Accounts \cup {NoAccount} /\ Alloc(cur[w], Block)
    BY <1>5 DEF BuildBranch, TypeOK
  <2> QED
    BY <1>5, <2>1, AllocType DEF BuildBranch, TypeOK, stageA, stageB, results, stageC
<1>6. ASSUME NEW w \in Workers, Build(w) PROVE TypeOK'
  <2>1. PICK failed \in BOOLEAN :
          /\ resultCh' = resultCh \cup {<<cur[w], failed>>} \/ UNCHANGED resultCh
          /\ Move(w, "build", "recv")
          /\ \/ UNCHANGED <<sink, db>>
             \/ sink' = [sink EXCEPT ![w] = @ \cup Rows(w)] /\ UNCHANGED db
             \/ db' = db \cup sink[w] \cup Rows(w) /\ sink' = [sink EXCEPT ![w] = {}]
          /\ UNCHANGED <<stageA, cur, resultClosed, stageC, firstErr, ctxDone,
                         allocator, result>>
    BY Zenon, <1>6 DEF Build
  <2>2. cur[w] \in Accounts /\ Rows(w) \subseteq Accounts
    BY <1>6, <2>1 DEF Move, TypeOK, Rows
  <2>3. sink' \in [Workers -> SUBSET Accounts] /\ db' \subseteq Accounts
    BY <2>1, <2>2 DEF TypeOK
  <2>4. resultCh' \subseteq Accounts \X BOOLEAN
    BY <2>1, <2>2 DEF TypeOK
  <2>5. /\ pc' \in [Workers -> {"recv", "build", "exit"}]
        /\ \A v \in Workers : pc'[v] = "build" => cur'[v] \in Accounts
    BY <2>1 DEF Move, TypeOK
  <2>6. UNCHANGED <<next, reader, workCh, workClosed, cur, resultClosed, reorder, nextSeq,
                    writerErr, firstErr, ctxDone, top, ids, vTop, result>>
    BY <2>1 DEF stageA, stageC, allocator
  <2> QED
    BY <2>3, <2>4, <2>5, <2>6 DEF TypeOK
<1>7. ASSUME NEW w \in Workers, Exit(w) PROVE TypeOK'
  BY Zenon, <1>7 DEF Exit, CloseSink, Move, TypeOK, stageA, results, stageC, allocator
<1>8. CASE CloseResults
  BY <1>8 DEF CloseResults, TypeOK, stageA, stageB, stageC, allocator
<1>9. CASE Collect
  BY <1>9 DEF Collect, TypeOK, stageA, stageB, allocator
<1>10. CASE Apply
  <2>1. First(reorder) \in reorder /\ First(reorder)[1] = nextSeq
    BY <1>10, FirstIsLeast DEF Apply, InSeq
  <2>2. nextSeq' \in 0 .. N
    BY <1>10, <2>1 DEF Apply, TypeOK, Accounts
  <2>3. /\ top' \in Nat /\ vTop' \in Nat
        /\ ids' \subseteq (Accounts \cup {NoAccount}) \X Nat \X {1, Block}
    <3>1. CASE Alloc(NoAccount, Block)
      BY <3>1, AllocType
    <3>2. CASE UNCHANGED allocator
      BY <3>2 DEF TypeOK, allocator
    <3> QED
      BY <1>10, <3>1, <3>2 DEF Apply
  <2>4. reorder' \subseteq Accounts \X BOOLEAN /\ writerErr' \in BOOLEAN /\ firstErr' \in BOOLEAN
    BY Zenon, <1>10 DEF Apply, TypeOK
  <2>5. UNCHANGED <<stageA, stageB, results, ctxDone, result>>
    BY <1>10 DEF Apply
  <2> QED
    BY <2>2, <2>3, <2>4, <2>5 DEF TypeOK, stageA, stageB, results
<1>11. CASE Finish
  BY <1>11 DEF Finish, VTop, TypeOK, stageA, stageB, results, stageC
<1>12. CASE Cancel
  BY <1>12 DEF Cancel, TypeOK, stageA, stageB, results, stageC, allocator
<1>13. CASE UNCHANGED vars
  BY <1>13 DEF vars, TypeOK, stageA, stageB, results, stageC, allocator
<1> QED
  BY <1>1, <1>2, <1>3, <1>4, <1>5, <1>6, <1>7, <1>8, <1>9, <1>10, <1>11, <1>12, <1>13 DEF Next, Runs

\* The types hold in every behaviour of the pipeline.
THEOREM TypeCorrect == Spec => []TypeOK
BY InitType, NextType, PTL DEF Spec

-----------------------------------------------------------------------------
\* Stages end in order.
LEMMA NextEnded == TypeOK /\ TypeOK' /\ Ended /\ [Next]_vars => Ended'
<1> SUFFICES ASSUME TypeOK, TypeOK', Ended, [Next]_vars PROVE Ended'
  OBVIOUS
<1> USE DEF Ended, Done, AllExited, Joined
<1>1. CASE Read \/ Send \/ ReadEnds
  <2>1. reader # "done"
    BY <1>1 DEF Read, Send, ReadEnds
  <2>2. \A w \in Workers : pc[w] # "exit"
    BY <2>1
  <2>3. ~resultClosed /\ result = "none"
    BY <2>1, <2>2, PipelineAssumption DEF TypeOK
  <2>4. UNCHANGED <<pc, resultClosed, writerErr, result, ctxDone>> /\ (firstErr => firstErr')
    BY <1>1 DEF Read, Send, ReadEnds, stageB, results, stageC
  <2>5. (workClosed' <=> reader' = "done") /\ (reader' = "done" /\ ~Done' => next' = N)
    <3>1. CASE Read
      BY <3>1, <2>1 DEF Read, CloseWork, TypeOK
    <3>2. CASE Send
      BY <3>2, <2>1 DEF Send, CloseWork, TypeOK
    <3>3. CASE ReadEnds
      BY <3>3, <2>1, PipelineAssumption DEF ReadEnds, CloseWork, More, TypeOK
    <3> QED
      BY <1>1, <3>1, <3>2, <3>3
  <2> QED
    BY <2>2, <2>3, <2>4, <2>5
<1>2. ASSUME NEW w \in Workers, Receive(w) \/ BuildBranch(w) \/ Build(w) PROVE Ended'
  <2>1. pc[w] # "exit" /\ ~resultClosed /\ result = "none"
    BY Zenon, <1>2 DEF Receive, BuildBranch, Build, Move
  <2>2. /\ UNCHANGED <<next, reader, workClosed, resultClosed, writerErr, firstErr, ctxDone, result>>
        /\ \A v \in Workers : pc'[v] = "exit" => pc[v] = "exit" /\ v # w
        /\ workCh' \subseteq workCh
        /\ \A v \in Workers \ {w} : sink'[v] = sink[v]
    <3>1. CASE Receive(w)
      BY <3>1, <2>1 DEF Receive, Move, TypeOK, results, stageC
    <3>2. CASE BuildBranch(w)
      BY <3>2, <2>1 DEF BuildBranch, TypeOK, stageA, stageB, results, stageC
    <3>3. CASE Build(w)
      BY <3>3, <2>1 DEF Build, Move, TypeOK, stageA, stageC
    <3> QED
      BY <1>2, <3>1, <3>2, <3>3
  <2> QED
    BY <2>1, <2>2
<1>3. ASSUME NEW w \in Workers, Exit(w) PROVE Ended'
  <2>1. pc[w] # "exit" /\ ~resultClosed /\ result = "none" /\ workCh = {} /\ workClosed
    BY <1>3 DEF Exit, Move
  <2>2. /\ UNCHANGED <<next, reader, workCh, workClosed, resultClosed, writerErr, ctxDone, result>>
        /\ pc' = [pc EXCEPT ![w] = "exit"]
        /\ firstErr => firstErr'
        /\ ~firstErr' => sink' = [sink EXCEPT ![w] = {}]
    BY <1>3 DEF Exit, CloseSink, Move, stageA, results, stageC
  <2> QED
    BY <2>1, <2>2 DEF TypeOK
<1>4. CASE CloseResults \/ Collect
  BY <1>4 DEF CloseResults, Collect, TypeOK, stageA, stageB, stageC
<1>5. CASE Apply
  BY <1>5 DEF Apply, TypeOK, stageA, stageB, results
<1>6. CASE Finish
  BY <1>6 DEF Finish, TypeOK, stageA, stageB, results, stageC
<1>7. CASE Cancel
  BY <1>7 DEF Cancel, TypeOK, stageA, stageB, results, stageC
<1>8. CASE UNCHANGED vars
  BY <1>8 DEF vars, stageA, stageB, results, stageC
<1> QED
  BY <1>1, <1>2, <1>3, <1>4, <1>5, <1>6, <1>7, <1>8 DEF Next, Runs

\* Stages end in order in every state of Phase 2.
LEMMA EndedHolds == Spec => [](TypeOK /\ Ended)
<1>1. Init => Ended
  BY DEF Init, Ended, Done, AllExited, Joined
<1> QED
  BY <1>1, NextEnded, TypeCorrect, PTL DEF Spec

\* writeState returns with its reader and workers joined and the result channel
\* drained, whatever failed.
THEOREM ReturnsJoined == Spec => []JoinedBeforeReturn
<1>1. TypeOK /\ Ended => JoinedBeforeReturn
  BY DEF Ended, JoinedBeforeReturn, Joined
<1> QED
  BY <1>1, EndedHolds, PTL

-----------------------------------------------------------------------------
\* An allocation keeps the blocks disjoint: it starts above top.
LEMMA AllocIds ==
    ASSUME TypeOK, IdsInv, NEW a, NEW n \in {1, Block}, Alloc(a, n), result' # "ok"
    PROVE  IdsInv'
<1>1. n \in Nat \ {0} /\ top \in Nat /\ FirstDynamic \in Nat \ {0}
  BY PipelineAssumption DEF TypeOK
<1>2. \A e \in ids : e[2] \in Nat /\ e[3] \in Nat \ {0}
  BY PipelineAssumption DEF TypeOK
<1> DEFINE new == <<a, top + 1, n>>
<1>3. ids' = ids \cup {new} /\ top' = top + n
  BY <1>1 DEF Alloc, FirstId
<1>4. new[2] = top + 1 /\ new[3] = n
  OBVIOUS
<1>5. \A e \in ids' : e \in ids \/ e = new
  BY <1>3
<1> HIDE DEF new
<1>6. FirstDynamic - 1 <= top'
  BY <1>1, <1>3 DEF IdsInv
<1>7. \A e \in ids' : FirstDynamic <= e[2] /\ e[2] + e[3] - 1 <= top'
  BY <1>1, <1>2, <1>3, <1>4, <1>5 DEF IdsInv
<1>8. ASSUME NEW d \in ids', NEW e \in ids', d # e
      PROVE  d[2] + d[3] <= e[2] \/ e[2] + e[3] <= d[2]
  <2>1. CASE d \in ids /\ e \in ids
    BY <1>8, <2>1 DEF IdsInv, IdsDisjoint
  <2>2. CASE d \in ids /\ e = new
    BY <1>1, <1>2, <1>4, <2>2 DEF IdsInv
  <2>3. CASE e \in ids /\ d = new
    BY <1>1, <1>2, <1>4, <2>3 DEF IdsInv
  <2> QED
    BY <1>5, <1>8, <2>1, <2>2, <2>3
<1> QED
  BY <1>6, <1>7, <1>8 DEF IdsInv, IdsDisjoint

\* No step of Phase 2 makes two blocks of IDs overlap, or writes a mark too low.
LEMMA NextIds == TypeOK /\ Ended /\ IdsInv /\ [Next]_vars => IdsInv'
<1> SUFFICES ASSUME TypeOK, Ended, IdsInv, [Next]_vars PROVE IdsInv'
  OBVIOUS
<1>1. ASSUME UNCHANGED <<top, ids, vTop>>, result' = result PROVE IdsInv'
  BY <1>1 DEF IdsInv, IdsDisjoint
<1>2. CASE Read
  <2>1. reader # "done" /\ result' = result
    BY <1>2 DEF Read
  <2>2. result' # "ok"
    BY <2>1 DEF Ended, Joined
  <2>3. CASE Alloc(next, 1)
    BY <2>2, <2>3, AllocIds
  <2> QED
    BY <1>1, <1>2, <2>1, <2>3 DEF Read, allocator
<1>3. ASSUME NEW w \in Workers, BuildBranch(w) PROVE IdsInv'
  <2>1. result' # "ok" /\ Alloc(cur[w], Block)
    BY <1>3 DEF BuildBranch, Ended, Joined, AllExited
  <2> QED
    BY <2>1, AllocIds
<1>4. CASE Apply
  <2>1. result = "none" /\ result' = result
    BY <1>4 DEF Apply
  <2>2. CASE Alloc(NoAccount, Block)
    BY <2>1, <2>2, AllocIds
  <2> QED
    BY <1>1, <1>4, <2>1, <2>2 DEF Apply, allocator
<1>5. CASE Finish
  <2>1. UNCHANGED <<top, ids>> /\ (result' = "ok" => vTop' = VTop)
    BY <1>5 DEF Finish
  <2>2. ids # {} => VTop = top
    BY DEF VTop
  <2> QED
    BY <2>1, <2>2 DEF IdsInv, IdsDisjoint
<1>6. CASE Send \/ ReadEnds \/ CloseResults \/ Collect \/ Cancel \/ UNCHANGED vars
  BY <1>1, <1>6 DEF Send, ReadEnds, CloseResults, Collect, Cancel, vars, allocator
<1>7. ASSUME NEW w \in Workers, Receive(w) \/ Build(w) \/ Exit(w) PROVE IdsInv'
  BY Zenon, <1>1, <1>7 DEF Receive, Build, Exit, allocator
<1> QED
  BY <1>2, <1>3, <1>4, <1>5, <1>6, <1>7 DEF Next, Runs

\* The blocks of IDs are disjoint in every state of Phase 2.
LEMMA IdsHold == Spec => []IdsInv
<1>1. Init => IdsInv
  BY PipelineAssumption DEF Init, IdsInv, IdsDisjoint
<1> QED
  BY <1>1, NextIds, EndedHolds, PTL DEF Spec

\* VidAllocator.Alloc never hands out an ID twice, whoever calls it, and the
\* admin record written at the end covers all of them.
THEOREM IdsNeverOverlap == Spec => []IdsDisjoint
<1>1. IdsInv => IdsDisjoint
  BY DEF IdsInv
<1> QED
  BY <1>1, IdsHold, PTL

\* The high-water mark in the admin record is at least every ID handed out.
THEOREM AdminRecordCovers == Spec => []VTopCoversIds
<1>1. IdsInv => VTopCoversIds
  BY DEF IdsInv, VTopCoversIds
<1> QED
  BY <1>1, IdsHold, PTL

-----------------------------------------------------------------------------
\* The step that applies an account takes the one numbered nextSeq.
LEMMA ApplyTakesNext ==
    ASSUME TypeOK, Apply
    PROVE  /\ First(reorder) \in reorder /\ First(reorder)[1] = nextSeq
           /\ nextSeq' # nextSeq => First(reorder) = <<nextSeq, FALSE>> /\ nextSeq' = nextSeq + 1
<1>1. First(reorder) \in reorder /\ First(reorder)[1] = nextSeq
  BY FirstIsLeast DEF Apply, InSeq
<1>2. First(reorder) = <<First(reorder)[1], First(reorder)[2]>> /\ First(reorder)[2] \in BOOLEAN
  BY <1>1 DEF TypeOK
<1> QED
  BY Zenon, <1>1, <1>2 DEF Apply

\* Moving an account from one place to the next keeps it in one place.
LEMMA NextOnePlace == TypeOK /\ TypeOK' /\ OnePlace /\ [Next]_vars => OnePlace'
<1> SUFFICES ASSUME TypeOK, TypeOK', OnePlace, [Next]_vars PROVE OnePlace'
  OBVIOUS
<1> USE PipelineAssumption DEF OnePlace, Building, InHand
<1>0. /\ next \in Nat /\ nextSeq \in Nat /\ workCh \subseteq Nat
      /\ \A r \in resultCh \cup reorder : r[1] \in Nat
      /\ \A w \in Workers : pc[w] = "build" => cur[w] \in Nat
  BY SMTT(30) DEF TypeOK, Accounts
<1>1. CASE Read
  <2>1. /\ UNCHANGED <<workCh, pc, cur, resultCh, reorder, nextSeq>>
        /\ \/ next' = next + 1 /\ reader' = "send"
           \/ next' = next /\ reader' = "done"
    BY SMTT(30), <1>1 DEF Read, stageB, results, stageC
  <2> QED
    BY <1>0, <2>1
<1>2. CASE Send \/ ReadEnds
  <2>1. /\ UNCHANGED <<next, pc, cur, resultCh, reorder, nextSeq>> /\ reader' # "send"
        /\ \/ reader = "send" /\ workCh' = workCh \cup {next - 1}
           \/ workCh' = workCh
    BY <1>2 DEF Send, ReadEnds, stageB, results, stageC
  <2>2. CASE workCh' = workCh
    BY <1>0, <2>1, <2>2
  <2>3. CASE reader = "send" /\ workCh' = workCh \cup {next - 1}
    <3>1. ASSUME NEW a \in workCh' PROVE nextSeq <= a /\ a < next
      <4>1. CASE a \in workCh
        BY <4>1
      <4>2. CASE a = next - 1
        BY <1>0, <2>3, <4>2
      <4> QED
        BY <2>3, <4>1, <4>2
    <3>2. \A w \in Workers : pc[w] = "build" => cur[w] \notin workCh'
      BY <2>3
    <3>3. \A r \in resultCh \cup reorder : r[1] \notin workCh'
      BY <2>3
    <3> QED
      BY <2>1, <3>1, <3>2, <3>3
  <2> QED
    BY SMTT(30), <2>1, <2>2, <2>3
<1>3. ASSUME NEW w \in Workers, Receive(w) PROVE OnePlace'
  <2>1. PICK a \in workCh :
          /\ workCh' = workCh \ {a}
          /\ \/ UNCHANGED <<pc, cur>>
             \/ pc' = [pc EXCEPT ![w] = "build"] /\ cur' = [cur EXCEPT ![w] = a]
    BY <1>3 DEF Receive, Move, TypeOK
  <2>2. UNCHANGED <<next, reader, resultCh, reorder, nextSeq>>
    BY <1>3 DEF Receive, results, stageC
  <2>3. CASE UNCHANGED <<pc, cur>>
    BY SMTT(30), <1>0, <2>1, <2>2, <2>3
  <2>4. CASE pc' = [pc EXCEPT ![w] = "build"] /\ cur' = [cur EXCEPT ![w] = a]
    BY SMTT(30), <1>0, <2>1, <2>2, <2>4 DEF TypeOK
  <2> QED
    BY SMTT(30), <2>1, <2>3, <2>4
<1>4. ASSUME NEW w \in Workers, Build(w) PROVE OnePlace'
  <2>1. PICK failed \in BOOLEAN :
          /\ resultCh' = resultCh \cup {<<cur[w], failed>>} \/ UNCHANGED resultCh
          /\ pc[w] = "build" /\ pc' = [pc EXCEPT ![w] = "recv"]
    BY Zenon, <1>4 DEF Build, Move
  <2>2. UNCHANGED <<next, reader, workCh, cur, reorder, nextSeq>>
    BY <1>4 DEF Build, stageA, stageC
  <2> DEFINE r == <<cur[w], failed>>
  <2>3. r[1] = cur[w] /\ r \notin reorder
    BY <2>1
  <2>4. \A t \in resultCh' \cup reorder' : t \in resultCh \cup reorder \/ t = r
    BY <2>1, <2>2
  <2>5. \A t \in resultCh \cup reorder : t[1] # r[1]
    BY SMTT(30), <2>1, <2>3
  <2> HIDE DEF r
  <2>6. /\ \A v \in Workers : pc'[v] = "build" => pc[v] = "build" /\ v # w
    BY <2>1 DEF TypeOK
  <2>7. \A t \in resultCh' \cup reorder' :
          /\ nextSeq' <= t[1] /\ t[1] < next'
          /\ ~InHand(t[1])' /\ t[1] \notin workCh'
          /\ \A v \in Workers : ~Building(v, t[1])'
    BY <2>1, <2>2, <2>3, <2>4, <2>6
  <2>8. \A t, u \in resultCh' \cup reorder' : t[1] = u[1] => t = u
    BY <2>4, <2>5
  <2>9. resultCh' \cap reorder' = {}
    BY SMTT(30), <2>1, <2>2, <2>3 DEF r
  <2> QED
    BY <2>2, <2>6, <2>7, <2>8, <2>9
<1>5. ASSUME NEW w \in Workers, BuildBranch(w) \/ Exit(w) PROVE OnePlace'
  <2>1. /\ UNCHANGED <<next, reader, workCh, cur, resultCh, reorder, nextSeq>>
        /\ \A v \in Workers : pc'[v] = "build" => pc[v] = "build"
    BY SMTT(30), <1>5 DEF BuildBranch, Exit, Move, TypeOK, stageA, stageB, results, stageC
  <2> QED
    BY SMTT(30), <2>1
<1>6. CASE Collect
  <2>1. PICK r \in resultCh :
          resultCh' = resultCh \ {r} /\ (reorder' = reorder \/ reorder' = reorder \cup {r})
    BY <1>6 DEF Collect
  <2>2. UNCHANGED <<next, reader, workCh, pc, cur, nextSeq>>
    BY <1>6 DEF Collect, stageA, stageB
  <2>3. resultCh' \cup reorder' \subseteq resultCh \cup reorder /\ resultCh' \cap reorder' = {}
    BY SMTT(30), <2>1
  <2> QED
    BY <2>2, <2>3
<1>7. CASE Apply
  <2> DEFINE r == First(reorder)
  <2>1. r \in reorder /\ r[1] = nextSeq /\ reorder' = reorder \ {r}
    BY ZenonT(30), <1>7, ApplyTakesNext DEF Apply
  <2>2. UNCHANGED <<next, reader, workCh, pc, cur, resultCh>>
    BY <1>7 DEF Apply, stageA, stageB, results
  <2>3. nextSeq' = nextSeq \/ nextSeq' = nextSeq + 1
    BY <1>7 DEF Apply
  <2> HIDE DEF r
  <2>4. \A t \in resultCh' \cup reorder' : t \in resultCh \cup reorder /\ t[1] # nextSeq
    BY <2>1, <2>2
  <2>5. \A a \in workCh : a # nextSeq
    BY <2>1
  <2>6. \A w \in Workers : pc[w] = "build" => cur[w] # nextSeq
    BY <2>1
  <2>7. reader = "send" => nextSeq # next - 1
    BY <2>1
  <2>8. nextSeq < next
    BY <2>1
  <2> QED
    BY <1>0, <2>1, <2>2, <2>3, <2>4, <2>5, <2>6, <2>7, <2>8
<1>8. CASE CloseResults \/ Finish \/ Cancel \/ UNCHANGED vars
  BY Zenon, <1>8 DEF CloseResults, Finish, Cancel, vars, stageA, stageB, results, stageC
<1> QED
  BY ZenonT(30), <1>1, <1>2, <1>3, <1>4, <1>5, <1>6, <1>7, <1>8 DEF Next, Runs

\* An account is in one place in every state of Phase 2.
LEMMA OnePlaceHolds == Spec => []OnePlace
<1>1. Init => OnePlace
  BY DEF Init, OnePlace, InHand, Building
<1> QED
  BY <1>1, NextOnePlace, TypeCorrect, PTL DEF Spec

\* The account trie is fed every account once, in the order of the sorter.
THEOREM FeedsInOrder == Spec => FedInOrder
<1> DEFINE Fed == nextSeq' # nextSeq => /\ nextSeq' = nextSeq + 1
                                       /\ \E r \in reorder : r = <<nextSeq, FALSE>>
<1>1. TypeOK /\ [Next]_vars => [Fed]_vars
  <2> SUFFICES ASSUME TypeOK, [Next]_vars, nextSeq' # nextSeq PROVE Fed
    BY Zenon
  <2>1. Apply
    BY Zenon DEF Next, Runs, Read, Send, ReadEnds, Receive, BuildBranch, Build, Exit, CloseResults,
           Collect, Finish, Cancel, vars, stageC
  <2> QED
    BY Zenon, <2>1, ApplyTakesNext
<1> QED
  BY <1>1, TypeCorrect, PTL DEF Spec, FedInOrder

-----------------------------------------------------------------------------
\* While the pipeline is live, a step hands an account on or leaves it alone.
LEMMA NextNoneLost ==
    TypeOK /\ TypeOK' /\ Ended /\ NoneLost /\ [Next]_vars => NoneLost'
<1> SUFFICES ASSUME TypeOK, TypeOK', Ended, NoneLost, [Next]_vars, ~Done',
                    NEW a \in Accounts, a < next'
             PROVE  \/ a < nextSeq' \/ InHand(a)' \/ a \in workCh'
                    \/ \E w \in Workers : Building(w, a)'
                    \/ \E r \in resultCh' \cup reorder' : r[1] = a
  BY DEF NoneLost
<1> USE PipelineAssumption DEF Building, InHand
<1>0. ~Done
  BY Zenon DEF Done, Next, Runs, Read, Send, ReadEnds, Receive, BuildBranch, Build, Exit, CloseSink,
         CloseResults, Collect, Apply, Finish, Cancel, vars
<1>1. a \in Nat /\ next \in Nat /\ nextSeq \in Nat
  BY DEF TypeOK, Accounts
<1>2. a < next => \/ a < nextSeq \/ InHand(a) \/ a \in workCh
                 \/ \E w \in Workers : Building(w, a)
                 \/ \E r \in resultCh \cup reorder : r[1] = a
  BY <1>0 DEF NoneLost
<1>3. CASE Read
  <2>1. /\ UNCHANGED <<workCh, pc, cur, resultCh, reorder, nextSeq>>
        /\ reader' = "send" /\ next' = next + 1 /\ reader = "read"
    BY <1>0, <1>3 DEF Read, stageB, results, stageC
  <2> QED
    BY <1>1, <1>2, <2>1
<1>4. CASE Send \/ ReadEnds
  <2>1. /\ UNCHANGED <<next, pc, cur, resultCh, reorder, nextSeq>>
        /\ \/ workCh' = workCh \cup {next - 1}
           \/ reader # "send" /\ workCh' = workCh
    BY SMTT(30), <1>0, <1>4 DEF Send, ReadEnds, stageB, results, stageC
  <2> QED
    BY <1>2, <2>1
<1>5. ASSUME NEW w \in Workers, Receive(w) \/ BuildBranch(w) \/ Build(w) \/ Exit(w)
      PROVE  \/ a < nextSeq' \/ InHand(a)' \/ a \in workCh'
             \/ \E v \in Workers : Building(v, a)'
             \/ \E r \in resultCh' \cup reorder' : r[1] = a
  <2>1. UNCHANGED <<next, reader, reorder, nextSeq>>
    BY Zenon, <1>5 DEF Receive, BuildBranch, Build, Exit, stageA, stageC
  <2>2. CASE Receive(w)
    <3>1. PICK b \in workCh : /\ workCh' = workCh \ {b} /\ pc[w] = "recv"
                              /\ pc' = [pc EXCEPT ![w] = "build"]
                              /\ cur' = [cur EXCEPT ![w] = b] /\ resultCh' = resultCh
      BY SMTT(30), <1>0, <2>2 DEF Receive, Move, results
    <3>2. Building(w, b)'
      BY SMTT(30), <3>1 DEF TypeOK
    <3>3. \A v \in Workers : Building(v, a) => Building(v, a)'
      BY <3>1 DEF TypeOK
    <3> QED
      BY <1>2, <2>1, <3>1, <3>2, <3>3
  <2>3. CASE Build(w)
    <3>1. PICK failed \in BOOLEAN : resultCh' = resultCh \cup {<<cur[w], failed>>}
      BY Zenon, <1>0, <2>3 DEF Build
    <3>2. workCh' = workCh /\ cur' = cur /\ pc' = [pc EXCEPT ![w] = "recv"]
      BY SMTT(30), <2>3 DEF Build, Move, stageA
    <3>3. \A v \in Workers : v # w /\ Building(v, a) => Building(v, a)'
      BY <3>2 DEF TypeOK
    <3>4. <<cur[w], failed>> \in resultCh' /\ <<cur[w], failed>>[1] = cur[w]
      BY SMTT(30), <3>1
    <3> QED
      BY Zenon, <1>2, <2>1, <3>1, <3>2, <3>3, <3>4
  <2>4. CASE BuildBranch(w) \/ Exit(w)
    <3>1. /\ UNCHANGED <<workCh, cur, resultCh>>
          /\ \A v \in Workers : pc[v] = "build" => pc'[v] = "build"
      BY SMTT(30), <2>4 DEF BuildBranch, Exit, Move, TypeOK, stageA, stageB, results
    <3> QED
      BY SMTT(30), <1>2, <2>1, <3>1
  <2> QED
    BY <1>5, <2>2, <2>3, <2>4
<1>6. CASE Collect
  <2>1. ~writerErr
    BY <1>0 DEF Ended, Done
  <2>2. /\ resultCh' \cup reorder' = resultCh \cup reorder
        /\ UNCHANGED <<next, reader, workCh, pc, cur, nextSeq>>
    BY <1>6, <2>1 DEF Collect, stageA, stageB
  <2> QED
    BY <1>2, <2>2
<1>7. CASE Apply
  <2>1. First(reorder)[1] = nextSeq /\ reorder' = reorder \ {First(reorder)}
    BY Zenon, <1>7, ApplyTakesNext DEF Apply
  <2>2. nextSeq' = nextSeq + 1
    BY <1>7 DEF Apply, Done
  <2>3. UNCHANGED <<next, reader, workCh, pc, cur, resultCh>>
    BY SMTT(30), <1>7 DEF Apply, stageA, stageB, results
  <2> QED
    BY <1>1, <1>2, <2>1, <2>2, <2>3
<1>8. CASE CloseResults \/ Finish \/ Cancel \/ UNCHANGED vars
  BY <1>2, <1>8 DEF CloseResults, Finish, Cancel, vars, stageA, stageB, results, stageC
<1> QED
  BY Zenon, <1>3, <1>4, <1>5, <1>6, <1>7, <1>8 DEF Next, Runs

\* No account is lost in any state of Phase 2.
LEMMA NoneLostHolds == Spec => []NoneLost
<1>1. Init => NoneLost
  BY DEF Init, NoneLost, Accounts
<1> QED
  BY <1>1, NextNoneLost, EndedHolds, TypeCorrect, PTL DEF Spec

\* Rows leave a sink only for the database while the pipeline is live.
LEMMA NextRowsKept == TypeOK /\ TypeOK' /\ RowsKept /\ [Next]_vars => RowsKept'
<1> SUFFICES ASSUME TypeOK, TypeOK', RowsKept, [Next]_vars, ~Done',
                    NEW a \in Storage \cap Accounts,
                    a < nextSeq' \/ <<a, FALSE>> \in resultCh' \cup reorder'
             PROVE  Kept(a)'
  BY Zenon DEF RowsKept
<1> USE DEF Kept
<1>0. ~Done
  BY Zenon DEF Done, Next, Runs, Read, Send, ReadEnds, Receive, BuildBranch, Build, Exit, CloseSink,
         CloseResults, Collect, Apply, Finish, Cancel, vars
<1>1. a < nextSeq \/ <<a, FALSE>> \in resultCh \cup reorder => Kept(a)
  BY Zenon, <1>0 DEF RowsKept
<1>2. ASSUME UNCHANGED <<sink, db, nextSeq>>, resultCh' \cup reorder' \subseteq resultCh \cup reorder
      PROVE  Kept(a)'
  BY <1>1, <1>2
<1>3. CASE Read \/ Send \/ ReadEnds \/ CloseResults \/ Finish \/ Cancel \/ UNCHANGED vars
  BY Zenon, <1>2, <1>3 DEF Read, Send, ReadEnds, CloseResults, Finish, Cancel, vars,
                    stageB, results, stageC
<1>4. ASSUME NEW w \in Workers, Receive(w) \/ BuildBranch(w) PROVE Kept(a)'
  BY Zenon, <1>2, <1>4 DEF Receive, BuildBranch, stageB, results, stageC
<1>5. ASSUME NEW w \in Workers, Build(w) PROVE Kept(a)'
  <2>1. PICK failed \in BOOLEAN :
          /\ resultCh' = resultCh \cup {<<cur[w], failed>>}
          /\ ~failed => \/ sink' = [sink EXCEPT ![w] = @ \cup Rows(w)] /\ UNCHANGED db
                        \/ db' = db \cup sink[w] \cup Rows(w) /\ sink' = [sink EXCEPT ![w] = {}]
          /\ failed => UNCHANGED <<sink, db>>
    BY Zenon, <1>0, <1>5 DEF Build
  <2>2. UNCHANGED <<reorder, nextSeq>>
    BY <1>5 DEF Build, stageC
  <2>3. Kept(a) => Kept(a)'
    <3>1. CASE failed
      BY SMTT(30), <2>1, <3>1
    <3>2. CASE ~failed
      BY SMTT(30), <2>1, <3>2 DEF TypeOK
    <3> QED
      BY <3>1, <3>2
  <2>4. CASE <<a, FALSE>> = <<cur[w], failed>>
    <3>1. ~failed /\ a \in Rows(w)
      BY Zenon, <2>4 DEF Rows
    <3> QED
      BY <2>1, <3>1 DEF TypeOK
  <2> QED
    BY Zenon, <1>1, <2>1, <2>2, <2>3, <2>4
<1>6. ASSUME NEW w \in Workers, Exit(w) PROVE Kept(a)'
  <2>1. db' = db \cup sink[w] /\ sink' = [sink EXCEPT ![w] = {}]
    BY <1>6 DEF Exit, CloseSink, Done
  <2>2. UNCHANGED <<resultCh, reorder, nextSeq>>
    BY <1>6 DEF Exit, results, stageC
  <2> QED
    BY <1>1, <2>1, <2>2 DEF TypeOK
<1>7. CASE Collect
  BY Zenon, <1>2, <1>7 DEF Collect, stageB
<1>8. CASE Apply
  <2>1. /\ First(reorder) \in reorder /\ reorder' = reorder \ {First(reorder)}
        /\ First(reorder) = <<nextSeq, FALSE>> /\ nextSeq' = nextSeq + 1
    <3>1. nextSeq' = nextSeq + 1 /\ reorder' = reorder \ {First(reorder)}
      BY SMTT(30), <1>8 DEF Apply, Done
    <3>2. nextSeq' # nextSeq
      BY <3>1 DEF TypeOK
    <3> QED
      BY Zenon, <1>8, <3>1, <3>2, ApplyTakesNext
  <2>2. UNCHANGED <<sink, db, resultCh>>
    BY SMTT(30), <1>8 DEF Apply, stageB, results
  <2>3. a \in Int /\ nextSeq \in Int
    BY DEF TypeOK, Accounts
  <2>4. CASE a < nextSeq \/ a = nextSeq
    BY Zenon, <1>1, <2>1, <2>2, <2>4
  <2> QED
    BY <1>1, <2>1, <2>2, <2>3, <2>4
<1> QED
  BY Zenon, <1>3, <1>4, <1>5, <1>6, <1>7, <1>8 DEF Next, Runs

\* No storage row is lost in any state of Phase 2.
LEMMA RowsKeptHolds == Spec => []RowsKept
<1>1. Init => RowsKept
  BY DEF Init, RowsKept, Accounts
<1> QED
  BY <1>1, NextRowsKept, TypeCorrect, PTL DEF Spec

-----------------------------------------------------------------------------
\* A pipeline that has ended with nothing cancelled has every account applied:
\* what is not yet applied would be in the heap, and its least element is then
\* the next one.
LEMMA EndedIsComplete ==
    ASSUME TypeOK, Ended, OnePlace, NoneLost, RowsKept,
           Joined, ~Done, ~InSeq(reorder, nextSeq)
    PROVE  nextSeq = N /\ Storage \cap Accounts \subseteq db
<1>1. /\ next = N /\ workCh = {} /\ resultCh = {} /\ reader = "done"
      /\ \A w \in Workers : pc[w] = "exit" /\ sink[w] = {}
  BY PipelineAssumption DEF Ended, Joined, AllExited, Done
<1>2. nextSeq = N
  <2> SUFFICES ASSUME nextSeq # N PROVE FALSE
    OBVIOUS
  <2>1. nextSeq \in Accounts /\ nextSeq < next /\ ~(nextSeq < nextSeq)
    BY <1>1, PipelineAssumption DEF TypeOK, Accounts
  <2>2. PICK r \in reorder : r[1] = nextSeq
    BY <1>1, <2>1 DEF NoneLost, InHand, Building
  <2>3. First(reorder) \in reorder /\ First(reorder)[1] <= r[1]
    BY SMTT(30), <2>2, FirstIsLeast
  <2>4. First(reorder)[1] \in Nat /\ nextSeq <= First(reorder)[1]
    BY <2>3 DEF OnePlace, TypeOK, Accounts
  <2>5. First(reorder)[1] = nextSeq
    BY <2>1, <2>2, <2>3, <2>4 DEF Accounts
  <2> QED
    BY <2>2, <2>5 DEF InSeq
<1>3. ASSUME NEW a \in Storage \cap Accounts PROVE a \in db
  <2>1. a < nextSeq
    BY <1>2, PipelineAssumption DEF Accounts
  <2>2. Kept(a)
    BY Zenon, <2>1 DEF RowsKept
  <2> QED
    BY <1>1, <2>2 DEF Kept
<1> QED
  BY <1>2, <1>3

\* No step undoes the completeness of a result, and Finish returns nil only
\* for a complete one.
LEMMA NextComplete ==
    TypeOK /\ Ended /\ OnePlace /\ NoneLost /\ RowsKept /\ OkIsComplete /\ [Next]_vars
    => OkIsComplete'
<1> SUFFICES ASSUME TypeOK, Ended, OnePlace, NoneLost, RowsKept, OkIsComplete, [Next]_vars,
                    result' = "ok", ~ctxDone'
             PROVE  nextSeq' = N /\ Storage \cap Accounts \subseteq db'
  BY DEF OkIsComplete
<1>1. CASE Finish
  <2>1. ~Done /\ ~InSeq(reorder, nextSeq) /\ Joined /\ UNCHANGED <<nextSeq, db>>
    BY <1>1 DEF Finish, Done, stageB, stageC
  <2> QED
    BY <2>1, EndedIsComplete
<1>2. CASE result = "ok"
  <2>1. /\ reader = "done" /\ \A w \in Workers : pc[w] = "exit"
    BY <1>2 DEF Ended, Joined, AllExited
  <2>2. nextSeq' = nextSeq /\ db' = db /\ ~ctxDone
    <3>1. ~Read /\ ~Send /\ ~ReadEnds /\ ~Collect /\ ~Apply /\ ~Finish /\ ~Cancel
      BY <1>2, <2>1 DEF Read, Send, ReadEnds, Collect, Apply, Finish, Cancel
    <3>2. \A w \in Workers : ~Receive(w) /\ ~BuildBranch(w) /\ ~Build(w) /\ ~Exit(w)
      BY Zenon, <2>1 DEF Receive, BuildBranch, Build, Exit, Move
    <3>3. CloseResults \/ UNCHANGED vars
      BY <3>1, <3>2 DEF Next, Runs
    <3> QED
      BY <3>3 DEF CloseResults, vars, stageB, stageC
  <2> QED
    BY <1>2, <2>2 DEF OkIsComplete
<1> QED
  BY Zenon, <1>1, <1>2 DEF Next, Runs, Read, Send, ReadEnds, Receive, BuildBranch, Build, Exit,
          CloseResults, Collect, Apply, Cancel, vars

\* writeState returns nil with a live context only when every account of the
\* sorter is in the trie and every storage row has left the sinks.
THEOREM SuccessIsComplete == Spec => []OkIsComplete
<1>1. Init => OkIsComplete
  BY DEF Init, OkIsComplete
<1> QED
  BY <1>1, NextComplete, EndedHolds, OnePlaceHolds, NoneLostHolds, RowsKeptHolds, PTL DEF Spec

-----------------------------------------------------------------------------
(* Phase 0 within the writer *)

\* What a step of the writer is to Phase 0: one of its own, or one that at
\* most ends the context.
PoolStep ==
    \/ Phase0!PoolRuns \/ Phase0!CancelCtx
    \/ UNCHANGED poolVars /\ ctxDone' \in {ctxDone, TRUE}

\* A row reached the database or waits in some worker's batch.
StreamKept(i, n) == <<i, n>> \in p0Db \/ \E w \in Workers : <<i, n>> \in p0Batch[w]

\* While drainCtx is live every account is somewhere on its way.
StreamAccounted ==
    p0Cause = "none" => \A i \in PreStorage :
        \/ i \in p0Unfed \cup p0DrainCh \cup p0PreparedCh \cup p0Roots
        \/ \E w \in Workers : p0Pc[w] = "work" /\ p0Cur[w] = i

\* The rows an account has written so far are kept: by the worker that is
\* on it, and by anyone once its root is reported.
StreamRowsKept ==
    /\ \A w \in Workers : p0Pc[w] = "work" =>
          /\ p0Cur[w] \in PreStorage
          /\ \A n \in 1..p0Row[w] : <<p0Cur[w], n>> \in p0Db \cup p0Batch[w]
    /\ \A i \in p0PreparedCh \cup p0Roots : \A n \in 1..RowsPerItem : StreamKept(i, n)

\* Without a cause, workers leave only when the input ran out, and with
\* their batch committed.
StreamCleanExit ==
    p0Cause = "none" =>
        /\ p0DrainClosed => p0Unfed = {}
        /\ \A w \in Workers :
              /\ p0Pc[w] \in {"close", "done"} => p0DrainClosed /\ p0DrainCh = {}
              /\ p0Pc[w] = "done" => p0Batch[w] = {}

\* preparedCh is closed behind the last worker, and drained before return.
StreamJoined ==
    /\ p0PreparedClosed => \A w \in Workers : p0Pc[w] = "done"
    /\ p0Verdict # "running" => p0PreparedClosed /\ p0PreparedCh = {}
    /\ p0Verdict = "ok" => p0Cause \in {"none", "canceled"}
    /\ p0Cause = "canceled" => ctxDone

StreamInv ==
    /\ Phase0!PoolTypeOK
    /\ StreamAccounted /\ StreamRowsKept /\ StreamCleanExit /\ StreamJoined

\* Phase 0 starts in the invariant.
LEMMA StreamInitInv == Phase0!Phase0Init => StreamInv
<1> SUFFICES ASSUME Phase0!Phase0Init PROVE StreamInv
  OBVIOUS
<1> USE DEF Phase0!Phase0Init
<1>1. Phase0!PoolTypeOK
  <2>1. p0Row \in [Workers -> 0..RowsPerItem]
    BY PoolAssumption
  <2>2. p0Batch \in [Workers -> SUBSET Phase0!AllRows]
    OBVIOUS
  <2> QED
    BY Zenon, <2>1, <2>2 DEF Phase0!PoolTypeOK
<1>2. StreamAccounted /\ StreamRowsKept
  BY DEF StreamAccounted, StreamRowsKept
<1>3. StreamCleanExit /\ StreamJoined
  BY DEF StreamCleanExit, StreamJoined
<1> QED
  BY <1>1, <1>2, <1>3 DEF StreamInv

\* The type invariant is inductive, given that a working worker has an account.
LEMMA StreamTypeStep == StreamInv /\ PoolStep => Phase0!PoolTypeOK'
<1> SUFFICES ASSUME StreamInv, PoolStep PROVE Phase0!PoolTypeOK'
  OBVIOUS
<1> USE PoolAssumption DEF StreamInv, Phase0!PoolTypeOK,
        StreamRowsKept, Phase0!AllRows, Phase0!DrainCtxDone, Phase0!workerVars
<1>1. ASSUME NEW i \in PreStorage, Phase0!Feed(i) PROVE Phase0!PoolTypeOK'
  BY <1>1 DEF Phase0!Feed
<1>2. CASE Phase0!CloseDrainCh
  BY SMTT(30), <1>2 DEF Phase0!CloseDrainCh, Phase0!FeedEnds
<1>3. ASSUME NEW w \in Workers, Phase0!ReceiveItem(w) PROVE Phase0!PoolTypeOK'
  BY SMTT(30), <1>3 DEF Phase0!ReceiveItem, Phase0!WorkerMoves, Phase0!ErrSeen
<1>4. ASSUME NEW w \in Workers, Phase0!WriteRow(w) PROVE Phase0!PoolTypeOK'
  BY SMTT(30), <1>4 DEF Phase0!WriteRow, Phase0!WorkerMoves, Phase0!MoreRows, Phase0!Rotate
<1>5. ASSUME NEW w \in Workers, Phase0!RootFails(w) PROVE Phase0!PoolTypeOK'
  BY <1>5 DEF Phase0!RootFails, Phase0!WorkerMoves, Phase0!CancelDrainCtx, Phase0!MoreRows
<1>6. ASSUME NEW w \in Workers, Phase0!Report(w) PROVE Phase0!PoolTypeOK'
  BY <1>6 DEF Phase0!Report, Phase0!WorkerMoves
<1>7. ASSUME NEW w \in Workers, Phase0!CloseBatch(w) PROVE Phase0!PoolTypeOK'
  BY <1>7 DEF Phase0!CloseBatch, Phase0!WorkerMoves, Phase0!CancelDrainCtx
<1>8. CASE Phase0!ClosePreparedCh
  BY <1>8 DEF Phase0!ClosePreparedCh, Phase0!WgZero
<1>9. CASE Phase0!Splice
  BY <1>9 DEF Phase0!Splice
<1>10. CASE Phase0!Phase0Returns
  BY <1>10 DEF Phase0!Phase0Returns, Phase0!CauseIsError
<1>12. CASE Phase0!CancelCtx
  BY <1>12 DEF Phase0!CancelCtx, Phase0!CancelDrainCtx
<1>11. CASE UNCHANGED poolVars /\ ctxDone' \in {ctxDone, TRUE}
  BY Zenon, <1>11 DEF poolVars
<1> QED
  BY Zenon, <1>1, <1>2, <1>3, <1>4, <1>5, <1>6, <1>7, <1>8, <1>9, <1>10,
     <1>11, <1>12
  DEF PoolStep, Phase0!PoolRuns, Phase0!FeederStep, Phase0!PoolWorker, Phase0!CollectRoots

\* No step drops an account without a cause.
LEMMA StreamAccountedStep == StreamInv /\ PoolStep => StreamAccounted'
<1> SUFFICES ASSUME StreamInv, PoolStep PROVE StreamAccounted'
  OBVIOUS
<1> USE PoolAssumption DEF StreamInv, Phase0!PoolTypeOK,
        StreamAccounted, Phase0!DrainCtxDone, Phase0!workerVars
<1>1. ASSUME NEW i \in PreStorage, Phase0!Feed(i) PROVE StreamAccounted'
  BY <1>1 DEF Phase0!Feed
<1>2. CASE Phase0!CloseDrainCh
  BY <1>2 DEF Phase0!CloseDrainCh, Phase0!FeedEnds
<1>3. ASSUME NEW w \in Workers, Phase0!ReceiveItem(w) PROVE StreamAccounted'
  BY <1>3 DEF Phase0!ReceiveItem, Phase0!WorkerMoves, Phase0!ErrSeen
<1>4. ASSUME NEW w \in Workers, Phase0!WriteRow(w) PROVE StreamAccounted'
  BY <1>4 DEF Phase0!WriteRow, Phase0!WorkerMoves, Phase0!MoreRows, Phase0!Rotate
<1>5. ASSUME NEW w \in Workers, Phase0!RootFails(w) PROVE StreamAccounted'
  BY <1>5 DEF Phase0!RootFails, Phase0!WorkerMoves, Phase0!CancelDrainCtx, Phase0!MoreRows
<1>6. ASSUME NEW w \in Workers, Phase0!Report(w) PROVE StreamAccounted'
  BY <1>6 DEF Phase0!Report, Phase0!WorkerMoves
<1>7. ASSUME NEW w \in Workers, Phase0!CloseBatch(w) PROVE StreamAccounted'
  BY <1>7 DEF Phase0!CloseBatch, Phase0!WorkerMoves, Phase0!CancelDrainCtx
<1>8. CASE Phase0!ClosePreparedCh
  BY <1>8 DEF Phase0!ClosePreparedCh, Phase0!WgZero
<1>9. CASE Phase0!Splice
  BY <1>9 DEF Phase0!Splice
<1>10. CASE Phase0!Phase0Returns
  BY <1>10 DEF Phase0!Phase0Returns, Phase0!CauseIsError
<1>12. CASE Phase0!CancelCtx
  BY <1>12 DEF Phase0!CancelCtx, Phase0!CancelDrainCtx
<1>11. CASE UNCHANGED poolVars /\ ctxDone' \in {ctxDone, TRUE}
  BY <1>11 DEF poolVars
<1> QED
  BY Zenon, <1>1, <1>2, <1>3, <1>4, <1>5, <1>6, <1>7, <1>8, <1>9, <1>10,
     <1>11, <1>12
  DEF PoolStep, Phase0!PoolRuns, Phase0!FeederStep, Phase0!PoolWorker, Phase0!CollectRoots

\* No step drops a row.
LEMMA StreamRowsStep == StreamInv /\ PoolStep => StreamRowsKept'
<1> SUFFICES ASSUME StreamInv, PoolStep PROVE StreamRowsKept'
  OBVIOUS
<1> USE PoolAssumption DEF StreamInv, Phase0!PoolTypeOK,
        StreamRowsKept, StreamKept, Phase0!DrainCtxDone, Phase0!workerVars
<1>1. ASSUME NEW i \in PreStorage, Phase0!Feed(i) PROVE StreamRowsKept'
  BY <1>1 DEF Phase0!Feed
<1>2. CASE Phase0!CloseDrainCh
  BY SMTT(30), <1>2 DEF Phase0!CloseDrainCh, Phase0!FeedEnds
<1>3. ASSUME NEW w \in Workers, Phase0!ReceiveItem(w) PROVE StreamRowsKept'
  BY SMTT(30), <1>3 DEF Phase0!ReceiveItem, Phase0!WorkerMoves, Phase0!ErrSeen
<1>4. ASSUME NEW w \in Workers, Phase0!WriteRow(w) PROVE StreamRowsKept'
  BY SMTT(30), <1>4 DEF Phase0!WriteRow, Phase0!WorkerMoves, Phase0!MoreRows, Phase0!Rotate
<1>5. ASSUME NEW w \in Workers, Phase0!RootFails(w) PROVE StreamRowsKept'
  BY SMTT(30), <1>5 DEF Phase0!RootFails, Phase0!WorkerMoves, Phase0!CancelDrainCtx, Phase0!MoreRows
<1>6. ASSUME NEW w \in Workers, Phase0!Report(w) PROVE StreamRowsKept'
  BY <1>6 DEF Phase0!Report, Phase0!WorkerMoves
<1>7. ASSUME NEW w \in Workers, Phase0!CloseBatch(w) PROVE StreamRowsKept'
  BY <1>7 DEF Phase0!CloseBatch, Phase0!WorkerMoves, Phase0!CancelDrainCtx
<1>8. CASE Phase0!ClosePreparedCh
  BY <1>8 DEF Phase0!ClosePreparedCh, Phase0!WgZero
<1>9. CASE Phase0!Splice
  BY <1>9 DEF Phase0!Splice
<1>10. CASE Phase0!Phase0Returns
  BY <1>10 DEF Phase0!Phase0Returns, Phase0!CauseIsError
<1>12. CASE Phase0!CancelCtx
  BY <1>12 DEF Phase0!CancelCtx, Phase0!CancelDrainCtx
<1>11. CASE UNCHANGED poolVars /\ ctxDone' \in {ctxDone, TRUE}
  BY <1>11 DEF poolVars
<1> QED
  BY ZenonT(30), <1>1, <1>2, <1>3, <1>4, <1>5, <1>6, <1>7, <1>8, <1>9, <1>10,
     <1>11, <1>12
  DEF PoolStep, Phase0!PoolRuns, Phase0!FeederStep, Phase0!PoolWorker, Phase0!CollectRoots

\* Workers leave cleanly or with a cause.
LEMMA StreamExitStep == StreamInv /\ PoolStep => StreamCleanExit'
<1> SUFFICES ASSUME StreamInv, PoolStep PROVE StreamCleanExit'
  OBVIOUS
<1> USE PoolAssumption DEF StreamInv, Phase0!PoolTypeOK,
        StreamCleanExit, StreamJoined, Phase0!DrainCtxDone, Phase0!workerVars
<1>1. ASSUME NEW i \in PreStorage, Phase0!Feed(i) PROVE StreamCleanExit'
  BY <1>1 DEF Phase0!Feed
<1>2. CASE Phase0!CloseDrainCh
  BY SMTT(30), <1>2 DEF Phase0!CloseDrainCh, Phase0!FeedEnds
<1>3. ASSUME NEW w \in Workers, Phase0!ReceiveItem(w) PROVE StreamCleanExit'
  BY SMTT(30), <1>3 DEF Phase0!ReceiveItem, Phase0!WorkerMoves, Phase0!ErrSeen
<1>4. ASSUME NEW w \in Workers, Phase0!WriteRow(w) PROVE StreamCleanExit'
  BY SMTT(30), <1>4 DEF Phase0!WriteRow, Phase0!WorkerMoves, Phase0!MoreRows, Phase0!Rotate
<1>5. ASSUME NEW w \in Workers, Phase0!RootFails(w) PROVE StreamCleanExit'
  BY SMTT(30), <1>5 DEF Phase0!RootFails, Phase0!WorkerMoves, Phase0!CancelDrainCtx, Phase0!MoreRows
<1>6. ASSUME NEW w \in Workers, Phase0!Report(w) PROVE StreamCleanExit'
  BY SMTT(30), <1>6 DEF Phase0!Report, Phase0!WorkerMoves
<1>7. ASSUME NEW w \in Workers, Phase0!CloseBatch(w) PROVE StreamCleanExit'
  BY <1>7 DEF Phase0!CloseBatch, Phase0!WorkerMoves, Phase0!CancelDrainCtx
<1>8. CASE Phase0!ClosePreparedCh
  BY <1>8 DEF Phase0!ClosePreparedCh, Phase0!WgZero
<1>9. CASE Phase0!Splice
  BY <1>9 DEF Phase0!Splice
<1>10. CASE Phase0!Phase0Returns
  BY <1>10 DEF Phase0!Phase0Returns, Phase0!CauseIsError
<1>12. CASE Phase0!CancelCtx
  BY <1>12 DEF Phase0!CancelCtx, Phase0!CancelDrainCtx
<1>11. CASE UNCHANGED poolVars /\ ctxDone' \in {ctxDone, TRUE}
  BY <1>11 DEF poolVars
<1> QED
  BY ZenonT(30), <1>1, <1>2, <1>3, <1>4, <1>5, <1>6, <1>7, <1>8, <1>9, <1>10,
     <1>11, <1>12
  DEF PoolStep, Phase0!PoolRuns, Phase0!FeederStep, Phase0!PoolWorker, Phase0!CollectRoots

\* The pool is joined before it returns.
LEMMA StreamJoinStep == StreamInv /\ PoolStep => StreamJoined'
<1> SUFFICES ASSUME StreamInv, PoolStep PROVE StreamJoined'
  OBVIOUS
<1> USE PoolAssumption DEF StreamInv, Phase0!PoolTypeOK,
        StreamJoined, Phase0!DrainCtxDone, Phase0!workerVars
<1>1. ASSUME NEW i \in PreStorage, Phase0!Feed(i) PROVE StreamJoined'
  BY <1>1 DEF Phase0!Feed
<1>2. CASE Phase0!CloseDrainCh
  BY SMTT(30), <1>2 DEF Phase0!CloseDrainCh, Phase0!FeedEnds
<1>3. ASSUME NEW w \in Workers, Phase0!ReceiveItem(w) PROVE StreamJoined'
  BY SMTT(30), <1>3 DEF Phase0!ReceiveItem, Phase0!WorkerMoves, Phase0!ErrSeen
<1>4. ASSUME NEW w \in Workers, Phase0!WriteRow(w) PROVE StreamJoined'
  BY SMTT(30), <1>4 DEF Phase0!WriteRow, Phase0!WorkerMoves, Phase0!MoreRows, Phase0!Rotate
<1>5. ASSUME NEW w \in Workers, Phase0!RootFails(w) PROVE StreamJoined'
  BY <1>5 DEF Phase0!RootFails, Phase0!WorkerMoves, Phase0!CancelDrainCtx, Phase0!MoreRows
<1>6. ASSUME NEW w \in Workers, Phase0!Report(w) PROVE StreamJoined'
  BY <1>6 DEF Phase0!Report, Phase0!WorkerMoves
<1>7. ASSUME NEW w \in Workers, Phase0!CloseBatch(w) PROVE StreamJoined'
  BY <1>7 DEF Phase0!CloseBatch, Phase0!WorkerMoves, Phase0!CancelDrainCtx
<1>8. CASE Phase0!ClosePreparedCh
  BY <1>8 DEF Phase0!ClosePreparedCh, Phase0!WgZero
<1>9. CASE Phase0!Splice
  BY <1>9 DEF Phase0!Splice
<1>10. CASE Phase0!Phase0Returns
  BY <1>10 DEF Phase0!Phase0Returns, Phase0!CauseIsError
<1>12. CASE Phase0!CancelCtx
  BY <1>12 DEF Phase0!CancelCtx, Phase0!CancelDrainCtx
<1>11. CASE UNCHANGED poolVars /\ ctxDone' \in {ctxDone, TRUE}
  BY Zenon, <1>11 DEF poolVars
<1> QED
  BY ZenonT(30), <1>1, <1>2, <1>3, <1>4, <1>5, <1>6, <1>7, <1>8, <1>9, <1>10,
     <1>11, <1>12
  DEF PoolStep, Phase0!PoolRuns, Phase0!FeederStep, Phase0!PoolWorker, Phase0!CollectRoots

\* No step of the writer breaks the invariant of Phase 0.
LEMMA StreamIndStep == StreamInv /\ PoolStep => StreamInv'
BY StreamTypeStep, StreamAccountedStep, StreamRowsStep, StreamExitStep, StreamJoinStep DEF StreamInv

\* A verdict without a cause is a complete one.
LEMMA StreamComplete ==
    ASSUME StreamInv, p0Verdict # "running", p0Cause = "none"
    PROVE  p0Roots = PreStorage /\ p0Db = Phase0!AllRows
<1> USE DEF StreamInv
<1>1. \A w \in Workers : p0Pc[w] = "done" /\ p0Batch[w] = {}
  BY ZenonT(30) DEF StreamJoined, StreamCleanExit
<1>2. p0Unfed = {} /\ p0DrainCh = {} /\ p0PreparedCh = {}
  BY <1>1, PoolAssumption DEF StreamJoined, StreamCleanExit
<1>3. p0Roots = PreStorage
  BY SMTT(30), <1>1, <1>2 DEF StreamAccounted, Phase0!PoolTypeOK
<1>4. Phase0!AllRows \subseteq p0Db
  BY <1>1, <1>3 DEF StreamRowsKept, StreamKept, Phase0!AllRows
<1> QED
  BY Zenon, <1>3, <1>4 DEF Phase0!PoolTypeOK

-----------------------------------------------------------------------------
(* Phase 1 within the writer *)

\* What a step of the writer is to Phase 1.
SpillStep ==
    \/ Phase1!Runs
    \/ UNCHANGED p1Vars /\ ctxDone' \in {ctxDone, TRUE}

SpillTypeOK ==
    /\ p1Drawn \in 0 .. N /\ p1Batch \subseteq Phase1!Draws
    /\ p1Drawer \in {"draw", "send", "join", "back"}
    /\ p1DrawCh \subseteq SUBSET Phase1!Draws /\ p1DrawClosed \in BOOLEAN
    /\ p1Enc \in [Workers -> SUBSET Phase1!Draws] /\ p1EncDone \subseteq Workers
    /\ p1BlobCh \subseteq SUBSET Phase1!Draws /\ p1BlobClosed \in BOOLEAN
    /\ p1Puts \subseteq Phase1!Draws /\ p1PutDone \in BOOLEAN /\ p1Sorter \subseteq Phase1!Draws
    /\ p1Err \in BOOLEAN /\ ctxDone \in BOOLEAN
    /\ p1Result \in {"none", "ok", "err"}

\* Where an entity may be: in a batch, a channel, a worker's or the Put
\* goroutine's hand, or the store.
InPipeline(i) ==
    \/ i \in p1Batch \/ i \in p1Puts \/ i \in p1Sorter
    \/ \E b \in p1DrawCh : i \in b
    \/ \E b \in p1BlobCh : i \in b
    \/ \E w \in Workers : i \in p1Enc[w]

\* While p1Ctx is live no entity drawn is lost.
NoEntityLost == ~Phase1!Done => \A i \in Phase1!Draws : i < p1Drawn => InPipeline(i)

\* The goroutines end one after the other, each behind an empty channel.
SpillEnded ==
    /\ p1Drawer \in {"join", "back"} <=> p1DrawClosed
    /\ p1DrawClosed => p1Batch = {} \/ Phase1!Done
    /\ p1DrawClosed => p1Drawn = N \/ Phase1!Done
    /\ \A w \in p1EncDone : p1DrawClosed /\ p1DrawCh = {} /\ p1Enc[w] = {}
    /\ p1BlobClosed => p1EncDone = Workers
    /\ p1PutDone => p1BlobClosed /\ p1BlobCh = {} /\ p1Puts = {}

SpillInv == SpillTypeOK /\ NoEntityLost /\ SpillEnded

\* Phase 1 starts in the invariant.
LEMMA SpillInitInv == Phase1!Init => SpillInv
<1> SUFFICES ASSUME Phase1!Init PROVE SpillInv
  OBVIOUS
<1>1. SpillTypeOK
  <2>1. p1Enc \in [Workers -> SUBSET Phase1!Draws]
    BY DEF Phase1!Init
  <2>2. p1Drawn \in 0 .. N
    BY PipelineAssumption DEF Phase1!Init
  <2> QED
    BY Zenon, <2>1, <2>2 DEF Phase1!Init, SpillTypeOK
<1>2. NoEntityLost
  BY DEF Phase1!Init, NoEntityLost, Phase1!Draws
<1>3. SpillEnded
  BY DEF Phase1!Init, SpillEnded
<1> QED
  BY <1>1, <1>2, <1>3 DEF SpillInv

\* The types hold.
LEMMA SpillTypeStep == SpillInv /\ SpillStep => SpillTypeOK'
<1> SUFFICES ASSUME SpillInv, SpillStep PROVE SpillTypeOK'
  OBVIOUS
<1> USE PipelineAssumption DEF SpillInv, SpillTypeOK, Phase1!Draws, Phase1!drawVars,
        Phase1!encVars, Phase1!putVars
<1>1. CASE Phase1!Draw
  BY <1>1 DEF Phase1!Draw, Phase1!BatchFull, Phase1!Done
<1>2. CASE Phase1!SendBatch
  BY Zenon, <1>2 DEF Phase1!SendBatch, Phase1!Done
<1>3. CASE Phase1!DrawEnds
  BY Zenon, <1>3 DEF Phase1!DrawEnds, Phase1!TailPending, Phase1!ClosesDraw, Phase1!Done
<1>4. ASSUME NEW w \in Workers, Phase1!TakeBatch(w) PROVE SpillTypeOK'
  BY SMTT(30), <1>4 DEF Phase1!TakeBatch, Phase1!Done
<1>5. ASSUME NEW w \in Workers, Phase1!Encode(w) PROVE SpillTypeOK'
  <2>1. p1BlobCh' \subseteq SUBSET Phase1!Draws
    <3>1. p1Enc[w] \in SUBSET Phase1!Draws
      OBVIOUS
    <3>2. p1BlobCh' \subseteq p1BlobCh \cup {p1Enc[w]}
      BY <1>5 DEF Phase1!Encode
    <3> QED
      BY <3>1, <3>2 DEF SpillInv, SpillTypeOK
  <2>2. p1Enc' \in [Workers -> SUBSET Phase1!Draws]
    BY <1>5 DEF Phase1!Encode
  <2> QED
    BY <1>5, <2>1, <2>2 DEF Phase1!Encode
<1>6. ASSUME NEW w \in Workers, Phase1!EncodeEnds(w) PROVE SpillTypeOK'
  BY <1>6 DEF Phase1!EncodeEnds
<1>7. CASE Phase1!CloseBlobs
  BY <1>7 DEF Phase1!CloseBlobs, Phase1!WorkersDone
<1>8. CASE Phase1!TakeBlobs
  BY Zenon, <1>8 DEF Phase1!TakeBlobs, Phase1!Done
<1>9. CASE Phase1!Put
  BY ZenonT(30), <1>9 DEF Phase1!Put
<1>10. CASE Phase1!PutEnds
  BY <1>10 DEF Phase1!PutEnds
<1>11. CASE Phase1!Return
  BY <1>11 DEF Phase1!Return, Phase1!FinalError
<1>12. CASE UNCHANGED p1Vars /\ ctxDone' \in {ctxDone, TRUE}
  BY ZenonT(30), <1>12 DEF p1Vars
<1> QED
  BY ZenonT(30), <1>1, <1>2, <1>3, <1>4, <1>5, <1>6, <1>7, <1>8, <1>9, <1>10, <1>11, <1>12
  DEF SpillStep, Phase1!Runs

\* No step drops an entity while p1Ctx is live.
LEMMA SpillLostStep == SpillInv /\ SpillStep => NoEntityLost'
<1> SUFFICES ASSUME SpillInv, SpillStep PROVE NoEntityLost'
  OBVIOUS
<1> USE PipelineAssumption DEF SpillInv, SpillTypeOK, NoEntityLost, SpillEnded, InPipeline,
        Phase1!Done, Phase1!drawVars, Phase1!encVars, Phase1!putVars
<1>1. CASE Phase1!Draw
  <2>1. \A i \in Phase1!Draws : i < p1Drawn' => i < p1Drawn \/ i = p1Drawn
    BY <1>1 DEF Phase1!Draw, Phase1!Draws
  <2>2. p1Drawn \in p1Batch' /\ p1Batch \subseteq p1Batch'
    BY <1>1 DEF Phase1!Draw
  <2> QED
    BY SMTT(30), <1>1, <2>1, <2>2 DEF Phase1!Draw
<1>2. CASE Phase1!SendBatch
  BY <1>2 DEF Phase1!SendBatch, Phase1!Done
<1>3. CASE Phase1!DrawEnds
  BY SMTT(30), <1>3 DEF Phase1!DrawEnds, Phase1!TailPending, Phase1!ClosesDraw, Phase1!Done
<1>4. ASSUME NEW w \in Workers, Phase1!TakeBatch(w) PROVE NoEntityLost'
  BY SMTT(30), <1>4 DEF Phase1!TakeBatch, Phase1!Done
<1>5. ASSUME NEW w \in Workers, Phase1!Encode(w) PROVE NoEntityLost'
  BY <1>5 DEF Phase1!Encode, Phase1!Done
<1>6. ASSUME NEW w \in Workers, Phase1!EncodeEnds(w) PROVE NoEntityLost'
  BY <1>6 DEF Phase1!EncodeEnds
<1>7. CASE Phase1!CloseBlobs
  BY <1>7 DEF Phase1!CloseBlobs, Phase1!WorkersDone
<1>8. CASE Phase1!TakeBlobs
  BY <1>8 DEF Phase1!TakeBlobs, Phase1!Done
<1>9. CASE Phase1!Put
  BY <1>9 DEF Phase1!Put
<1>10. CASE Phase1!PutEnds
  BY <1>10 DEF Phase1!PutEnds
<1>11. CASE Phase1!Return
  BY <1>11 DEF Phase1!Return, Phase1!FinalError
<1>12. CASE UNCHANGED p1Vars /\ ctxDone' \in {ctxDone, TRUE}
  BY Zenon, <1>12 DEF p1Vars
<1> QED
  BY Zenon, <1>1, <1>2, <1>3, <1>4, <1>5, <1>6, <1>7, <1>8, <1>9, <1>10, <1>11, <1>12
  DEF SpillStep, Phase1!Runs

\* No goroutine ends before the one that feeds it.
LEMMA SpillEndStep == SpillInv /\ SpillStep => SpillEnded'
<1> SUFFICES ASSUME SpillInv, SpillStep PROVE SpillEnded'
  OBVIOUS
<1> USE PipelineAssumption DEF SpillInv, SpillTypeOK, SpillEnded, Phase1!Done, Phase1!drawVars,
        Phase1!encVars, Phase1!putVars
<1>1. CASE Phase1!Draw
  BY SMTT(30), <1>1 DEF Phase1!Draw, Phase1!BatchFull, Phase1!Done
<1>2. CASE Phase1!SendBatch
  BY <1>2 DEF Phase1!SendBatch, Phase1!Done
<1>3. CASE Phase1!DrawEnds
  BY <1>3 DEF Phase1!DrawEnds, Phase1!TailPending, Phase1!ClosesDraw, Phase1!Done
<1>4. ASSUME NEW w \in Workers, Phase1!TakeBatch(w) PROVE SpillEnded'
  BY SMTT(30), <1>4 DEF Phase1!TakeBatch, Phase1!Done
<1>5. ASSUME NEW w \in Workers, Phase1!Encode(w) PROVE SpillEnded'
  BY SMTT(30), <1>5 DEF Phase1!Encode, Phase1!Done
<1>6. ASSUME NEW w \in Workers, Phase1!EncodeEnds(w) PROVE SpillEnded'
  BY <1>6 DEF Phase1!EncodeEnds
<1>7. CASE Phase1!CloseBlobs
  BY <1>7 DEF Phase1!CloseBlobs, Phase1!WorkersDone
<1>8. CASE Phase1!TakeBlobs
  BY SMTT(30), <1>8 DEF Phase1!TakeBlobs, Phase1!Done
<1>9. CASE Phase1!Put
  BY <1>9 DEF Phase1!Put
<1>10. CASE Phase1!PutEnds
  BY <1>10 DEF Phase1!PutEnds
<1>11. CASE Phase1!Return
  BY <1>11 DEF Phase1!Return, Phase1!FinalError
<1>12. CASE UNCHANGED p1Vars /\ ctxDone' \in {ctxDone, TRUE}
  BY Zenon, <1>12 DEF p1Vars
<1> QED
  BY ZenonT(30), <1>1, <1>2, <1>3, <1>4, <1>5, <1>6, <1>7, <1>8, <1>9, <1>10, <1>11, <1>12
  DEF SpillStep, Phase1!Runs

\* No step of the writer breaks the invariant of Phase 1.
LEMMA SpillIndStep == SpillInv /\ SpillStep => SpillInv'
BY SpillTypeStep, SpillLostStep, SpillEndStep DEF SpillInv

-----------------------------------------------------------------------------
(* The phases together *)

\* Each phase starts when the one before has returned nil, and Phase 1 does so
\* only when Phase 0 is complete: a Phase 0 that was cancelled returns nil too,
\* but then Phase 1 sees the same context.
Chain ==
    /\ p0Assigned \in BOOLEAN
    /\ ~p0Assigned => p0Verdict = "running"
    /\ p1Result # "none" => p0Verdict = "ok" /\ p1Drawer = "back"
    /\ p1Result = "ok" =>
          p1Sorter = Phase1!Draws /\ p0Roots = PreStorage /\ p0Db = Phase0!AllRows
    /\ result # "none" => p1Result = "ok"

\* The invariant of Phase 2, and of all three.
Phase2Inv == TypeOK /\ Ended /\ IdsInv /\ OnePlace /\ NoneLost /\ RowsKept /\ OkIsComplete
WriterInv == Phase2Inv /\ StreamInv /\ SpillInv /\ Chain

\* What a step of the writer is to Phase 2: one of its own, or one that takes
\* IDs for Phase 0.
Phase0Takes == AssignStoIDs \/ \E w \in Workers : StreamBranch(w)
Phase2Step == [Next]_vars \/ Phase0Takes

\* No step of the Phase-0 pool ends the context.
LEMMA PoolKeepsContext == Phase0!PoolRuns => ctxDone' = ctxDone
BY ZenonT(30) DEF Phase0!PoolRuns, Phase0!FeederStep, Phase0!PoolWorker, Phase0!CollectRoots,
       Phase0!Feed, Phase0!CloseDrainCh, Phase0!ReceiveItem, Phase0!WriteRow,
       Phase0!RootFails, Phase0!Report, Phase0!CloseBatch, Phase0!ClosePreparedCh,
       Phase0!Splice, Phase0!Phase0Returns

\* No step of Phase 1 ends the context.
LEMMA SpillKeepsContext == Phase1!Runs => ctxDone' = ctxDone
BY DEF Phase1!Runs, Phase1!Draw, Phase1!SendBatch, Phase1!DrawEnds, Phase1!TakeBatch,
       Phase1!Encode, Phase1!EncodeEnds, Phase1!CloseBlobs, Phase1!TakeBlobs, Phase1!Put,
       Phase1!PutEnds, Phase1!Return

\* No step of Phase 2 but the caller's ends the context.
LEMMA RunsKeepContext == Runs => ctxDone' = ctxDone
BY Zenon DEF Runs, Read, Send, ReadEnds, Receive, BuildBranch, Build, Exit, CloseResults, Collect,
       Apply, Finish

\* A step of the writer is a step of one phase and leaves the others alone, but
\* for the context and the allocator.
LEMMA WriterStepIs ==
    ASSUME [WriterNext]_writerVars
    PROVE  /\ PoolStep /\ SpillStep /\ Phase2Step
           /\ Phase0Takes => UNCHANGED <<stages, ctxDone, poolVars, p1Vars>>
<1>1. CASE AssignStoIDs
  BY Zenon, <1>1 DEF AssignStoIDs, PoolStep, SpillStep, Phase2Step, Phase0Takes, StreamBranch, p0Vars
<1>2. CASE \E w \in Workers : StreamBranch(w)
  BY Zenon, <1>2 DEF AssignStoIDs, PoolStep, SpillStep, Phase2Step, Phase0Takes, StreamBranch, p0Vars
<1>3. Phase0Takes => UNCHANGED <<stages, ctxDone, poolVars, p1Vars>>
  BY Zenon DEF Phase0Takes, AssignStoIDs, StreamBranch, p0Vars
<1>4. CASE Phase0!PoolRuns /\ UNCHANGED <<p0Assigned, p1Vars, p2Vars>>
  <2>1. UNCHANGED vars
    BY <1>4, PoolKeepsContext DEF p2Vars, stages, vars
  <2> QED
    BY <1>3, <1>4, <2>1 DEF PoolStep, SpillStep, Phase2Step, vars
<1>5. CASE Phase1!Runs /\ UNCHANGED <<p0Vars, p2Vars>>
  <2>1. UNCHANGED vars
    BY <1>5, SpillKeepsContext DEF p2Vars, stages, vars
  <2> QED
    BY <1>3, <1>5, <2>1 DEF PoolStep, SpillStep, Phase2Step, vars, p0Vars
<1>6. CASE Runs /\ UNCHANGED <<p0Vars, p1Vars>>
  BY <1>3, <1>6, RunsKeepContext DEF PoolStep, SpillStep, Phase2Step, Next, p0Vars
<1>7. CASE WriterCancelled
  <2>1. Cancel /\ ctxDone' = TRUE
    BY <1>7 DEF WriterCancelled, Cancel
  <2> QED
    BY Zenon, <1>3, <1>7, <2>1 DEF WriterCancelled, PoolStep, SpillStep, Phase2Step, Next
<1>8. CASE UNCHANGED writerVars
  <2>1. UNCHANGED vars /\ UNCHANGED poolVars /\ UNCHANGED p1Vars /\ ctxDone' = ctxDone
    BY <1>8 DEF writerVars, vars, p0Vars
  <2> QED
    BY <1>3, <2>1 DEF PoolStep, SpillStep, Phase2Step
<1> QED
  BY <1>1, <1>2, <1>3, <1>4, <1>5, <1>6, <1>7, <1>8 DEF WriterNext, WriterRuns

\* The initial state satisfies the invariant.
LEMMA WriterInitInv == WriterInit => WriterInv
<1> SUFFICES ASSUME WriterInit PROVE WriterInv
  OBVIOUS
<1>1. Init /\ Phase0!Phase0Init /\ Phase1!Init /\ p0Assigned = FALSE
  BY DEF WriterInit
<1>2. TypeOK
  BY <1>1, InitType
<1>3. Ended
  BY <1>1 DEF Init, Ended
<1>4. IdsInv
  BY <1>1, PipelineAssumption DEF Init, IdsInv, IdsDisjoint
<1>5. OnePlace
  BY <1>1 DEF Init, OnePlace, InHand, Building
<1>6. NoneLost /\ RowsKept /\ OkIsComplete
  BY <1>1 DEF Init, NoneLost, RowsKept, OkIsComplete, Accounts
<1>7. Chain
  BY Zenon, <1>1 DEF Init, Phase0!Phase0Init, Phase1!Init, Chain
<1> QED
  BY <1>1, <1>2, <1>3, <1>4, <1>5, <1>6, <1>7, StreamInitInv, SpillInitInv
  DEF Phase2Inv, WriterInv

\* The accounts of Phase 0 have different ranks, from one to their number.
LEMMA RankOfStreamed ==
    /\ IsFiniteSet(PreStorage) /\ Cardinality(PreStorage) \in Nat
    /\ \A a \in PreStorage : Rank(a) \in 1 .. Cardinality(PreStorage)
    /\ \A a, b \in PreStorage : a < b => Rank(a) < Rank(b)
<1> DEFINE Upto(a) == {b \in PreStorage : b <= a}
<1>1. IsFiniteSet(PreStorage) /\ PreStorage \subseteq Int
  <2>1. IsFiniteSet(0 .. N - 1)
    BY PipelineAssumption, FS_Interval
  <2>2. PreStorage \subseteq 0 .. N - 1
    BY PreStorageAssumption DEF Accounts
  <2>3. IsFiniteSet(PreStorage)
    BY Zenon, <2>1, <2>2, FS_Subset
  <2> QED
    BY <2>2, <2>3
<1>2. \A a : IsFiniteSet(Upto(a)) /\ Cardinality(Upto(a)) \in Nat
             /\ Cardinality(Upto(a)) <= Cardinality(PreStorage)
  BY <1>1, FS_Subset, FS_CardinalityType
<1>3. \A a \in PreStorage : Cardinality(Upto(a)) # 0
  BY <1>1, <1>2, FS_EmptySet
<1>4. ASSUME NEW a \in PreStorage, NEW b \in PreStorage, a < b
      PROVE  Cardinality(Upto(a)) < Cardinality(Upto(b))
  <2>1. a \in Int /\ b \in Int
    BY <1>1
  <2>2. Upto(a) \subseteq Upto(b) /\ b \in Upto(b) /\ b \notin Upto(a)
    <3>1. \A x \in PreStorage : x \in Int /\ (x <= a => x <= b)
      BY <1>1, <1>4, <2>1
    <3>2. b <= b /\ ~(b <= a)
      BY <1>4, <2>1
    <3> QED
      BY <3>1, <3>2
  <2>3. Upto(a) # Upto(b)
    BY <2>2
  <2> HIDE DEF Upto
  <2>4. Cardinality(Upto(a)) <= Cardinality(Upto(b))
        /\ (Cardinality(Upto(a)) = Cardinality(Upto(b)) => Upto(a) = Upto(b))
    BY <1>2, <2>2, FS_Subset
  <2> QED
    BY <1>2, <2>3, <2>4
<1>5. Cardinality(PreStorage) \in Nat
  BY <1>1, FS_CardinalityType
<1>6. \A a : Rank(a) = Cardinality(Upto(a))
  BY DEF Rank
<1> HIDE DEF Upto
<1> QED
  BY <1>1, <1>2, <1>3, <1>4, <1>5, <1>6

\* The IDs assigned to the streamed storage tries follow one another above top.
LEMMA AssignIds ==
    ASSUME TypeOK, IdsInv, AssignStoIDs, result # "ok"
    PROVE  TypeOK' /\ IdsInv'
<1> DEFINE C == Cardinality(PreStorage)
           New(a) == <<a, top + Rank(a), 1>>
<1>1. C \in Nat /\ top \in Nat /\ FirstDynamic \in Nat \ {0}
  BY RankOfStreamed, PipelineAssumption DEF TypeOK
<1>2. \A a \in PreStorage : Rank(a) \in Nat \ {0} /\ Rank(a) <= C
  BY RankOfStreamed, <1>1
<1>3. \A a \in PreStorage : FirstId(top + Rank(a), 1) = top + Rank(a)
  BY <1>1, <1>2 DEF FirstId
<1>4. top' = top + C /\ ids' = ids \cup {New(a) : a \in PreStorage}
  BY SMTT(30), <1>3 DEF AssignStoIDs
<1>5. UNCHANGED <<vTop, result, next, reader, workCh, workClosed, pc, cur, sink, db, resultCh,
                  resultClosed, reorder, nextSeq, writerErr, firstErr, ctxDone>>
  BY SMTT(30) DEF AssignStoIDs, stages, stageA, stageB, stageC, results
<1>6. \A e \in ids : e[2] \in Nat /\ e[3] \in Nat \ {0}
  BY PipelineAssumption DEF TypeOK
<1>7. \A a \in PreStorage : New(a)[1] = a /\ New(a)[2] = top + Rank(a) /\ New(a)[3] = 1
  OBVIOUS
<1>8. \A e \in ids' : e \in ids \/ \E a \in PreStorage : e = New(a)
  BY <1>4
<1>9. \A a \in PreStorage : New(a) \in (Accounts \cup {NoAccount}) \X Nat \X {1, Block}
  BY SMTT(30), <1>1, <1>2, PreStorageAssumption
<1>10. TypeOK'
  <2>1. top' \in Nat
    BY <1>1, <1>4
  <2>2. ids \subseteq (Accounts \cup {NoAccount}) \X Nat \X {1, Block}
    BY DEF TypeOK
  <2>3. ids' \subseteq (Accounts \cup {NoAccount}) \X Nat \X {1, Block}
    BY Zenon, <1>8, <1>9, <2>2
  <2> QED
    BY SMTT(30), <1>5, <2>1, <2>3 DEF TypeOK
<1> HIDE DEF New, C
<1>11. FirstDynamic - 1 <= top'
  BY <1>1, <1>4 DEF IdsInv
<1>12. \A e \in ids' : FirstDynamic <= e[2] /\ e[2] + e[3] - 1 <= top'
  <2> SUFFICES ASSUME NEW e \in ids' PROVE FirstDynamic <= e[2] /\ e[2] + e[3] - 1 <= top'
    OBVIOUS
  <2>1. CASE e \in ids
    BY <1>1, <1>4, <1>6, <2>1 DEF IdsInv
  <2>2. ASSUME NEW a \in PreStorage, e = New(a)
        PROVE  FirstDynamic <= e[2] /\ e[2] + e[3] - 1 <= top'
    BY <1>1, <1>2, <1>4, <1>7, <2>2 DEF IdsInv
  <2> QED
    BY <1>8, <2>1, <2>2
<1>13. ASSUME NEW d \in ids', NEW e \in ids', d # e
       PROVE  d[2] + d[3] <= e[2] \/ e[2] + e[3] <= d[2]
  <2>1. CASE d \in ids /\ e \in ids
    BY <1>13, <2>1 DEF IdsInv, IdsDisjoint
  <2>2. ASSUME d \in ids, NEW a \in PreStorage, e = New(a)
        PROVE  d[2] + d[3] <= e[2]
    BY <1>1, <1>2, <1>6, <1>7, <2>2 DEF IdsInv
  <2>3. ASSUME e \in ids, NEW a \in PreStorage, d = New(a)
        PROVE  e[2] + e[3] <= d[2]
    BY <1>1, <1>2, <1>6, <1>7, <2>3 DEF IdsInv
  <2>4. ASSUME NEW a \in PreStorage, NEW b \in PreStorage, d = New(a), e = New(b)
        PROVE  d[2] + d[3] <= e[2] \/ e[2] + e[3] <= d[2]
    <3>1. a # b /\ a \in Int /\ b \in Int
      BY <1>13, <2>4, PreStorageAssumption DEF Accounts
    <3>2. Rank(a) < Rank(b) \/ Rank(b) < Rank(a)
      BY SMTT(30), <3>1, RankOfStreamed
    <3> QED
      BY <1>1, <1>2, <1>7, <2>4, <3>2
  <2> QED
    BY <1>8, <2>1, <2>2, <2>3, <2>4
<1> QED
  BY SMTT(30), <1>5, <1>10, <1>11, <1>12, <1>13 DEF IdsInv, IdsDisjoint

\* A worker of the pool that is building has an account, and Phase 0 has not
\* returned.
LEMMA StreamingIsEarly ==
    ASSUME StreamInv, Chain, NEW w \in Workers, p0Pc[w] = "work"
    PROVE  p0Cur[w] \in PreStorage /\ result = "none"
<1>1. p0Cur[w] \in PreStorage
  BY DEF StreamInv, StreamRowsKept
<1>2. p0Verdict = "running"
  BY DEF StreamInv, StreamJoined
<1> QED
  BY <1>1, <1>2 DEF Chain

\* Taking IDs for Phase 0 keeps the types and the blocks of IDs.
LEMMA TakesIds ==
    ASSUME TypeOK, IdsInv, StreamInv, Chain, Phase0Takes
    PROVE  TypeOK' /\ IdsInv'
<1>1. CASE AssignStoIDs
  <2>1. result = "none"
    BY <1>1 DEF AssignStoIDs, Chain
  <2> QED
    BY <1>1, <2>1, AssignIds
<1>2. ASSUME NEW w \in Workers, StreamBranch(w) PROVE TypeOK' /\ IdsInv'
  <2>1. p0Cur[w] \in Accounts \cup {NoAccount} /\ result = "none"
    BY <1>2, StreamingIsEarly, PreStorageAssumption DEF StreamBranch
  <2>2. Alloc(p0Cur[w], Block) /\ UNCHANGED <<stages, ctxDone>>
    BY <1>2 DEF StreamBranch
  <2>3. /\ top' \in Nat /\ vTop' \in Nat
        /\ ids' \subseteq (Accounts \cup {NoAccount}) \X Nat \X {1, Block}
    BY <2>1, <2>2, AllocType
  <2>4. UNCHANGED <<result, next, reader, workCh, workClosed, pc, cur, sink, db, resultCh,
                    resultClosed, reorder, nextSeq, writerErr, firstErr, ctxDone>>
    BY SMTT(30), <2>2 DEF stages, stageA, stageB, stageC, results
  <2>5. TypeOK'
    BY <2>3, <2>4 DEF TypeOK
  <2>6. IdsInv'
    BY <2>1, <2>2, <2>4, AllocIds
  <2> QED
    BY SMTT(30), <2>5, <2>6
<1> QED
  BY <1>1, <1>2 DEF Phase0Takes

\* The invariant of Phase 2 survives every step of the writer.
LEMMA Phase2Ind ==
    ASSUME Phase2Inv, StreamInv, Chain, [WriterNext]_writerVars
    PROVE  Phase2Inv'
<1>1. CASE [Next]_vars
  <2>1. TypeOK'
    BY <1>1, NextType DEF Phase2Inv
  <2>2. Ended'
    BY <1>1, <2>1, NextEnded DEF Phase2Inv
  <2>3. IdsInv'
    BY <1>1, NextIds DEF Phase2Inv
  <2>4. OnePlace'
    BY <1>1, <2>1, NextOnePlace DEF Phase2Inv
  <2>5. NoneLost'
    BY <1>1, <2>1, NextNoneLost DEF Phase2Inv
  <2>6. RowsKept'
    BY <1>1, <2>1, NextRowsKept DEF Phase2Inv
  <2>7. OkIsComplete'
    BY <1>1, NextComplete DEF Phase2Inv
  <2> QED
    BY <2>1, <2>2, <2>3, <2>4, <2>5, <2>6, <2>7 DEF Phase2Inv
<1>2. CASE Phase0Takes
  <2>1. TypeOK' /\ IdsInv'
    BY <1>2, TakesIds DEF Phase2Inv
  <2>2. UNCHANGED <<next, reader, workCh, workClosed, pc, cur, sink, db, resultCh, resultClosed,
                    reorder, nextSeq, writerErr, firstErr, ctxDone, result>>
    BY SMTT(30), <1>2, WriterStepIs DEF stages, stageA, stageB, stageC, results
  <2>3. Ended'
    BY <2>2 DEF Phase2Inv, Ended, Done, AllExited, Joined
  <2>4. OnePlace'
    BY Zenon, <2>2 DEF Phase2Inv, OnePlace, InHand, Building
  <2>5. NoneLost' /\ RowsKept'
    BY Zenon, <2>2 DEF Phase2Inv, NoneLost, RowsKept, Done, InHand, Building, Kept
  <2>6. OkIsComplete'
    BY <2>2 DEF Phase2Inv, OkIsComplete
  <2> QED
    BY <2>1, <2>3, <2>4, <2>5, <2>6 DEF Phase2Inv
<1> QED
  BY <1>1, <1>2, WriterStepIs DEF Phase2Step

\* The pool takes back no root and no row, and its verdict is final.
LEMMA PoolOnlyAdds ==
    ASSUME StreamInv, PoolStep
    PROVE  /\ p0Roots \subseteq p0Roots' /\ p0Db \subseteq p0Db'
           /\ p0Verdict # "running" => p0Verdict' = p0Verdict
BY Zenon DEF PoolStep, poolVars, Phase0!PoolRuns, Phase0!FeederStep, Phase0!PoolWorker,
       Phase0!CollectRoots, Phase0!Feed, Phase0!CloseDrainCh, Phase0!ReceiveItem,
       Phase0!WriteRow, Phase0!Rotate, Phase0!RootFails, Phase0!Report, Phase0!CloseBatch,
       Phase0!ClosePreparedCh, Phase0!Splice, Phase0!Phase0Returns, Phase0!CancelCtx

\* The spill store loses nothing, and Phase 1 returns once: with nil only if
\* every entity is in the store and the context is alive.
LEMMA SpillReturns ==
    ASSUME SpillInv, SpillStep
    PROVE  /\ p1Sorter \subseteq p1Sorter'
           /\ p1Drawer = "back" => p1Drawer' = "back" /\ p1Result' = p1Result
           /\ \/ p1Result' = p1Result
              \/ /\ Phase1!Runs /\ p1Drawer' = "back"
                 /\ p1Result' = "ok" => p1Sorter' = Phase1!Draws /\ ~ctxDone
<1> USE DEF Phase1!putVars, Phase1!drawVars
<1>1. CASE Phase1!Return
  <2>1. /\ p1Drawer = "join" /\ p1PutDone /\ p1Drawer' = "back" /\ p1Sorter' = p1Sorter
        /\ p1Result' = IF Phase1!FinalError THEN "err" ELSE "ok"
    BY <1>1 DEF Phase1!Return
  <2>2. ASSUME p1Result' = "ok" PROVE p1Sorter = Phase1!Draws /\ ~ctxDone
    <3>1. ~Phase1!Done /\ ~ctxDone
      BY SMTT(30), <2>1, <2>2 DEF Phase1!FinalError, Phase1!Done
    <3>2. /\ p1Drawn = N /\ p1Batch = {} /\ p1Puts = {} /\ p1DrawCh = {} /\ p1BlobCh = {}
          /\ \A w \in Workers : p1Enc[w] = {}
      BY <2>1, <3>1, PoolAssumption DEF SpillInv, SpillEnded
    <3>3. \A i \in Phase1!Draws : i \in p1Sorter
      BY <3>1, <3>2, PipelineAssumption DEF SpillInv, NoEntityLost, InPipeline, Phase1!Draws
    <3> QED
      BY Zenon, <3>1, <3>3 DEF SpillInv, SpillTypeOK
  <2> QED
    BY <1>1, <2>1, <2>2 DEF Phase1!Runs
<1>2. CASE ~Phase1!Return
  BY Zenon, <1>2 DEF SpillStep, p1Vars, Phase1!Runs, Phase1!Draw, Phase1!SendBatch, Phase1!DrawEnds,
    Phase1!TakeBatch, Phase1!Encode, Phase1!EncodeEnds, Phase1!CloseBlobs, Phase1!TakeBlobs,
    Phase1!Put, Phase1!PutEnds
<1> QED
  BY <1>1, <1>2

\* A step of Phase 1 is taken when Phase 0 has returned nil, one of Phase 2 that
\* sets a result when Phase 1 has, and nothing of Phase 0 moves before the IDs
\* are assigned.
LEMMA StepsInTurn ==
    ASSUME [WriterNext]_writerVars
    PROVE  /\ p0Assigned' = p0Assigned \/ p0Assigned' = TRUE
           /\ p0Verdict' # p0Verdict => p0Assigned
           /\ p1Vars' # p1Vars => Phase1Starts /\ UNCHANGED poolVars
           /\ result' # result => Phase2Starts /\ UNCHANGED <<poolVars, p1Vars>>
BY Zenon DEF WriterNext, WriterRuns, WriterCancelled, AssignStoIDs, StreamBranch, writerVars, vars,
       p0Vars, p2Vars, stages, Cancel, poolVars, Phase0!CancelCtx

\* Every step of the writer keeps the phases chained.
LEMMA ChainInd ==
    ASSUME WriterInv, StreamInv', SpillInv', TypeOK', [WriterNext]_writerVars
    PROVE  Chain'
<1>1. StreamInv /\ SpillInv /\ Chain /\ TypeOK /\ PoolStep /\ SpillStep
  BY WriterStepIs DEF WriterInv, Phase2Inv
<1>2. p0Assigned' \in BOOLEAN /\ (~p0Assigned' => p0Verdict' = "running")
  BY Zenon, <1>1, StepsInTurn DEF Chain
<1>3. p1Result' # "none" => p0Verdict' = "ok" /\ p1Drawer' = "back"
  <2>1. CASE p1Result' = p1Result
    BY <1>1, <2>1, PoolOnlyAdds, SpillReturns DEF Chain
  <2>2. CASE p1Result' # p1Result
    <3>1. p0Verdict = "ok" /\ p1Drawer' = "back"
      BY Zenon, <1>1, <2>2, StepsInTurn, SpillReturns DEF p1Vars, Phase1Starts
    <3> QED
      BY <1>1, <3>1, PoolOnlyAdds
  <2> QED
    BY <2>1, <2>2
<1>4. ASSUME p1Result' = "ok"
      PROVE  /\ p1Sorter' = Phase1!Draws /\ p0Roots' = PreStorage /\ p0Db' = Phase0!AllRows
  <2>1. /\ p1Sorter' \subseteq Phase1!Draws /\ p0Roots' \subseteq PreStorage
        /\ p0Db' \subseteq Phase0!AllRows
    BY DEF SpillInv, SpillTypeOK, StreamInv, Phase0!PoolTypeOK, Phase1!Draws, Phase0!AllRows
  <2>2. CASE p1Result = "ok"
    BY Zenon, <1>1, <2>1, <2>2, PoolOnlyAdds, SpillReturns DEF Chain
  <2>3. CASE p1Result # "ok"
    <3>1. p1Sorter' = Phase1!Draws /\ ~ctxDone
      BY <1>1, <1>4, <2>3, SpillReturns
    <3>2. p0Verdict = "ok" /\ UNCHANGED poolVars
      BY Zenon, <1>4, <2>3, StepsInTurn DEF p1Vars, Phase1Starts
    <3>3. p0Cause = "none"
      BY <1>1, <3>1, <3>2 DEF StreamInv, StreamJoined
    <3>4. p0Roots = PreStorage /\ p0Db = Phase0!AllRows
      BY <1>1, <3>2, <3>3, StreamComplete
    <3> QED
      BY <3>1, <3>2, <3>4 DEF poolVars, Phase0!AllRows
  <2> QED
    BY SMTT(30), <2>2, <2>3
<1>5. result' # "none" => p1Result' = "ok"
  <2>1. CASE result' = result
    <3>1. SUFFICES ASSUME result # "none" PROVE p1Result' = "ok"
      BY <2>1
    <3>2. p1Result = "ok" /\ p1Drawer = "back"
      BY <1>1, <3>1 DEF Chain
    <3> QED
      BY <1>1, <3>2, SpillReturns
  <2>2. CASE result' # result
    BY Zenon, <2>2, StepsInTurn DEF Phase2Starts, p1Vars
  <2> QED
    BY <2>1, <2>2
<1> QED
  BY <1>2, <1>3, <1>4, <1>5 DEF Chain, Phase0!AllRows, Phase1!Draws

\* The invariant of the writer is inductive.
LEMMA WriterInd == WriterInv /\ [WriterNext]_writerVars => WriterInv'
<1> SUFFICES ASSUME WriterInv, [WriterNext]_writerVars PROVE WriterInv'
  OBVIOUS
<1>1. PoolStep /\ SpillStep /\ Phase2Inv /\ StreamInv /\ SpillInv /\ Chain
  BY WriterStepIs DEF WriterInv
<1>2. StreamInv'
  BY <1>1, StreamIndStep
<1>3. SpillInv'
  BY <1>1, SpillIndStep
<1>4. Phase2Inv'
  BY <1>1, Phase2Ind
<1>5. Chain'
  BY <1>2, <1>3, <1>4, ChainInd DEF Phase2Inv
<1> QED
  BY <1>2, <1>3, <1>4, <1>5 DEF WriterInv

\* The invariant holds in every state of the writer.
LEMMA WriterHolds == WriterSpec => []WriterInv
BY WriterInitInv, WriterInd, PTL DEF WriterSpec

\* runPhase1Pipeline returns nil only when every entity is in the spill store,
\* run between Phase 0 and Phase 2 under their common context.
THEOREM WriterSpills == WriterSpec => []NilMeansAllSpilled
<1>1. WriterInv => NilMeansAllSpilled
  BY DEF WriterInv, Chain, NilMeansAllSpilled, Phase1!NilMeansAllSpilled, Phase1!Draws
<1> QED
  BY <1>1, WriterHolds, PTL

\* writeState returns a root only if every account streamed in Phase 0 has its
\* storage root and all rows of its trie: a Phase 0 that was cancelled half way
\* returns nil, but then Phase 1 fails.
THEOREM WriterKeepsStreamed == WriterSpec => []StreamedKeepStorage
<1>1. WriterInv => StreamedKeepStorage
  BY DEF WriterInv, Chain, StreamedKeepStorage, Phase0!AllRows
<1> QED
  BY <1>1, WriterHolds, PTL

\* writeState as a whole returns nil with a live context only when every account
\* of the sorter is in the trie and every storage row has left the sinks.
THEOREM WriterComplete == WriterSpec => []OkIsComplete
<1>1. WriterInv => OkIsComplete
  BY DEF WriterInv, Phase2Inv
<1> QED
  BY <1>1, WriterHolds, PTL

\* The vertex IDs Phase 0 assigns to the tries it streams, the blocks its
\* workers take, and all IDs of Phase 2 are disjoint.
THEOREM WriterIdsNeverOverlap == WriterSpec => []IdsDisjoint
<1>1. WriterInv => IdsDisjoint
  BY DEF WriterInv, Phase2Inv, IdsInv
<1> QED
  BY <1>1, WriterHolds, PTL

\* The high-water mark in the admin record covers the IDs of Phase 0 as well.
THEOREM WriterAdminRecord == WriterSpec => []VTopCoversIds
<1>1. WriterInv => VTopCoversIds
  BY DEF WriterInv, Phase2Inv, IdsInv, VTopCoversIds
<1> QED
  BY <1>1, WriterHolds, PTL

\* With Phases 0 and 1 before it, the account trie is still fed every account
\* once, in the order of the sorter.
THEOREM WriterFeedsInOrder == WriterSpec => FedInOrder
<1> DEFINE Fed == nextSeq' # nextSeq => /\ nextSeq' = nextSeq + 1
                                       /\ \E r \in reorder : r = <<nextSeq, FALSE>>
<1>1. WriterInv /\ [WriterNext]_writerVars => [Fed]_vars
  <2> SUFFICES ASSUME WriterInv, [WriterNext]_writerVars, nextSeq' # nextSeq PROVE Fed
    BY Zenon
  <2>1. [Next]_vars
    BY WriterStepIs DEF Phase2Step, stages, stageC
  <2>2. Apply
    BY Zenon, <2>1 DEF Next, Runs, Read, Send, ReadEnds, Receive, BuildBranch, Build, Exit,
                CloseResults, Collect, Finish, Cancel, vars, stageC
  <2> QED
    BY Zenon, <2>2, ApplyTakesNext DEF WriterInv, Phase2Inv
<1> QED
  BY <1>1, WriterHolds, PTL DEF WriterSpec, FedInOrder

=============================================================================
