------------------------ MODULE EngineDriverProofs -------------------------
(***************************************************************************)
(* Proofs about DriveLoop and Step for any number of blocks, faults, polls *)
(* and tolerated errors: the EL does not drift from the driver, orphans    *)
(* are paid for by faults, and transient faults do not end the loop.       *)
(***************************************************************************)
EXTENDS EngineDriver, FiniteSetTheorems, TLAPS

InStep == {"get", "new", "advance"}
Building == {"fcu", "poll"}

\* The two chains meet: the EL knows the head of both, and no block the EL
\* knows is more than one ahead of the driver's head.
Known ==
    /\ head \in valid /\ elHead \in valid
    /\ \A b \in valid : Len(b) <= Len(head) + 1
    /\ \A r \in late : r.call = "new" => Len(r.block) <= Len(head) + 1
    /\ step = "fetch" => head = Genesis /\ valid = {Genesis} /\ late = {} /\ payloads = {}

\* Timestamps grow along the chain and with every attempt, so that no two
\* attempts ask for the same payload.
Stamps ==
    /\ Time(head) <= blockTS /\ (step \in Building \cup InStep => Time(head) < blockTS)
    /\ \A p \in payloads : Time(p) <= blockTS /\ (step \in Building => Time(p) < blockTS)
    /\ \A r \in late : r.call = "fcu" =>
          r.time <= blockTS /\ (step \in Building => r.time < blockTS)
    /\ step \in InStep => block = Child(head, blockTS)
    /\ step = "advance" => block \in valid

\* Until a late request arrives the EL is on the head its payload builds on.
Follows ==
    step # "fetch" /\ ~strayed =>
        /\ elHead = head \/ IsChildOf(elHead, head) \/ IsChildOf(head, elHead)
        /\ step \in InStep => elHead = head

\* An error is preceded by a fault of its own since the last success.
Counted ==
    ~skips /\ ~ctxDone =>
        /\ consecutiveErrors <= recent
        /\ step = "get" /\ block \notin payloads => consecutiveErrors < recent
        /\ step \in {"get", "new"} /\ ~ready => consecutiveErrors < recent

\* The blocks the EL has validated or may still validate, one of which may be
\* the block of a Step that is not over or was cut off by ctx.
Blocks == valid \cup {r.block : r \in {q \in late : q.call = "new"}}
Slack == IF step = "advance" \/ (ctxDone /\ step \in {"sleep", "returned"}) THEN 1 ELSE 0
Paid == IsFiniteSet(Blocks) /\ Cardinality(Blocks) <= Len(head) + faults + Slack

IndInv == TypeOK /\ Known /\ Stamps /\ Follows

-----------------------------------------------------------------------------
\* A chain has a length and a timestamp.
LEMMA ChainFacts ==
    ASSUME NEW b \in Chain
    PROVE  Len(b) \in Nat /\ Len(b) > 0 /\ Time(b) \in Nat
BY DEF Chain, Time

\* The genesis block is a chain.
LEMMA GenesisFacts == Genesis \in Chain /\ Len(Genesis) = 1 /\ Time(Genesis) = 0
BY DEF Genesis, Chain, Time

\* A child is one block longer and carries the timestamp it was built with.
LEMMA ChildFacts ==
    ASSUME NEW b \in Chain, NEW t \in Nat
    PROVE  /\ Child(b, t) \in Chain /\ Len(Child(b, t)) = Len(b) + 1
           /\ Time(Child(b, t)) = t /\ IsChildOf(Child(b, t), b)
<1>1. Child(b, t) \in Seq(Nat) /\ Len(Child(b, t)) = Len(b) + 1
  BY DEF Child, Chain
<1>2. Child(b, t)[Len(b) + 1] = t
  BY DEF Child, Chain
<1>3. Child(b, t) # <<>>
  BY <1>1, ChainFacts
<1> QED
  BY <1>1, <1>2, <1>3 DEF Chain, Time, IsChildOf

\* Sequences of the same length with the same elements are equal.
LEMMA SeqEqual ==
    ASSUME NEW s \in Seq(Nat), NEW t \in Seq(Nat), Len(s) = Len(t),
           \A i \in 1 .. Len(s) : s[i] = t[i]
    PROVE  s = t
OBVIOUS

\* An extension by one block is a child.
LEMMA ExtensionIsChild ==
    ASSUME NEW b \in Chain, NEW c \in Chain, Extends(c, b), Len(c) <= Len(b) + 1
    PROVE  IsChildOf(c, b)
<1>1. Len(b) \in Nat /\ Len(b) > 0 /\ Len(c) = Len(b) + 1
  BY ChainFacts DEF Extends
<1>2. Child(b, Time(c)) \in Seq(Nat) /\ Len(Child(b, Time(c))) = Len(c)
  BY <1>1, ChainFacts, ChildFacts DEF Chain
<1>3. ASSUME NEW i \in 1 .. Len(c) PROVE c[i] = Child(b, Time(c))[i]
  <2>1. CASE i = Len(c)
    BY <1>1, <2>1 DEF Child, Time, Chain
  <2>2. CASE i # Len(c)
    <3>1. i \in 1 .. Len(b)
      BY <1>1, <2>2
    <3>2. SubSeq(c, 1, Len(b))[i] = c[i]
      BY <1>1, <3>1 DEF Chain
    <3> QED
      BY <1>1, <3>1, <3>2 DEF Child, Extends, Chain
  <2> QED
    BY <2>1, <2>2
<1>4. c = Child(b, Time(c))
  <2> HIDE DEF Child, Time
  <2>1. c \in Seq(Nat)
    BY DEF Chain
  <2> QED
    BY <1>2, <1>3, <2>1, SeqEqual
<1> QED
  BY <1>4 DEF IsChildOf

-----------------------------------------------------------------------------
\* The types hold.
LEMMA TypeStep == IndInv /\ [Next]_vars => TypeOK'
<1> SUFFICES ASSUME IndInv, [Next]_vars PROVE TypeOK'
  OBVIOUS
<1> USE EngineAssumption DEF IndInv, TypeOK, Request, driver, el, At, Goto
<1>a. head \in Chain /\ Len(head) \in Nat /\ Len(head) > 0 /\ Time(head) \in Nat
  BY ChainFacts
<1>b. Child(head, blockTS) \in Chain /\ Len(Child(head, blockTS)) = Len(head) + 1
      /\ Time(Child(head, blockTS)) = blockTS /\ IsChildOf(Child(head, blockTS), head)
  BY Zenon, <1>a, ChildFacts
<1>1. CASE FetchHead
  <2>1. elHead \in Chain /\ Time(elHead) \in Nat
    BY ChainFacts
  <2> QED
    BY <1>1, <2>1 DEF FetchHead, Lost, Fault
<1>2. CASE Loop
  BY <1>2, <1>a, <1>b DEF Loop, NextTS
<1>3. CASE FcuWithAttributes
  <2>1. CASE FcuAnswered
    <3>1. elHead' \in Chain /\ payloads' \subseteq Chain
      BY <1>3, <1>a, <1>b, <2>1 DEF FcuAnswered, Carry, Fcu, UpdateAndBuild, Update
    <3>2. UNCHANGED <<valid, ready, late, faults, recent, ctxDone, skips>> /\ strayed' = FALSE
      BY <1>3, <2>1 DEF FcuWithAttributes, FcuAnswered, Carry, Fcu
    <3>3. /\ UNCHANGED <<head, blockTS, polls>> /\ block' \in Chain
          /\ step' \in {"get", "returned", "sleep"} /\ consecutiveErrors' \in Nat
      BY <1>b, <2>1 DEF FcuAnswered, StepFails
    <3> QED
      BY Zenon, <3>1, <3>2, <3>3
  <2>2. CASE FcuSyncing
    BY <1>3, <2>2 DEF FcuWithAttributes, FcuSyncing
  <2>3. CASE Lost({Fcu(head, blockTS)}) /\ StepFails /\ UNCHANGED strayed
    <3>1. Fcu(head, blockTS) \in Request
      BY DEF Fcu
    <3>2. late' \subseteq Request
      BY <2>3, <3>1 DEF Lost
    <3> QED
      BY <1>3, <2>3, <3>2 DEF FcuWithAttributes, StepFails, Lost, Fault
  <2> QED
    BY <1>3, <2>1, <2>2, <2>3 DEF FcuWithAttributes
<1>4. CASE Poll
  BY <1>4, <1>a, <1>b DEF Poll, PollsLeft, PollsMade, StepFails, Fault
<1>5. CASE GetPayload
  BY <1>5, <1>a, <1>b DEF GetPayload, StepFails, Lost, Fault
<1>6. CASE SubmitPayload
  BY <1>6, <1>a, <1>b
    DEF SubmitPayload, StatusValid, Carry, NewPayload, StepFails, Lost, Fault
<1>7. CASE AdvanceHead
  <2>1. CASE Lost({Advance(block)})
    <3>1. Advance(block) \in Request
      BY DEF Advance
    <3>2. late' \subseteq Request
      BY <2>1, <3>1 DEF Lost
    <3> QED
      BY <1>7, <2>1, <3>2
        DEF AdvanceHead, NewHead, ErrorsAfterSuccess, Carry, Advance, Update, StepFails,
            Lost, Fault
  <2>2. CASE ~Lost({Advance(block)})
    <3>1. elHead' \in Chain /\ UNCHANGED <<valid, payloads, ready>>
      BY <1>7, <2>2 DEF AdvanceHead, Carry, Advance, Update
    <3>2. /\ UNCHANGED <<blockTS, block, polls, late, faults, ctxDone, skips>>
      /\ strayed' \in BOOLEAN
          /\ head' \in Chain /\ step' = "sleep" /\ consecutiveErrors' = 0 /\ recent' = 0
      BY Zenon, <1>7, <2>2 DEF AdvanceHead, NewHead, ErrorsAfterSuccess
    <3> QED
      BY <3>1, <3>2
  <2> QED
    BY <2>1, <2>2
<1>8. CASE Sleep
  BY <1>8, <1>a, <1>b DEF Sleep
<1>9. CASE CallerCancels
  BY <1>9, <1>a, <1>b DEF CallerCancels
<1>10. CASE LateArrives
  <2>1. PICK r \in late : Carry(r) /\ late' = late \ {r}
    BY <1>10 DEF LateArrives
  <2>2. r \in Request /\ r.block \in Chain /\ r.time \in Nat
    BY <2>1
  <2>3. Child(r.block, r.time) \in Chain
    BY <2>2, ChildFacts
  <2>4. elHead' \in Chain /\ valid' \subseteq Chain /\ payloads' \subseteq Chain
    BY <2>1, <2>2, <2>3 DEF Carry, UpdateAndBuild, Update
  <2>5. late' \subseteq Request
    BY <2>1
  <2>6. strayed' \in BOOLEAN
    BY <1>10 DEF LateArrives
  <2> QED
    BY <1>10, <2>4, <2>5, <2>6 DEF LateArrives
<1>11. CASE BecomesReady
  BY <1>11, <1>a, <1>b DEF BecomesReady
<1>12. CASE Pauses
  <2>1. faults' \in Nat /\ recent' \in Nat
    BY <1>12 DEF Pauses, Fault
  <2> QED
    BY Zenon, <1>12, <2>1 DEF Pauses
<1>13. CASE UNCHANGED vars
  BY <1>13 DEF vars
<1> QED
  BY <1>1, <1>2, <1>3, <1>4, <1>5, <1>6, <1>7, <1>8, <1>9, <1>10, <1>11, <1>12, <1>13
    DEF Next, DriverStep

\* No block gets more than one ahead of the driver.
LEMMA KnownStep == IndInv /\ [Next]_vars => Known'
<1> SUFFICES ASSUME IndInv, [Next]_vars PROVE Known'
  OBVIOUS
<1> USE EngineAssumption DEF IndInv, TypeOK, Known, Stamps, Request, InStep, driver, el, At, Goto
<1>a. head \in Chain /\ Len(head) \in Nat /\ Len(head) > 0 /\ Time(head) \in Nat
  BY ChainFacts
<1>b. Child(head, blockTS) \in Chain /\ Len(Child(head, blockTS)) = Len(head) + 1
      /\ Time(Child(head, blockTS)) = blockTS /\ IsChildOf(Child(head, blockTS), head)
  BY <1>a, ChildFacts
<1>1. CASE FetchHead
  BY <1>1, <1>a, <1>b DEF FetchHead, Lost, Fault
<1>2. CASE Loop
  BY <1>2, <1>a, <1>b DEF Loop, NextTS
<1>3. CASE FcuWithAttributes
  BY <1>3, <1>a, <1>b
    DEF FcuWithAttributes, FcuAnswered, FcuSyncing, Carry, Fcu, UpdateAndBuild, Update,
        Ignored, StepFails, Lost, Fault
<1>4. CASE Poll
  BY <1>4, <1>a, <1>b DEF Poll, PollsLeft, PollsMade, StepFails, Fault
<1>5. CASE GetPayload
  BY <1>5, <1>a, <1>b DEF GetPayload, StepFails, Lost, Fault
<1>6. CASE SubmitPayload
  BY <1>6, <1>a, <1>b
    DEF SubmitPayload, StatusValid, Carry, NewPayload, StepFails, Lost, Fault
<1>7. CASE AdvanceHead
  BY <1>7, <1>a, <1>b
    DEF AdvanceHead, NewHead, ErrorsAfterSuccess, Carry, Advance, Update, Ignored,
        StepFails, Lost, Fault
<1>8. CASE Sleep
  BY <1>8, <1>a, <1>b DEF Sleep
<1>9. CASE CallerCancels
  BY <1>9, <1>a, <1>b DEF CallerCancels
<1>10. CASE LateArrives
  BY <1>10, <1>a, <1>b DEF LateArrives, Carry, UpdateAndBuild, Update, Ignored
<1>11. CASE BecomesReady
  BY <1>11, <1>a, <1>b DEF BecomesReady
<1>12. CASE Pauses
  BY <1>12, <1>a, <1>b DEF Pauses, Fault
<1>13. CASE UNCHANGED vars
  BY <1>13 DEF vars
<1> QED
  BY <1>1, <1>2, <1>3, <1>4, <1>5, <1>6, <1>7, <1>8, <1>9, <1>10, <1>11, <1>12, <1>13
    DEF Next, DriverStep

\* Timestamps keep growing.
LEMMA StampsStep == IndInv /\ [Next]_vars => Stamps'
<1> SUFFICES ASSUME IndInv, [Next]_vars PROVE Stamps'
  OBVIOUS
<1> USE EngineAssumption DEF IndInv, TypeOK, Known, Stamps, Request, InStep, Building, driver,
        el, At, Goto
<1>a. head \in Chain /\ Len(head) \in Nat /\ Len(head) > 0 /\ Time(head) \in Nat
  BY ChainFacts
<1>b. Child(head, blockTS) \in Chain /\ Len(Child(head, blockTS)) = Len(head) + 1
      /\ Time(Child(head, blockTS)) = blockTS /\ IsChildOf(Child(head, blockTS), head)
  BY <1>a, ChildFacts
<1>1. CASE FetchHead
  BY <1>1, <1>a, <1>b DEF FetchHead, Lost, Fault
<1>2. CASE Loop
  <2>1. \A p \in payloads : Time(p) \in Nat
    BY ChainFacts
  <2>2. \A r \in late : r.time \in Nat
    OBVIOUS
  <2> QED
    BY <1>2, <1>a, <2>1, <2>2 DEF Loop, NextTS
<1>3. CASE FcuWithAttributes
  BY <1>3, <1>a, <1>b
    DEF FcuWithAttributes, FcuAnswered, FcuSyncing, Carry, Fcu, UpdateAndBuild, Update,
        Ignored, StepFails, Lost, Fault
<1>4. CASE Poll
  BY <1>4, <1>a, <1>b DEF Poll, PollsLeft, PollsMade, StepFails, Fault
<1>5. CASE GetPayload
  BY <1>5, <1>a, <1>b DEF GetPayload, StepFails, Lost, Fault
<1>6. CASE SubmitPayload
  BY <1>6, <1>a, <1>b
    DEF SubmitPayload, StatusValid, Carry, NewPayload, StepFails, Lost, Fault
<1>7. CASE AdvanceHead
  BY <1>7, <1>a, <1>b
    DEF AdvanceHead, NewHead, ErrorsAfterSuccess, Carry, Advance, Update, Ignored,
        StepFails, Lost, Fault
<1>8. CASE Sleep
  BY <1>8, <1>a, <1>b DEF Sleep
<1>9. CASE CallerCancels
  BY <1>9, <1>a, <1>b DEF CallerCancels
<1>10. CASE LateArrives
  <2>1. PICK r \in late : Carry(r) /\ late' = late \ {r}
    BY <1>10 DEF LateArrives
  <2>2. r.block \in Chain /\ r.time \in Nat
    BY <2>1
  <2>3. Time(Child(r.block, r.time)) = r.time
    BY <2>2, ChildFacts
  <2>4. \A p \in payloads' : p \in payloads \/ (r.call = "fcu" /\ p = Child(r.block, r.time))
    BY <2>1 DEF Carry, UpdateAndBuild
  <2>5. valid \subseteq valid'
    BY <2>1 DEF Carry
  <2> QED
    BY <1>10, <2>1, <2>3, <2>4, <2>5 DEF LateArrives
<1>11. CASE BecomesReady
  BY <1>11, <1>a, <1>b DEF BecomesReady
<1>12. CASE Pauses
  BY <1>12, <1>a, <1>b DEF Pauses, Fault
<1>13. CASE UNCHANGED vars
  BY <1>13 DEF vars
<1> QED
  BY <1>1, <1>2, <1>3, <1>4, <1>5, <1>6, <1>7, <1>8, <1>9, <1>10, <1>11, <1>12, <1>13
    DEF Next, DriverStep

\* No step makes the EL drift from the driver.
LEMMA FollowsStep == IndInv /\ [Next]_vars => Follows'
<1> SUFFICES ASSUME IndInv, [Next]_vars PROVE Follows'
  OBVIOUS
<1> USE EngineAssumption DEF IndInv, TypeOK, Known, Stamps, Follows, InStep, Building, driver,
        el, At, Goto
<1>a. head \in Chain /\ Len(head) \in Nat /\ Len(head) > 0 /\ Time(head) \in Nat
  BY ChainFacts
<1>b. Child(head, blockTS) \in Chain /\ Len(Child(head, blockTS)) = Len(head) + 1
      /\ Time(Child(head, blockTS)) = blockTS /\ IsChildOf(Child(head, blockTS), head)
  BY <1>a, ChildFacts
<1>1. CASE FetchHead
  BY <1>1, <1>a, <1>b DEF FetchHead, Lost, Fault
<1>2. CASE Loop
  BY <1>2, <1>a, <1>b DEF Loop, NextTS
<1>3. CASE FcuWithAttributes
  <2>1. CASE FcuAnswered
    <3>1. CASE Ignored(head)
      <4>1. elHead' = elHead /\ payloads' = payloads
        BY <2>1, <3>1 DEF FcuAnswered, Carry, Fcu, UpdateAndBuild, Update
      <4>2. IsChildOf(elHead, head)
        BY <1>a, <3>1, ExtensionIsChild DEF Ignored
      <4>3. Child(head, blockTS) \notin payloads
        BY <1>3, <1>a, <1>b DEF FcuWithAttributes
      <4> QED
        BY <1>3, <2>1, <4>1, <4>2, <4>3 DEF FcuAnswered, StepFails
    <3>2. CASE ~Ignored(head)
      <4>1. elHead' = head
        BY <2>1, <3>2 DEF FcuAnswered, Carry, Fcu, UpdateAndBuild, Update
      <4> QED
        BY <2>1, <4>1 DEF FcuAnswered, StepFails
    <3> QED
      BY <3>1, <3>2
  <2>2. CASE FcuSyncing
    BY <1>3, <2>2 DEF FcuWithAttributes, FcuSyncing
  <2>3. CASE Lost({Fcu(head, blockTS)}) /\ StepFails /\ UNCHANGED strayed
    BY <1>3, <2>3 DEF FcuWithAttributes, StepFails, Lost
  <2> QED
    BY <1>3, <2>1, <2>2, <2>3 DEF FcuWithAttributes
<1>4. CASE Poll
  BY <1>4, <1>a, <1>b DEF Poll, PollsLeft, PollsMade, StepFails, Fault
<1>5. CASE GetPayload
  BY <1>5, <1>a, <1>b DEF GetPayload, StepFails, Lost, Fault
<1>6. CASE SubmitPayload
  BY <1>6, <1>a, <1>b
    DEF SubmitPayload, StatusValid, Carry, NewPayload, StepFails, Lost, Fault
<1>7. CASE AdvanceHead
  <2>1. CASE Lost({Advance(block)}) /\ StepFails /\ UNCHANGED strayed
    BY <1>7, <2>1 DEF AdvanceHead, StepFails, Lost
  <2>2. CASE ~(Lost({Advance(block)}) /\ StepFails /\ UNCHANGED strayed)
    <3>1. head' = block /\ step' = "sleep" /\ block = Child(head, blockTS) /\ block \in valid
      BY <1>7, <2>2 DEF AdvanceHead, NewHead
    <3>2. CASE ready
      <4>1. ~Extends(elHead, block)
        BY <1>a, <1>b, <3>1, ChainFacts DEF Extends
      <4>2. elHead' = block
        BY Zenon, <1>7, <2>2, <3>1, <3>2, <4>1 DEF AdvanceHead, Carry, Advance, Update, Ignored
      <4> QED
        BY <3>1, <4>2
    <3>3. CASE ~ready
      BY <1>7, <1>b, <2>2, <3>1, <3>3 DEF AdvanceHead
    <3> QED
      BY <3>2, <3>3
  <2> QED
    BY <2>1, <2>2
<1>8. CASE Sleep
  BY <1>8, <1>a, <1>b DEF Sleep
<1>9. CASE CallerCancels
  BY <1>9, <1>a, <1>b DEF CallerCancels
<1>10. CASE LateArrives
  BY Zenon, <1>10, <1>a, <1>b DEF LateArrives, Carry, UpdateAndBuild, Update, Ignored
<1>11. CASE BecomesReady
  BY <1>11, <1>a, <1>b DEF BecomesReady
<1>12. CASE Pauses
  BY <1>12, <1>a, <1>b DEF Pauses, Fault
<1>13. CASE UNCHANGED vars
  BY <1>13 DEF vars
<1> QED
  BY <1>1, <1>2, <1>3, <1>4, <1>5, <1>6, <1>7, <1>8, <1>9, <1>10, <1>11, <1>12, <1>13
    DEF Next, DriverStep

\* The initial state satisfies the invariant.
LEMMA InitInv == Init => IndInv
<1> SUFFICES ASSUME Init PROVE IndInv
  OBVIOUS
<1>1. TypeOK
  BY Zenon, GenesisFacts DEF Init, TypeOK
<1>2. Known
  BY GenesisFacts DEF Init, Known
<1>3. Stamps
  BY GenesisFacts DEF Init, Stamps, Building, InStep
<1>4. Follows
  BY DEF Init, Follows
<1> QED
  BY <1>1, <1>2, <1>3, <1>4 DEF IndInv

\* The invariant is inductive.
LEMMA IndStep == IndInv /\ [Next]_vars => IndInv'
BY TypeStep, KnownStep, StampsStep, FollowsStep DEF IndInv

\* The invariant holds in every reachable state.
LEMMA Inductive == Spec => []IndInv
BY InitInv, IndStep, PTL DEF Spec

\* Every error has its fault.
LEMMA CountedStep == IndInv /\ Counted /\ [Next]_vars => Counted'
<1> SUFFICES ASSUME IndInv /\ Counted, [Next]_vars PROVE Counted'
  OBVIOUS
<1> USE EngineAssumption DEF IndInv, TypeOK, Known, Stamps, Counted, InStep, Building, driver,
        el, At, Goto
<1>a. head \in Chain /\ Len(head) \in Nat /\ Len(head) > 0 /\ Time(head) \in Nat
  BY ChainFacts
<1>b. Child(head, blockTS) \in Chain /\ Len(Child(head, blockTS)) = Len(head) + 1
      /\ Time(Child(head, blockTS)) = blockTS /\ IsChildOf(Child(head, blockTS), head)
  BY <1>a, ChildFacts
<1>1. CASE FetchHead
  BY <1>1, <1>a, <1>b DEF FetchHead, Lost, Fault
<1>2. CASE Loop
  BY <1>2, <1>a, <1>b DEF Loop, NextTS
<1>3. CASE FcuWithAttributes
  BY <1>3, <1>a, <1>b
    DEF FcuWithAttributes, FcuAnswered, FcuSyncing, Carry, Fcu, UpdateAndBuild, Update,
        Ignored, StepFails, Lost, Fault
<1>4. CASE Poll
  BY <1>4, <1>a, <1>b DEF Poll, PollsLeft, PollsMade, StepFails, Fault
<1>5. CASE GetPayload
  BY <1>5, <1>a, <1>b DEF GetPayload, StepFails, Lost, Fault
<1>6. CASE SubmitPayload
  BY <1>6, <1>a, <1>b
    DEF SubmitPayload, StatusValid, Carry, NewPayload, StepFails, Lost, Fault
<1>7. CASE AdvanceHead
  BY <1>7, <1>a, <1>b
    DEF AdvanceHead, NewHead, ErrorsAfterSuccess, Carry, Advance, Update, Ignored,
        StepFails, Lost, Fault
<1>8. CASE Sleep
  BY <1>8, <1>a, <1>b DEF Sleep
<1>9. CASE CallerCancels
  BY <1>9, <1>a, <1>b DEF CallerCancels
<1>10. CASE LateArrives
  BY <1>10, <1>a, <1>b DEF LateArrives, Carry, UpdateAndBuild, Update, Ignored
<1>11. CASE BecomesReady
  BY <1>11, <1>a, <1>b DEF BecomesReady
<1>12. CASE Pauses
  BY <1>12, <1>a, <1>b DEF Pauses, Fault
<1>13. CASE UNCHANGED vars
  BY SMTT(30), <1>13 DEF vars
<1> QED
  BY <1>1, <1>2, <1>3, <1>4, <1>5, <1>6, <1>7, <1>8, <1>9, <1>10, <1>11, <1>12, <1>13
    DEF Next, DriverStep

\* What the blocks the EL may validate are paid with; and what a step does to
\* both: it adds no block, or one for which it pays.
Budget == Len(head) + faults + Slack
Pays ==
    \/ Blocks' \subseteq Blocks /\ Budget <= Budget'
    \/ Blocks' \subseteq Blocks \cup {block} /\ Budget + 1 <= Budget'

\* Only newPayload adds a block; a fault, a new head or the end pays for it.
LEMMA PaysStep == IndInv /\ [Next]_vars => Pays
<1> SUFFICES ASSUME IndInv, [Next]_vars PROVE Pays
  OBVIOUS
<1> USE EngineAssumption DEF IndInv, TypeOK, Stamps, InStep, Pays, Blocks, Budget, Slack,
        driver, el, At, Goto
<1>a. head \in Chain /\ Len(head) \in Nat /\ Len(head) > 0 /\ Time(head) \in Nat
  BY ChainFacts
<1>b. Child(head, blockTS) \in Chain /\ Len(Child(head, blockTS)) = Len(head) + 1
      /\ Time(Child(head, blockTS)) = blockTS /\ IsChildOf(Child(head, blockTS), head)
  BY <1>a, ChildFacts
<1>1. CASE FetchHead
  <2>1. head' = head
    BY <1>1 DEF FetchHead, Known
  <2> QED
    BY <1>1, <1>a, <2>1 DEF FetchHead, Lost, Fault
<1>2. CASE Loop
  BY <1>2, <1>a, <1>b DEF Loop, NextTS
<1>3. CASE FcuWithAttributes
  BY SMTT(30), <1>3, <1>a, <1>b
    DEF FcuWithAttributes, FcuAnswered, FcuSyncing, Carry, Fcu, UpdateAndBuild, Update,
        Ignored, StepFails, Lost, Fault
<1>4. CASE Poll
  BY <1>4, <1>a, <1>b DEF Poll, PollsLeft, PollsMade, StepFails, Fault
<1>5. CASE GetPayload
  BY <1>5, <1>a, <1>b DEF GetPayload, StepFails, Lost, Fault
<1>6. CASE SubmitPayload
  BY SMTT(30), <1>6, <1>a, <1>b
    DEF SubmitPayload, StatusValid, Carry, NewPayload, StepFails, Lost, Fault
<1>7. CASE AdvanceHead
  BY SMTT(30), <1>7, <1>a, <1>b
    DEF AdvanceHead, NewHead, ErrorsAfterSuccess, Carry, Advance, Update, Ignored,
        StepFails, Lost, Fault
<1>8. CASE Sleep
  BY <1>8, <1>a, <1>b DEF Sleep
<1>9. CASE CallerCancels
  BY <1>9, <1>a, <1>b DEF CallerCancels
<1>10. CASE LateArrives
  BY <1>10, <1>a, <1>b DEF LateArrives, Carry, UpdateAndBuild, Update, Ignored
<1>11. CASE BecomesReady
  BY <1>11, <1>a, <1>b DEF BecomesReady
<1>12. CASE Pauses
  BY <1>12, <1>a, <1>b DEF Pauses, Fault
<1>13. CASE UNCHANGED vars
  BY <1>13 DEF vars
<1> QED
  BY <1>1, <1>2, <1>3, <1>4, <1>5, <1>6, <1>7, <1>8, <1>9, <1>10, <1>11, <1>12, <1>13
    DEF Next, DriverStep

\* One more block costs at most one.
LEMMA OneMore ==
    ASSUME NEW S, IsFiniteSet(S), NEW b, NEW T, T \subseteq S \cup {b}
    PROVE  IsFiniteSet(T) /\ Cardinality(T) \in Nat /\ Cardinality(T) <= Cardinality(S) + 1
<1>1. Cardinality(S) \in Nat
  BY FS_CardinalityType
<1>2. IsFiniteSet(S \cup {b})
  BY FS_AddElement
<1>3. Cardinality(S \cup {b}) <= Cardinality(S) + 1
  <2>1. Cardinality(S \cup {b}) = IF b \in S THEN Cardinality(S) ELSE Cardinality(S) + 1
    BY FS_AddElement
  <2> QED
    BY <1>1, <2>1
<1>4. IsFiniteSet(T) /\ Cardinality(T) <= Cardinality(S \cup {b})
  BY <1>2, FS_Subset
<1>5. Cardinality(T) \in Nat /\ Cardinality(S \cup {b}) \in Nat
  BY <1>2, <1>4, FS_CardinalityType
<1> QED
  BY <1>1, <1>3, <1>4, <1>5

\* The blocks stay paid for.
LEMMA PaidStep == IndInv /\ Paid /\ [Next]_vars => Paid'
<1> SUFFICES ASSUME IndInv, Paid, [Next]_vars PROVE Paid'
  OBVIOUS
<1>1. Pays
  BY PaysStep
<1>2. IndInv'
  BY IndStep
<1>3. Budget \in Nat /\ Budget' \in Nat
  <2>1. Len(head) \in Nat /\ Len(head)' \in Nat
    BY <1>2, ChainFacts DEF IndInv, TypeOK
  <2> QED
    BY <1>2, <2>1 DEF Budget, Slack, IndInv, TypeOK
<1>4. IsFiniteSet(Blocks) /\ Cardinality(Blocks) \in Nat /\ Cardinality(Blocks) <= Budget
  BY FS_CardinalityType DEF Paid, Budget
<1>5. IsFiniteSet(Blocks') /\ Cardinality(Blocks') <= Budget'
  <2>1. CASE Blocks' \subseteq Blocks /\ Budget <= Budget'
    <3>1. IsFiniteSet(Blocks') /\ Cardinality(Blocks') <= Cardinality(Blocks)
      BY <1>4, <2>1, FS_Subset
    <3>2. Cardinality(Blocks') \in Nat
      BY <3>1, FS_CardinalityType
    <3> QED
      BY <1>3, <1>4, <2>1, <3>1, <3>2
  <2>2. CASE Blocks' \subseteq Blocks \cup {block} /\ Budget + 1 <= Budget'
    <3>1. /\ IsFiniteSet(Blocks') /\ Cardinality(Blocks') \in Nat
          /\ Cardinality(Blocks') <= Cardinality(Blocks) + 1
      BY <1>4, <2>2, OneMore
    <3> QED
      BY <1>3, <1>4, <2>2, <3>1
  <2> QED
    BY <1>1, <2>1, <2>2 DEF Pays
<1> QED
  BY <1>5 DEF Paid, Budget

-----------------------------------------------------------------------------
\* The EL never drifts from the driver, whatever calls are lost or arrive late:
\* the argument is the invariant Follows, which needs that no block is more
\* than one ahead (Known) and that no two attempts share a timestamp (Stamps).
THEOREM EngineFollows == Spec => []ELFollowsDriver
<1>1. IndInv => ELFollowsDriver
  BY DEF IndInv, Follows, ELFollowsDriver
<1> QED
  BY <1>1, Inductive, PTL

\* DriveLoop survives any number of faults below maxConsecutiveStepErrors
\* between two blocks, for every bound and every schedule of the EL.
THEOREM EngineSurvives == Spec => []SurvivesTransientFaults
<1>1. Init => Counted
  BY DEF Init, Counted
<1>2. IndInv /\ Counted => SurvivesTransientFaults
  BY EngineAssumption DEF IndInv, TypeOK, Counted, SurvivesTransientFaults
<1> QED
  BY <1>1, <1>2, CountedStep, Inductive, PTL DEF Spec

\* Every block the EL validates beside the driver's chain is paid for by a
\* fault, counting the requests that may still arrive (Paid).
THEOREM EngineOrphans == Spec => []OrphansAreFaults
<1>1. Init => Paid
  <2> SUFFICES ASSUME Init PROVE Paid
    OBVIOUS
  <2>1. Blocks = {Genesis}
    BY DEF Init, Blocks
  <2>2. IsFiniteSet({Genesis}) /\ Cardinality({Genesis}) = 1
    BY SMTT(30), FS_Singleton
  <2> QED
    BY <2>1, <2>2, GenesisFacts DEF Init, Paid, Slack
<1>2. IndInv /\ Paid => OrphansAreFaults
  <2> SUFFICES ASSUME IndInv, Paid PROVE OrphansAreFaults
    OBVIOUS
  <2>1. valid \subseteq Blocks
    BY DEF Blocks
  <2>2. IsFiniteSet(valid) /\ Cardinality(valid) <= Cardinality(Blocks)
    BY <2>1, FS_Subset DEF Paid
  <2>3. Cardinality(valid) \in Nat /\ Cardinality(Blocks) \in Nat
    BY <2>2, FS_CardinalityType DEF Paid
  <2>4. Len(head) \in Nat /\ faults \in Nat /\ Slack \in {0, 1}
    BY ChainFacts DEF IndInv, TypeOK, Slack
  <2> QED
    BY <2>2, <2>3, <2>4 DEF Paid, OrphansAreFaults
<1> QED
  BY <1>1, <1>2, PaidStep, Inductive, PTL DEF Spec
=============================================================================
