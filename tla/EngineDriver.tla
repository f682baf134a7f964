---------------------------- MODULE EngineDriver ----------------------------
(***************************************************************************)
(* EngineDriver (internal/engineapi): a minimal consensus client, which    *)
(* makes an execution client (EL) produce blocks over the generated state. *)
(* DriveLoop fetches the head once and then runs Step: forkchoiceUpdated   *)
(* with attributes (polled while the EL is SYNCING), getPayload,           *)
(* newPayload, forkchoiceUpdated.  A call is an HTTP request with a        *)
(* timeout: it may never arrive, or be carried out though the driver saw   *)
(* it fail, at any later moment.                                           *)
(*                                                                         *)
(* A block is its chain: the sequence of the timestamps from the genesis   *)
(* on.  The EL is external; what it does is what the driver relies on.     *)
(***************************************************************************)
EXTENDS Naturals, Sequences, FiniteSets

CONSTANTS
    MaxBlocks,       \* blocks after which the model stops driving (bound)
    MaxFaults,       \* lost calls and pauses of the EL (bound)
    MaxPolls,        \* polls that fit into the 60 s of a Step (bound)
    MaxErrors        \* maxConsecutiveStepErrors (5)

ASSUME EngineAssumption ==
    /\ MaxBlocks \in Nat \ {0} /\ MaxFaults \in Nat
    /\ MaxPolls \in Nat /\ MaxErrors \in Nat \ {0}

Genesis == <<0>>
Time(b) == b[Len(b)]
Child(b, t) == Append(b, t)
IsChildOf(c, b) == c = Child(b, Time(c))
Extends(c, b) == Len(b) < Len(c) /\ SubSeq(c, 1, Len(b)) = b

VARIABLES
    step,            \* fetch | loop | fcu | poll | get | new | advance | sleep | returned
    head, blockTS,   \* headHash, blockTS
    block,           \* the block the payload stands for
    polls, consecutiveErrors, ctxDone,
    ready, elHead,   \* the EL: does it answer VALID; its canonical and final head
    valid, payloads, \* blocks it has validated; payloads it is building
    skips,           \* does it ignore an update to an ancestor of its head
    late,            \* requests the driver gave up on that may still arrive
    faults, recent,  \* history: faults so far; those since the last success
    strayed          \* history: has a late request moved elHead since the last update

driver == <<step, head, blockTS, block, polls, consecutiveErrors>>
el == <<ready, elHead, valid, payloads>>
vars == <<driver, ctxDone, el, skips, late, faults, recent, strayed>>

Init ==
    /\ step = "fetch" /\ head = Genesis /\ blockTS = 0 /\ block = Genesis
    /\ polls = 0 /\ consecutiveErrors = 0 /\ ctxDone = FALSE
    /\ ready \in BOOLEAN /\ elHead = Genesis /\ valid = {Genesis} /\ payloads = {}
    /\ skips \in BOOLEAN /\ late = {} /\ faults = 0 /\ recent = 0 /\ strayed = FALSE

-----------------------------------------------------------------------------
Fault == faults' = faults + 1 /\ recent' = recent + 1

(* The execution client *)

\* A forkchoice update to b: the EL may refuse to go back to an ancestor, and
\* then starts no payload.
Ignored(b) == skips /\ Extends(elHead, b)
Update(b) == elHead' = IF b \in valid /\ ~Ignored(b) THEN b ELSE elHead
UpdateAndBuild(b, t) ==
    /\ Update(b)
    /\ payloads' = IF b \in valid /\ ~Ignored(b) /\ t > Time(b)
                   THEN payloads \cup {Child(b, t)} ELSE payloads

\* A request: its effect on an EL that is ready.
Fcu(b, t) == [call |-> "fcu", block |-> b, time |-> t]
NewPayload(b) == [call |-> "new", block |-> b, time |-> 0]
Advance(b) == [call |-> "advance", block |-> b, time |-> 0]

Carry(r) ==
    \/ r.call = "fcu" /\ UpdateAndBuild(r.block, r.time) /\ UNCHANGED valid
    \/ r.call = "new" /\ valid' = valid \cup {r.block} /\ UNCHANGED <<elHead, payloads>>
    \/ r.call = "advance" /\ Update(r.block) /\ UNCHANGED <<valid, payloads>>

\* A request the driver no longer waits for arrives.
LateArrives ==
    /\ ready
    /\ \E r \in late :
          /\ Carry(r) /\ late' = late \ {r}
          /\ strayed' = (strayed \/ elHead' # elHead)
    /\ UNCHANGED <<driver, ctxDone, ready, skips, faults, recent>>

BecomesReady ==
    /\ ~ready /\ ready' = TRUE
    /\ UNCHANGED <<driver, ctxDone, elHead, valid, payloads, skips, late, faults, recent,
                   strayed>>

\* It pauses and forgets the payloads it was building.
Pauses ==
    /\ ready /\ faults < MaxFaults
    /\ ready' = FALSE /\ payloads' = {} /\ Fault
    /\ UNCHANGED <<driver, ctxDone, elHead, valid, skips, late, strayed>>

-----------------------------------------------------------------------------
(* The driver *)

At(s) == step = s
Goto(s) == step' = s

\* Step returns an error: DriveLoop counts it, and gives up at the fifth.
StepFails ==
    /\ consecutiveErrors' = consecutiveErrors + 1
    /\ Goto(IF consecutiveErrors + 1 >= MaxErrors THEN "returned" ELSE "sleep")
    /\ UNCHANGED <<head, blockTS, block, polls>>

\* callEngine fails: the request is lost, or will arrive late.
Lost(requests) ==
    /\ ctxDone \/ faults < MaxFaults
    /\ IF ctxDone THEN UNCHANGED <<faults, recent>> ELSE Fault
    /\ late' = late \/ \E r \in requests : late' = late \cup {r}
    /\ UNCHANGED el

FetchHead ==
    /\ At("fetch")
    /\ \/ /\ ~ctxDone
          /\ Goto("loop") /\ head' = elHead /\ blockTS' = Time(elHead)
          /\ UNCHANGED <<late, faults, recent, el>>
       \/ Lost({}) /\ Goto("returned") /\ UNCHANGED <<head, blockTS>>
    /\ UNCHANGED <<block, polls, consecutiveErrors, ctxDone, skips, strayed>>

\* The top of the loop.  The timestamp grows after failures too.
NextTS == blockTS + 1
Loop ==
    /\ At("loop") /\ Len(head) <= MaxBlocks
    /\ IF ctxDone THEN Goto("returned") /\ UNCHANGED blockTS
       ELSE Goto("fcu") /\ blockTS' = NextTS
    /\ polls' = 0
    /\ UNCHANGED <<head, block, consecutiveErrors, ctxDone, el, skips, late, faults, recent,
                   strayed>>

\* 1. forkchoiceUpdated with attributes; a VALID without payloadId is an error.
FcuAnswered ==
    /\ ~ctxDone /\ ready
    /\ Carry(Fcu(head, blockTS)) /\ strayed' = FALSE
    /\ IF Child(head, blockTS) \in payloads'
       THEN /\ Goto("get") /\ block' = Child(head, blockTS)
            /\ UNCHANGED <<head, blockTS, polls, consecutiveErrors>>
       ELSE StepFails
    /\ UNCHANGED <<ready, late, faults, recent>>
FcuSyncing ==
    /\ ~ctxDone /\ ~ready
    /\ Goto("poll")
    /\ UNCHANGED <<head, blockTS, block, polls, consecutiveErrors, el, late, faults, recent,
                   strayed>>
FcuWithAttributes ==
    /\ At("fcu")
    /\ \/ FcuAnswered
       \/ FcuSyncing
       \/ Lost({Fcu(head, blockTS)}) /\ StepFails /\ UNCHANGED strayed
    /\ UNCHANGED <<ctxDone, skips>>

\* The 50 ms between two polls, or the end of the 60 s, which all polls share.
PollsRestarted == 0
PollsMade == polls + 1
PollsLeft == polls < MaxPolls
Poll ==
    /\ At("poll")
    /\ \/ /\ PollsLeft /\ ~ctxDone
          /\ Goto("fcu") /\ polls' = PollsMade
          /\ UNCHANGED <<head, blockTS, block, consecutiveErrors, faults, recent>>
       \/ /\ ~PollsLeft \/ ctxDone
          /\ StepFails
          /\ IF ctxDone THEN UNCHANGED <<faults, recent>> ELSE Fault
    /\ UNCHANGED <<ctxDone, el, skips, late, strayed>>

\* 2., 3. The wait, which ctx ends, and getPayload.
GetPayload ==
    /\ At("get")
    /\ \/ /\ ~ctxDone /\ block \in payloads
          /\ Goto("new")
          /\ UNCHANGED <<head, blockTS, block, polls, consecutiveErrors, el, late, faults, recent>>
       \/ ~ctxDone /\ block \notin payloads /\ StepFails /\ UNCHANGED <<el, late, faults, recent>>
       \/ Lost({}) /\ StepFails
    /\ UNCHANGED <<ctxDone, skips, strayed>>

\* 4. newPayload must answer VALID; an EL that is not ready answers SYNCING.
StatusIgnored == TRUE
StatusValid == ready
SubmitPayload ==
    /\ At("new")
    /\ \/ /\ ~ctxDone
          /\ IF ready THEN Carry(NewPayload(block)) /\ UNCHANGED ready ELSE UNCHANGED el
          /\ IF StatusValid
             THEN Goto("advance") /\ UNCHANGED <<head, blockTS, block, polls, consecutiveErrors>>
             ELSE StepFails
          /\ UNCHANGED <<late, faults, recent>>
       \/ Lost({NewPayload(block)}) /\ StepFails
    /\ UNCHANGED <<ctxDone, skips, strayed>>

\* 5. forkchoiceUpdated without attributes: only an error of the call counts,
\* the status is not looked at.  Step returns the new head.
OldHead == head
NewHead == block
ErrorsKept == consecutiveErrors
ErrorsAfterSuccess == 0
AdvanceHead ==
    /\ At("advance")
    /\ \/ /\ ~ctxDone
          /\ IF ready THEN Carry(Advance(block)) /\ strayed' = FALSE /\ UNCHANGED ready
             ELSE UNCHANGED <<el, strayed>>
          /\ Goto("sleep") /\ head' = NewHead /\ consecutiveErrors' = ErrorsAfterSuccess
          /\ recent' = 0
          /\ UNCHANGED <<blockTS, block, polls, late, faults>>
       \/ Lost({Advance(block)}) /\ StepFails /\ UNCHANGED strayed
    /\ UNCHANGED <<ctxDone, skips>>

Sleep ==
    /\ At("sleep") /\ Goto(IF ctxDone THEN "returned" ELSE "loop")
    /\ UNCHANGED <<head, blockTS, block, polls, consecutiveErrors, ctxDone, el, skips, late,
                   faults, recent, strayed>>

CallerCancels ==
    /\ ~ctxDone /\ step # "returned"
    /\ ctxDone' = TRUE
    /\ UNCHANGED <<driver, el, skips, late, faults, recent, strayed>>

DriverStep ==
    \/ FetchHead \/ Loop \/ FcuWithAttributes \/ Poll \/ GetPayload \/ SubmitPayload
    \/ AdvanceHead \/ Sleep
Next == DriverStep \/ CallerCancels \/ LateArrives \/ BecomesReady \/ Pauses

\* The driver runs; nothing is assumed of the EL, which may stay SYNCING.
Spec == Init /\ [][Next]_vars /\ WF_vars(DriverStep)

-----------------------------------------------------------------------------
Chain == Seq(Nat) \ {<<>>}
Request == [call : {"fcu", "new", "advance"}, block : Chain, time : Nat]
TypeOK ==
    /\ step \in {"fetch", "loop", "fcu", "poll", "get", "new", "advance", "sleep", "returned"}
    /\ head \in Chain /\ block \in Chain /\ elHead \in Chain
    /\ valid \subseteq Chain /\ payloads \subseteq Chain /\ late \subseteq Request
    /\ blockTS \in Nat /\ polls \in Nat /\ consecutiveErrors \in Nat
    /\ faults \in Nat /\ recent \in Nat
    /\ ctxDone \in BOOLEAN /\ ready \in BOOLEAN /\ skips \in BOOLEAN /\ strayed \in BOOLEAN

\* The EL never drifts from the driver: its head is the driver's, a child of
\* it (the reply to the advance was lost) or its parent (the EL was SYNCING
\* when it was told to advance, which Step does not look at), except between
\* the late arrival of a request the driver gave up on and the driver's next
\* forkchoice update.
ELFollowsDriver ==
    step # "fetch" /\ ~strayed =>
       elHead = head \/ IsChildOf(elHead, head) \/ IsChildOf(head, elHead)

\* Every block the EL has validated beside the driver's chain and the block in
\* progress is the price of a fault: a retry builds one new block, under a new
\* timestamp, and never doubles what was already done.
OrphansAreFaults == Cardinality(valid) <= Len(head) + 1 + faults

\* Fewer faults than maxConsecutiveStepErrors never end DriveLoop, unless the
\* EL ignores updates to an ancestor of its head: then one lost reply does.
SurvivesTransientFaults ==
    ~skips /\ ~ctxDone /\ recent < MaxErrors => consecutiveErrors < MaxErrors

\* DriveLoop drives: it goes on producing blocks until it is cancelled or
\* reports that it cannot, and is never caught polling for ever.
Drives == <>(Len(head) > MaxBlocks \/ step = "returned")
=============================================================================
