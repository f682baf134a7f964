-------------------------- MODULE AccountPipeline --------------------------
(***************************************************************************)
(* Phase 2 of the ethrex and nimbus writers (writeState): the accounts,    *)
(* sorted by address hash, pass through three stages.                      *)
(*                                                                         *)
(*   Stage A, one goroutine, numbers the accounts and sends them through   *)
(*   workCh; nimbus also gives every account with storage the vertex ID    *)
(*   its storage trie will be rooted at (VidAllocator.Alloc).              *)
(*   Stage B, a pool, builds storage tries into a sink per worker (nimbus: *)
(*   deep branches take blocks of IDs from the same allocator) and sends   *)
(*   results through resultCh.                                             *)
(*   Stage C, the caller, reorders the results and feeds the account trie. *)
(*                                                                         *)
(* An error of any stage cancels pipelineCtx; so does the end of the       *)
(* caller's ctx.  A worker that sees pipelineCtx done drops what it holds. *)
(*                                                                         *)
(* Channels are sets: accounts carry their number, so their order in a     *)
(* channel decides nothing.                                                *)
(***************************************************************************)
EXTENDS Pool, Integers, FiniteSets

CONSTANTS N,                 \* accounts in the sorter, numbered 0 .. N-1
          WorkCap, ResultCap,\* 2*numWorkers in the code
          Storage,           \* accounts with a storage trie to build
          Block,             \* IDs a deep branch takes (16)
          DeepBranches,      \* blocks one storage trie may take (bound)
          FirstDynamic       \* FirstDynamicVID

ASSUME PipelineAssumption ==
    /\ Workers # {}
    /\ N \in Nat /\ WorkCap \in Nat \ {0} /\ ResultCap \in Nat \ {0}
    /\ Block \in Nat \ {0} /\ DeepBranches \in Nat /\ FirstDynamic \in Nat \ {0}
    /\ CanFail \in BOOLEAN /\ CanCancel \in BOOLEAN

Accounts == 0 .. N - 1
NoAccount == -1

VARIABLES
    next, reader,              \* Stage A: seq; "read" | "send" | "done"
    workCh, workClosed,
    pc, cur, sink,             \* Stage B, per worker: step, account, rows in its sink
    resultCh, resultClosed,    \* results: <<account, failed>>
    reorder, nextSeq,          \* Stage C: heap, number expected (those below it are applied)
    writerErr,
    firstErr, ctxDone,         \* setErr was called; the caller's ctx ended
    db,                        \* accounts whose storage rows are in the database
    top, ids, vTop,            \* allocator; <<account, first, n>> handed out; admin record
    result                     \* none | ok | err

stageA == <<next, reader, workCh, workClosed>>
stageB == <<pc, cur, sink, db>>
results == <<resultCh, resultClosed>>
stageC == <<reorder, nextSeq, writerErr>>
allocator == <<top, ids, vTop>>
vars == <<stageA, stageB, results, stageC, firstErr, ctxDone, allocator, result>>

Init ==
    /\ next = 0 /\ reader = "read" /\ workCh = {} /\ workClosed = FALSE
    /\ pc = [w \in Workers |-> "recv"]
    /\ cur = [w \in Workers |-> NoAccount]
    /\ sink = [w \in Workers |-> {}]
    /\ resultCh = {} /\ resultClosed = FALSE
    /\ reorder = {} /\ nextSeq = 0 /\ writerErr = FALSE
    /\ firstErr = FALSE /\ ctxDone = FALSE
    /\ db = {}
    /\ top = FirstDynamic - 1 /\ ids = {} /\ vTop = 0
    /\ result = "none"

Done == firstErr \/ ctxDone                        \* pipelineCtx.Done() is closed

\* VidAllocator.Alloc(n): the first of n consecutive IDs.
FirstIdOffByOne(t, n) == t - n
FirstId(t, n) == t - n + 1
Alloc(a, n) ==
    /\ top' = top + n
    /\ ids' = ids \cup {<<a, FirstId(top + n, n), n>>}
    /\ UNCHANGED vTop
Branches(a) == Cardinality({e \in ids : e[1] = a /\ e[3] = Block})

-----------------------------------------------------------------------------
CloseWork == workClosed' = TRUE                    \* defer close(workCh)

More == next < N

\* The callback of sorter.Iterate up to its select: seq, and the storage ID.
Read ==
    /\ reader = "read" /\ More
    /\ IF Done
       THEN /\ reader' = "done" /\ CloseWork /\ firstErr' = TRUE
            /\ UNCHANGED <<allocator, next>>
       ELSE /\ reader' = "send" /\ next' = next + 1
            /\ IF next \in Storage THEN Alloc(next, 1) ELSE UNCHANGED allocator
            /\ UNCHANGED <<workClosed, firstErr>>
    /\ UNCHANGED <<workCh, stageB, results, stageC, ctxDone, result>>

Send ==
    /\ reader = "send"
    /\ \/ /\ Cardinality(workCh) < WorkCap
          /\ workCh' = workCh \cup {next - 1}
          /\ reader' = "read"
          /\ UNCHANGED <<workClosed, firstErr>>
       \/ /\ Done
          /\ reader' = "done" /\ CloseWork /\ firstErr' = TRUE
          /\ UNCHANGED workCh
    /\ UNCHANGED <<next, stageB, results, stageC, ctxDone, allocator, result>>

\* The iteration ends, or fails: a blob does not decode, a read fails.
ReadEnds ==
    /\ reader = "read"
    /\ \/ ~More /\ UNCHANGED firstErr
       \/ CanFail /\ firstErr' = TRUE
    /\ reader' = "done" /\ CloseWork
    /\ UNCHANGED <<next, workCh, stageB, results, stageC, ctxDone, allocator, result>>

-----------------------------------------------------------------------------
Move(w, from, to) == pc[w] = from /\ pc' = [pc EXCEPT ![w] = to]

\* A drained item is dropped when pipelineCtx is done.
Receive(w) ==
    /\ \E a \in workCh :
        /\ workCh' = workCh \ {a}
        /\ IF Done
           THEN Move(w, "recv", "recv") /\ UNCHANGED cur
           ELSE Move(w, "recv", "build") /\ cur' = [cur EXCEPT ![w] = a]
    /\ UNCHANGED <<next, reader, workClosed, sink, db, results, stageC,
                   firstErr, ctxDone, allocator, result>>

\* A branch below the static levels takes a block of IDs.
BuildBranch(w) ==
    /\ pc[w] = "build" /\ cur[w] \in Storage
    /\ Branches(cur[w]) < DeepBranches
    /\ Alloc(cur[w], Block)
    /\ UNCHANGED <<stageA, stageB, results, stageC, firstErr, ctxDone, result>>

\* computeAccountResult, then the select that sends the result.  The rows stay
\* in the worker's sink or are flushed when it passes its threshold.
Rows(w) == IF cur[w] \in Storage THEN {cur[w]} ELSE {}
Build(w) ==
    \E failed \in IF CanFail /\ cur[w] \in Storage THEN BOOLEAN ELSE {FALSE} :
        /\ \/ /\ Cardinality(resultCh) < ResultCap
              /\ resultCh' = resultCh \cup {<<cur[w], failed>>}
           \/ Done /\ UNCHANGED resultCh
        /\ Move(w, "build", "recv")
        /\ IF failed THEN UNCHANGED <<sink, db>>
           ELSE \/ sink' = [sink EXCEPT ![w] = @ \cup Rows(w)] /\ UNCHANGED db
                \/ db' = db \cup sink[w] \cup Rows(w) /\ sink' = [sink EXCEPT ![w] = {}]
        /\ UNCHANGED <<stageA, cur, resultClosed, stageC, firstErr, ctxDone,
                       allocator, result>>

\* workCh is closed and drained: the deferred sink Close, then workerWg.Done.
ExitUnflushed(w) == sink' = [sink EXCEPT ![w] = {}] /\ UNCHANGED <<db, firstErr>>
CloseSink(w) ==
    \/ db' = db \cup sink[w] /\ sink' = [sink EXCEPT ![w] = {}] /\ UNCHANGED firstErr
    \/ CanFail /\ sink[w] # {} /\ firstErr' = TRUE /\ UNCHANGED <<sink, db>>
Exit(w) ==
    /\ workCh = {} /\ workClosed
    /\ Move(w, "recv", "exit")
    /\ CloseSink(w)
    /\ UNCHANGED <<stageA, cur, results, stageC, ctxDone, allocator, result>>

\* go func() { workerWg.Wait(); close(resultCh) }()
AllExited == \A w \in Workers : pc[w] = "exit"
CloseResults ==
    /\ ~resultClosed /\ AllExited
    /\ resultClosed' = TRUE
    /\ UNCHANGED <<stageA, stageB, resultCh, stageC, firstErr, ctxDone, allocator, result>>

-----------------------------------------------------------------------------
\* The heap's first element is applied while its number is the next one.
First(heap) == CHOOSE r \in heap : \A s \in heap : r[1] <= s[1]
InSeqAny(heap, n) == heap # {}
InSeq(heap, n) == heap # {} /\ First(heap)[1] = n

\* for res := range resultCh: push; after an error only drain.
Collect ==
    /\ result = "none" /\ (writerErr \/ ~InSeq(reorder, nextSeq))
    /\ \E r \in resultCh :
        /\ resultCh' = resultCh \ {r}
        /\ reorder' = IF writerErr THEN reorder ELSE reorder \cup {r}
    /\ UNCHANGED <<stageA, stageB, resultClosed, nextSeq, writerErr,
                   firstErr, ctxDone, allocator, result>>

\* applyResult: the build error of the result, or a failure of its own (code
\* row, account leaf), ends the loop.  The account trie's own branches take
\* blocks of IDs too.
Apply ==
    LET r == First(reorder) IN
    /\ result = "none" /\ ~writerErr /\ InSeq(reorder, nextSeq)
    /\ reorder' = reorder \ {r}
    /\ \/ /\ ~r[2]
          /\ nextSeq' = nextSeq + 1
          /\ \/ UNCHANGED allocator
             \/ Branches(NoAccount) < DeepBranches /\ Alloc(NoAccount, Block)
          /\ UNCHANGED <<writerErr, firstErr>>
       \/ /\ r[2] \/ CanFail
          /\ writerErr' = TRUE /\ firstErr' = TRUE
          /\ UNCHANGED <<nextSeq, allocator>>
    /\ UNCHANGED <<stageA, stageB, results, ctxDone, result>>

\* resultCh is closed: readerWg.Wait, the error tests, the root, the last
\* flushes and (nimbus) the admin record with the allocator's high-water mark.
\* nimbus also refuses a trie without leaves.
VTopOfLastBlock ==
    IF ids = {} THEN 0 ELSE CHOOSE t \in {e[2] : e \in ids} : \A e \in ids : e[2] <= t
VTop == IF ids = {} THEN 0 ELSE top
Joined == resultClosed /\ resultCh = {} /\ reader = "done"
Finish ==
    /\ result = "none" /\ Joined /\ (writerErr \/ ~InSeq(reorder, nextSeq))
    /\ \/ /\ firstErr \/ writerErr \/ CanFail \/ nextSeq = 0
          /\ result' = "err" /\ UNCHANGED vTop
       \/ /\ ~firstErr /\ ~writerErr
          /\ result' = "ok" /\ vTop' = VTop
    /\ UNCHANGED <<stageA, stageB, results, stageC, firstErr, ctxDone, top, ids>>

\* The caller's context ends.
Cancel ==
    /\ CanCancel /\ ~ctxDone /\ result = "none"
    /\ ctxDone' = TRUE
    /\ UNCHANGED <<stageA, stageB, results, stageC, firstErr, allocator, result>>

Runs ==
    \/ Read \/ Send \/ ReadEnds
    \/ \E w \in Workers : Receive(w) \/ BuildBranch(w) \/ Build(w) \/ Exit(w)
    \/ CloseResults \/ Collect \/ Apply \/ Finish
Next == Runs \/ Cancel

\* While a goroutine can run, one runs; the caller need not cancel.
Spec == Init /\ [][Next]_vars /\ WF_vars(Runs)

-----------------------------------------------------------------------------
TypeOK ==
    /\ next \in 0 .. N /\ reader \in {"read", "send", "done"}
    /\ reader = "send" => next > 0
    /\ workCh \subseteq Accounts /\ workClosed \in BOOLEAN
    /\ pc \in [Workers -> {"recv", "build", "exit"}]
    /\ cur \in [Workers -> Accounts \cup {NoAccount}]
    /\ \A w \in Workers : pc[w] = "build" => cur[w] \in Accounts
    /\ sink \in [Workers -> SUBSET Accounts] /\ db \subseteq Accounts
    /\ resultCh \subseteq Accounts \X BOOLEAN /\ resultClosed \in BOOLEAN
    /\ reorder \subseteq Accounts \X BOOLEAN /\ nextSeq \in 0 .. N
    /\ writerErr \in BOOLEAN /\ firstErr \in BOOLEAN /\ ctxDone \in BOOLEAN
    /\ top \in Nat /\ vTop \in Nat
    /\ ids \subseteq (Accounts \cup {NoAccount}) \X Nat \X {1, Block}
    /\ result \in {"none", "ok", "err"}

\* writeState returns a state root without an error, while the caller's context
\* is alive, only when every account of the sorter is a leaf of the account trie
\* and the rows of every storage trie have left the worker sinks.
OkIsComplete ==
    result = "ok" /\ ~ctxDone => nextSeq = N /\ Storage \cap Accounts \subseteq db

\* When writeState returns, no goroutine of the pipeline is left that could
\* still read the sorter, write rows or send on resultCh: the caller closes
\* the sorter and the database next.
JoinedBeforeReturn ==
    result # "none" => reader = "done" /\ AllExited /\ resultCh = {}

\* Vertex IDs handed out to concurrent builders (reader, workers, the account
\* trie) never overlap and lie above the static range.
IdsDisjoint ==
    /\ \A d \in ids : FirstDynamic <= d[2]
    /\ \A d, e \in ids : d # e => d[2] + d[3] <= e[2] \/ e[2] + e[3] <= d[2]

\* The admin record's vTop is at least every ID in the database, so the node
\* never hands one of them out again.
VTopCoversIds ==
    result = "ok" => \A e \in ids : e[2] + e[3] - 1 <= vTop

\* The account trie is fed in address-hash order: a step adds the next account
\* or none, and never before its predecessors' results have arrived.
FedInOrder ==
    [][nextSeq' # nextSeq => /\ nextSeq' = nextSeq + 1
                            /\ \E r \in reorder : r = <<nextSeq, FALSE>>]_vars
=============================================================================
