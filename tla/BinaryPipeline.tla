--------------------------- MODULE BinaryPipeline ---------------------------
(***************************************************************************)
(* computeBinaryRootStreamingParallel (generator/binary_stack_trie.go):    *)
(* Phase 2 of the binary-trie generator.  The reader groups the sorted     *)
(* entries by stem and numbers the groups, workers hash them in parallel,  *)
(* the resequencer restores the order and the builder feeds the trie.      *)
(*                                                                         *)
(* With a target size the reader asks SizeTracker (size_tracker.go) before *)
(* every entry, and the builder calibrates it after every stem.  The       *)
(* tracker estimates the size on disk from counters that the builder and   *)
(* the code writer advance and from a ratio measured at milestones.        *)
(***************************************************************************)
EXTENDS Integers, Sequences, FiniteSetsExt

CONSTANTS Workers,
          MaxInFlight,      \* capacity of sem (64)
          WorkCap, ResultCap, BuilderCap,
          Targets,          \* the TargetSizes considered, in entries; 0: no target
          Milestones,       \* where the tracker calibrates, in entries
          DiskSizes,        \* what dirSize may find
          CanPanic,         \* may computeStemNodeHash panic
          ReadsFail         \* may a read of the temp DB fail

ASSUME PipelineAssumption ==
    /\ Workers # {} /\ IsFiniteSet(Workers)
    /\ {MaxInFlight, WorkCap, ResultCap, BuilderCap} \subseteq Nat \ {0}
    /\ Targets \subseteq Nat /\ Milestones \in Seq(Nat) /\ DiskSizes \subseteq Nat
    /\ {CanPanic, ReadsFail} \subseteq BOOLEAN

(* An entry is its key, <<stem, suffix>>, and the account it belongs to.   *)
Stem(e) == e[1][1]
Group(es, q) == [seq |-> q, entries |-> es]
NoGroup == Group(<<>>, 0)

VARIABLES
    entries,                       \* the temp DB in key order
    reader, pos, cur, seqNum,      \* step, next entry, currentEntries, counter
    iterErr,                       \* what iter.Error() would say, never asked
    sem, workCh, workClosed,
    worker, held,                  \* per worker: step and group
    resultCh, resultClosed,
    reseq, pending, nextSeq,
    builderCh, builderClosed,
    fed, builder,                  \* groups given to feedStem; step
    bytes,                         \* of stem blobs and trie nodes written
    codes,                         \* code blobs put by the Phase-1 writer
    target,                        \* TargetSize of this run
    ratio, lastReport, nextIdx,    \* the tracker; ratio is <<disk, logical>>
    readLogical, calLogical,       \* logical bytes loaded by reader and builder
    canceled, errs, verdict

readerVars == <<entries, iterErr, reader, pos, cur, seqNum>>
workerVars == <<worker, held>>
reseqVars == <<reseq, pending, nextSeq>>
buildVars == <<fed, builder, bytes>>
sizes == <<codes, target, ratio, lastReport, nextIdx, readLogical, calLogical>>
vars == <<readerVars, sem, workCh, workClosed, workerVars, resultCh,
          resultClosed, reseqVars, builderCh, builderClosed, buildVars, sizes,
          canceled, errs, verdict>>

Init ==
    /\ entries = <<>> /\ reader = "idle" /\ pos = 1 /\ cur = NoGroup /\ seqNum = 0
    /\ iterErr = FALSE /\ sem = 0 /\ workCh = <<>> /\ workClosed = FALSE
    /\ worker = [w \in Workers |-> "recv"]
    /\ held = [w \in Workers |-> NoGroup]
    /\ resultCh = <<>> /\ resultClosed = FALSE
    /\ reseq = "recv" /\ pending = {} /\ nextSeq = 0
    /\ builderCh = <<>> /\ builderClosed = FALSE
    /\ fed = <<>> /\ builder = "run" /\ bytes = 0
    /\ codes = {} /\ target \in Targets
    /\ ratio = <<1, 1>> /\ lastReport = 0 /\ nextIdx = 1
    /\ readLogical = 0 /\ calLogical = 0
    /\ canceled = FALSE /\ errs = 0 /\ verdict = "running"

-----------------------------------------------------------------------------
(* The tracker, when there is a target.                                    *)

\* logicalFn: stem blobs and trie nodes, and the code written so far.
Logical == bytes + Cardinality(codes)

\* stoppableIterator.Next asks ShouldStop: l := logicalFn()
LoadLogical ==
    /\ reader = "next" /\ target > 0
    /\ readLogical' = Logical
    /\ reader' = "estimate"
    /\ UNCHANGED <<entries, iterErr, pos, cur, seqNum, sem, workCh, workClosed,
                   workerVars, resultCh, resultClosed, reseqVars, builderCh, builderClosed,
                   buildVars, codes, target, ratio, lastReport, nextIdx,
                   calLogical, canceled, errs, verdict>>

\* The ratio of this moment; lastReport never goes back.  Only the reader
\* calls EstimatedActual, so its CompareAndSwap succeeds.
EstimatedActual ==
    LET est == (readLogical * ratio[1]) \div ratio[2]
    IN  IF est <= lastReport THEN lastReport ELSE est
ShouldStop ==
    /\ reader = "estimate"
    /\ lastReport' = EstimatedActual
    /\ readLogical' = 0
    /\ reader' = IF lastReport' >= target THEN "end" ELSE "read"
    /\ UNCHANGED <<entries, iterErr, pos, cur, seqNum, sem, workCh, workClosed,
                   workerVars, resultCh, resultClosed, reseqVars, builderCh, builderClosed,
                   buildVars, codes, target, ratio, nextIdx, calLogical,
                   canceled, errs, verdict>>

\* afterStem calls MaybeCalibrate: the next milestone is due for the bytes
\* loaded, and only the builder claims milestones.
MilestoneDue(l) == nextIdx <= Len(Milestones) /\ l >= Milestones[nextIdx]
Calibrate ==
    /\ builder = "calibrate"
    /\ IF MilestoneDue(Logical)
       THEN builder' = "measure" /\ nextIdx' = nextIdx + 1 /\ calLogical' = Logical
       ELSE builder' = "run" /\ UNCHANGED <<nextIdx, calLogical>>
    /\ UNCHANGED <<readerVars, sem, workCh, workClosed, workerVars, resultCh,
                   resultClosed, reseqVars, builderCh, builderClosed, fed, bytes,
                   codes, target, ratio, lastReport, readLogical, canceled,
                   errs, verdict>>

\* The flush and dirSize; when dirSize fails the ratio stays and the
\* milestone is spent.
Measure ==
    /\ builder = "measure"
    /\ builder' = "run" /\ calLogical' = 0
    /\ ratio' \in {ratio} \cup
                  {<<d, calLogical>> : d \in IF calLogical = 0 THEN {} ELSE DiskSizes}
    /\ UNCHANGED <<readerVars, sem, workCh, workClosed, workerVars, resultCh,
                   resultClosed, reseqVars, builderCh, builderClosed, fed, bytes,
                   codes, target, lastReport, nextIdx, readLogical, canceled,
                   errs, verdict>>

-----------------------------------------------------------------------------
\* for iter.Next(): an entry joins the current stem, or ends it, in which
\* case it is only kept once the stem is dispatched.
Asked == IF target > 0 THEN reader = "read" ELSE reader = "next"
ReadEntry ==
    /\ Asked /\ pos <= Len(entries)
    /\ IF cur.entries # <<>> /\ Stem(Head(cur.entries)) # Stem(entries[pos])
       THEN reader' = "acquire" /\ UNCHANGED <<pos, cur>>
       ELSE /\ cur' = Group(Append(cur.entries, entries[pos]), seqNum)
            /\ pos' = pos + 1
            /\ reader' = "next"
    /\ UNCHANGED <<entries, iterErr, seqNum, sem, workCh, workClosed,
                   workerVars, resultCh, resultClosed, reseqVars, builderCh, builderClosed,
                   buildVars, sizes, canceled, errs, verdict>>

\* The iterator is exhausted or stopped, or a read of the temp DB failed,
\* which iter.Next answers alike: the loop ends and iter.Error is not asked.
\* The last group is still to flush, unless the pipeline was cancelled.
LastGroup == cur.entries # <<>> /\ ~canceled
IterEnd ==
    /\ \/ reader = "end" /\ UNCHANGED iterErr
       \/ Asked /\ pos > Len(entries) /\ UNCHANGED iterErr
       \/ ReadsFail /\ Asked /\ pos <= Len(entries) /\ iterErr' = TRUE
    /\ reader' = IF LastGroup THEN "flushAcquire" ELSE "close"
    /\ UNCHANGED <<entries, pos, cur, seqNum, sem, workCh, workClosed, workerVars,
                   resultCh, resultClosed, reseqVars, builderCh,
                   builderClosed, buildVars, sizes, canceled, errs, verdict>>

\* case <-ctx.Done(): goto done
DoneCase == canceled

\* select { case sem <- struct{}{}: case <-ctx.Done(): }
Acquire ==
    /\ reader \in {"acquire", "flushAcquire"}
    /\ \/ /\ sem < MaxInFlight
          /\ sem' = sem + 1
          /\ reader' = IF reader = "acquire" THEN "send" ELSE "flushSend"
       \/ /\ DoneCase
          /\ reader' = IF reader = "acquire" THEN "close" ELSE "flushSend"
          /\ UNCHANGED sem
    /\ UNCHANGED <<entries, iterErr, pos, cur, seqNum, workCh, workClosed,
                   workerVars, resultCh, resultClosed, reseqVars, builderCh, builderClosed,
                   buildVars, sizes, canceled, errs, verdict>>

\* select { case workCh <- work: case <-ctx.Done(): }
Dispatch ==
    /\ reader \in {"send", "flushSend"}
    /\ \/ /\ Len(workCh) < WorkCap
          /\ workCh' = Append(workCh, cur)
          /\ seqNum' = seqNum + 1
          /\ IF reader = "send"
             THEN /\ reader' = "next"
                  /\ cur' = Group(<<entries[pos]>>, seqNum + 1)
                  /\ pos' = pos + 1
             ELSE reader' = "close" /\ cur' = NoGroup /\ UNCHANGED pos
       \/ /\ DoneCase
          /\ reader' = "close"
          /\ UNCHANGED <<workCh, seqNum, cur, pos>>
    /\ UNCHANGED <<entries, iterErr, sem, workClosed, workerVars, resultCh, resultClosed,
                   reseqVars, builderCh, builderClosed, buildVars, sizes,
                   canceled, errs, verdict>>

CloseWorkCh ==
    /\ reader = "close"
    /\ reader' = "join" /\ workClosed' = TRUE
    /\ UNCHANGED <<entries, iterErr, pos, cur, seqNum, sem, workCh,
                   workerVars, resultCh, resultClosed, reseqVars, builderCh, builderClosed,
                   buildVars, sizes, canceled, errs, verdict>>

\* workerWg.Wait, reseqWg.Wait, builderWg.Wait, then errCh and ctx.Err.
JoinWorkers == \A w \in Workers : worker[w] = "exit"
JoinReseq == JoinWorkers /\ reseq = "exit"
JoinAll == JoinWorkers /\ reseq = "exit" /\ builder = "done"
Join ==
    /\ reader = "join" /\ JoinAll
    /\ reader' = "returned"
    /\ verdict' = IF errs > 0 \/ canceled THEN "error" ELSE "ok"
    /\ UNCHANGED <<entries, iterErr, pos, cur, seqNum, sem, workCh, workClosed,
                   workerVars, resultCh, resultClosed, reseqVars, builderCh,
                   builderClosed, buildVars, sizes, canceled, errs>>

-----------------------------------------------------------------------------
WorkerMoves(w, from, to) == worker[w] = from /\ worker' = [worker EXCEPT ![w] = to]

TakeWork(w) ==
    /\ \/ /\ workCh # <<>>
          /\ WorkerMoves(w, "recv", "hash")
          /\ held' = [held EXCEPT ![w] = Head(workCh)]
          /\ workCh' = Tail(workCh)
       \/ /\ workCh = <<>> /\ workClosed
          /\ WorkerMoves(w, "recv", "exit")
          /\ UNCHANGED <<held, workCh>>
    /\ UNCHANGED <<readerVars, sem, workClosed, resultCh, resultClosed,
                   reseqVars, builderCh, builderClosed, buildVars, sizes,
                   canceled, errs, verdict>>

SendResult(w) ==
    /\ \/ /\ Len(resultCh) < ResultCap
          /\ WorkerMoves(w, "hash", "release")
          /\ resultCh' = Append(resultCh, held[w])
       \/ canceled /\ WorkerMoves(w, "hash", "exit") /\ UNCHANGED resultCh
    /\ UNCHANGED <<readerVars, sem, workCh, workClosed, held, resultClosed,
                   reseqVars, builderCh, builderClosed, buildVars, sizes,
                   canceled, errs, verdict>>

WorkerPanics(w) ==
    /\ CanPanic
    /\ WorkerMoves(w, "hash", "exit")
    /\ errs' = errs + 1 /\ canceled' = TRUE
    /\ UNCHANGED <<readerVars, sem, workCh, workClosed, held, resultCh,
                   resultClosed, reseqVars, builderCh, builderClosed,
                   buildVars, sizes, verdict>>

FreeTwice == sem - 2
FreeSlot == sem - 1
Release(w) ==
    /\ WorkerMoves(w, "release", "recv")
    /\ sem' = FreeSlot
    /\ UNCHANGED <<readerVars, workCh, workClosed, held, resultCh,
                   resultClosed, reseqVars, builderCh, builderClosed,
                   buildVars, sizes, canceled, errs, verdict>>

CloseResultCh ==
    /\ ~resultClosed /\ JoinWorkers
    /\ resultClosed' = TRUE
    /\ UNCHANGED <<readerVars, sem, workCh, workClosed, workerVars, resultCh,
                   reseqVars, builderCh, builderClosed, buildVars, sizes,
                   canceled, errs, verdict>>

-----------------------------------------------------------------------------
\* The group to hand on: the one with the next number, once it is there.
ReadyAny == pending
Ready == {r \in pending : r.seq = nextSeq}

\* for r := range resultCh { pending[r.seqNum] = r ...
Collect ==
    /\ reseq = "recv" /\ Ready = {}
    /\ \/ /\ resultCh # <<>>
          /\ pending' = pending \cup {Head(resultCh)}
          /\ resultCh' = Tail(resultCh)
          /\ UNCHANGED <<reseq, builderClosed>>
       \/ /\ resultCh = <<>> /\ resultClosed
          /\ reseq' = "exit" /\ builderClosed' = TRUE
          /\ UNCHANGED <<pending, resultCh>>
    /\ UNCHANGED <<readerVars, sem, workCh, workClosed, workerVars,
                   resultClosed, nextSeq, builderCh, buildVars, sizes,
                   canceled, errs, verdict>>

Emit ==
    /\ reseq = "recv"
    /\ \E r \in Ready :
          /\ pending' = pending \ {r} /\ nextSeq' = nextSeq + 1
          /\ \/ /\ Len(builderCh) < BuilderCap
                /\ builderCh' = Append(builderCh, r)
                /\ UNCHANGED <<reseq, builderClosed, errs>>
             \/ /\ canceled
                /\ reseq' = "exit" /\ builderClosed' = TRUE /\ errs' = errs + 1
                /\ UNCHANGED builderCh
    /\ UNCHANGED <<readerVars, sem, workCh, workClosed, workerVars, resultCh,
                   resultClosed, buildVars, sizes, canceled, verdict>>

\* feedStem, writeStemBlob, afterStem; finish.
FeedStem ==
    /\ builder = "run" /\ builderCh # <<>>
    /\ fed' = Append(fed, Head(builderCh))
    /\ bytes' = bytes + Len(Head(builderCh).entries)
    /\ builder' = IF target > 0 THEN "calibrate" ELSE "run"
    /\ builderCh' = Tail(builderCh)
    /\ UNCHANGED <<readerVars, sem, workCh, workClosed, workerVars, resultCh,
                   resultClosed, reseqVars, builderClosed, sizes,
                   canceled, errs, verdict>>

Finish ==
    /\ builder = "run" /\ builderCh = <<>> /\ builderClosed
    /\ builder' = "done"
    /\ UNCHANGED <<readerVars, sem, workCh, workClosed, workerVars, resultCh,
                   resultClosed, reseqVars, builderCh, builderClosed, fed, bytes,
                   sizes, canceled, errs, verdict>>

ReaderStep ==
    \/ LoadLogical \/ ShouldStop \/ ReadEntry \/ IterEnd \/ Acquire \/ Dispatch
    \/ CloseWorkCh \/ Join
WorkerStep(w) == TakeWork(w) \/ SendResult(w) \/ WorkerPanics(w) \/ Release(w)
BuilderStep == FeedStem \/ Calibrate \/ Measure \/ Finish
Next ==
    \/ ReaderStep \/ CloseResultCh \/ Collect \/ Emit \/ BuilderStep
    \/ \E w \in Workers : WorkerStep(w)

\* The scheduler runs every goroutine; select picks any ready case.
Fairness ==
    /\ WF_vars(ReaderStep) /\ WF_vars(CloseResultCh)
    /\ WF_vars(Collect \/ Emit) /\ WF_vars(BuilderStep)
    /\ \A w \in Workers : WF_vars(WorkerStep(w))

-----------------------------------------------------------------------------
\* The stems of a sequence of entries, in order: what the sequential
\* computeBinaryRootStreaming feeds to the builder.  The entries of a stem
\* are those with as many ends of stems before them.
Boundary(es, i) == i = Len(es) \/ Stem(es[i]) # Stem(es[i + 1])
Ends(es) == {i \in 1..Len(es) : Boundary(es, i)}
EndsBefore(es, i) == Cardinality({j \in Ends(es) : j < i})
Grouped(es) ==
    LET members(k) == {i \in 1..Len(es) : EndsBefore(es, i) = k - 1}
    IN  [k \in 1..Cardinality(Ends(es)) |->
            Group(SubSeq(es, Min(members(k)), Max(members(k))), k - 1)]
Consumed == SubSeq(entries, 1, pos - 1)

\* Channels stay within their capacities and the semaphore within its own.
TypeOK ==
    /\ reader \in {"idle", "next", "estimate", "read", "end", "acquire",
                   "flushAcquire", "send", "flushSend", "close", "join", "returned"}
    /\ pos \in 1..(Len(entries) + 1) /\ seqNum \in 0..Len(entries)
    /\ sem \in 0..MaxInFlight
    /\ Len(workCh) <= WorkCap /\ Len(resultCh) <= ResultCap
    /\ Len(builderCh) <= BuilderCap
    /\ worker \in [Workers -> {"recv", "hash", "release", "exit"}]
    /\ nextSeq \in 0..seqNum /\ Len(fed) <= nextSeq
    /\ builder \in {"run", "calibrate", "measure", "done"}
    /\ ratio \in Nat \X (Nat \ {0}) /\ nextIdx \in 1..(Len(Milestones) + 1)
    /\ errs \in 0..(Cardinality(Workers) + 1)
    /\ verdict \in {"running", "ok", "error"}

\* At every moment the builder has been fed a prefix of what the sequential
\* variant would feed from the consumed entries: sorted, nothing skipped or
\* repeated, whatever order the workers finish in.
FedInOrder == \E n \in 0 .. Len(Grouped(Consumed)) : fed = SubSeq(Grouped(Consumed), 1, n)

\* A root is only returned for all the entries read: neither the last stem,
\* nor a group held back by the resequencer, nor one in the hands of a worker
\* that panicked is missing.  Entries are left unread only when the tracker
\* has reported the target reached, or a read of the temp DB failed: that
\* failure is dropped, and the root of the entries before it returned as ok.
OkFedEverything ==
    verdict = "ok" =>
        /\ fed = Grouped(Consumed)
        /\ Consumed # entries => iterErr \/ (target > 0 /\ lastReport >= target)
=============================================================================
