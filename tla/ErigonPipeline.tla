--------------------------- MODULE ErigonPipeline ---------------------------
(***************************************************************************)
(* writeSnapshots of client/erigon.  The main goroutine sends entities to  *)
(* encode workers, whose rows travel in batches to one writer per domain.  *)
(* It then drains the spec's storage through senders of its own, joins the *)
(* writers, and starts the emitters that write the snapshot files while it *)
(* folds the commitment.                                                   *)
(*                                                                         *)
(* An item is an entity, a chunk of a giant's slots, or a spec slot.  It   *)
(* has one row per entry of RowsOf, the domain the row is for, in the      *)
(* order its encoder sends them; a slot with a zero value has none.  The   *)
(* sixteen commit-input stores are one, as they have one writer, and the   *)
(* fold of their rows is one step: all it reads was final before.          *)
(***************************************************************************)
EXTENDS Pool, Integers, Sequences, FiniteSets, Functions

CONSTANTS
    Main,             \* the main goroutine
    Entities, Slots,  \* items sent to the workers; items main drains
    RowsOf,
    EntityCap

DomainOrder == <<"accounts", "storage", "code", "commitIn">>
Channels == Range(DomainOrder)
MaxRows == 4

ASSUME ErigonAssumption ==
    /\ Entities \in Nat /\ Slots \in Nat /\ Main \notin Workers
    /\ RowsOf \in [1 .. Entities + Slots -> Seq(Channels)]
    /\ \A i \in 1 .. Entities + Slots : Len(RowsOf[i]) <= MaxRows
    /\ {BatchSize, EntityCap, ChanCap} \subseteq Nat \ {0}

Domains == Channels \ {"commitIn"}
AllItems == 1 .. Entities + Slots
Producers == Workers \cup {Main}
RowsIn(d) ==
    {r \in AllItems \X (1 .. MaxRows) : r[2] <= Len(RowsOf[r[1]]) /\ RowsOf[r[1]][r[2]] = d}

VARIABLES
    main,             \* send | drain | flush | close | join | fold | wait | returned
    nextItem,         \* the next item main sends or drains
    itemCh, itemsClosed, \* entityCh
    item, row,        \* per producer: the item it encodes (0: none), its next row
    buf,              \* per producer and domain: the sender's batch
    worker, writer,   \* run | flush | done, run | done
    chan, chanClosed, \* per-domain batch channels
    counts, inStore,  \* rows counted by the encoders; rows in the stores
    done,             \* pipelineCtx is done
    encodeErr, domainErr, pipelineErr,
    emit, closed,     \* per emitter: off | run | check | done; is its store closed
    kv, indexed,      \* rows of the domain's .kv; has it its accessors
    folded, emitErr, outcome

entities == <<nextItem, itemCh, itemsClosed>>
rows == <<item, row, buf, worker, chan, chanClosed, writer, counts, inStore>>
errs == <<done, encodeErr, domainErr, pipelineErr>>
out == <<emit, closed, kv, indexed, emitErr>>
erigonVars == <<main, entities, rows, errs, out, folded, outcome>>

ErigonInit ==
    /\ main = "send" /\ nextItem = 1 /\ itemCh = <<>> /\ itemsClosed = FALSE
    /\ item = [p \in Producers |-> 0] /\ row = [p \in Producers |-> 1]
    /\ buf = [p \in Producers |-> [d \in Channels |-> <<>>]]
    /\ worker = [w \in Workers |-> "run"] /\ writer = [d \in Channels |-> "run"]
    /\ chan = [d \in Channels |-> <<>>] /\ chanClosed = FALSE
    /\ counts = [d \in Channels |-> 0] /\ inStore = [d \in Channels |-> {}]
    /\ done = FALSE /\ encodeErr = FALSE /\ domainErr = FALSE /\ pipelineErr = FALSE
    /\ emit = [d \in Domains |-> "off"] /\ closed = [d \in Domains |-> FALSE]
    /\ kv = [d \in Domains |-> {}] /\ indexed = [d \in Domains |-> FALSE]
    /\ folded = {} /\ emitErr = FALSE /\ outcome = "none"

CallerCancels ==
    /\ CanCancel /\ ~done /\ main # "returned" /\ done' = TRUE
    /\ UNCHANGED <<main, entities, rows, encodeErr, domainErr, pipelineErr, out, folded,
                   outcome>>

-----------------------------------------------------------------------------
(* Batched senders: one per producer and domain. *)

\* flush hands the batch to the channel.  (When the context is done as well,
\* the select may take either case.)
Ship(p, d, batch) ==
    /\ Len(chan[d]) < ChanCap
    /\ chan' = [chan EXCEPT ![d] = Append(@, batch)]
    /\ buf' = [buf EXCEPT ![p][d] = <<>>]

\* send: the row joins the batch, and a full batch leaves.
Buffered(p, d, r) ==
    LET batch == Append(buf[p][d], r) IN
    IF Len(batch) >= BatchSize
    THEN Ship(p, d, batch)
    ELSE buf' = [buf EXCEPT ![p][d] = batch] /\ UNCHANGED chan

RowDomain(p) == RowsOf[item[p]][row[p]]
Unsent(p) == item[p] # 0 /\ row[p] <= Len(RowsOf[item[p]])
Sent(p) == item[p] # 0 /\ row[p] > Len(RowsOf[item[p]])

\* encodeEntity and encodeStorageSlot send a row and count it once it is sent.
SendRow(p) ==
    /\ Unsent(p)
    /\ Buffered(p, RowDomain(p), <<item[p], row[p]>>)
    /\ counts' = [counts EXCEPT ![RowDomain(p)] = @ + 1]
    /\ row' = [row EXCEPT ![p] = @ + 1]
    /\ UNCHANGED <<item, worker, chanClosed, writer, inStore>>

\* A full batch meets a context that is done.
SendAborts(p) == Unsent(p) /\ done /\ Len(buf[p][RowDomain(p)]) + 1 >= BatchSize

Begin(p, i) == item' = [item EXCEPT ![p] = i] /\ row' = [row EXCEPT ![p] = 1]

\* flushAll without the commitment inputs:
FlushedDomains(p) == \A d \in Domains : buf[p][d] = <<>>

\* flushAll takes the domains in order.
Flushed(p) == \A d \in Channels : buf[p][d] = <<>>
NextToFlush(p) ==
    DomainOrder[CHOOSE k \in 1 .. 4 : /\ buf[p][DomainOrder[k]] # <<>>
                                      /\ \A j \in 1 .. k - 1 : buf[p][DomainOrder[j]] = <<>>]
FlushOne(p) == ~Flushed(p) /\ Ship(p, NextToFlush(p), buf[p][NextToFlush(p)])

-----------------------------------------------------------------------------
(* autofillEncodeWorker *)

WorkerEncodes(w) ==
    /\ worker[w] = "run"
    /\ \/ SendRow(w)
       \/ /\ Sent(w) /\ Begin(w, 0)
          /\ UNCHANGED <<buf, worker, chan, chanClosed, writer, counts, inStore>>
    /\ UNCHANGED <<main, entities, errs, out, folded, outcome>>

WorkerReceives(w) ==
    /\ worker[w] = "run" /\ item[w] = 0 /\ itemCh # <<>>
    /\ Begin(w, Head(itemCh)) /\ itemCh' = Tail(itemCh)
    /\ UNCHANGED <<main, nextItem, itemsClosed, buf, worker, chan, chanClosed, writer, counts,
                   inStore, errs, out, folded, outcome>>

WorkerSeesClose(w) ==
    /\ worker[w] = "run" /\ item[w] = 0 /\ itemCh = <<>> /\ itemsClosed
    /\ worker' = [worker EXCEPT ![w] = "flush"]
    /\ UNCHANGED <<main, entities, item, row, buf, chan, chanClosed, writer, counts, inStore,
                   errs, out, folded, outcome>>

WorkerFlushes(w) ==
    /\ worker[w] = "flush"
    /\ IF Flushed(w)
       THEN worker' = [worker EXCEPT ![w] = "done"] /\ UNCHANGED <<buf, chan>>
       ELSE FlushOne(w) /\ UNCHANGED worker
    /\ UNCHANGED <<main, entities, item, row, chanClosed, writer, counts, inStore, errs, out,
                   folded, outcome>>

\* The context is done, or the entity cannot be encoded (its balance
\* overflows); the goroutine reports the error and cancels.
WorkerFails(w) ==
    /\ \/ worker[w] = "run" /\ item[w] = 0 /\ done
       \/ worker[w] = "run" /\ SendAborts(w)
       \/ worker[w] = "run" /\ item[w] # 0 /\ row[w] = 1
       \/ worker[w] = "flush" /\ ~Flushed(w) /\ done
    /\ worker' = [worker EXCEPT ![w] = "done"]
    /\ encodeErr' = TRUE /\ done' = TRUE
    /\ UNCHANGED <<main, entities, item, row, buf, chan, chanClosed, writer, counts, inStore,
                   domainErr, pipelineErr, out, folded, outcome>>

-----------------------------------------------------------------------------
(* domainWriter and commitInWriter *)

WriterDrains(d) ==
    /\ writer[d] = "run" /\ chan[d] # <<>>
    /\ inStore' = [inStore EXCEPT ![d] = @ \cup Range(Head(chan[d]))]
    /\ chan' = [chan EXCEPT ![d] = Tail(@)]
    /\ UNCHANGED <<main, entities, item, row, buf, worker, chanClosed, writer, counts, errs,
                   out, folded, outcome>>

WriterSeesClose(d) ==
    /\ writer[d] = "run" /\ chan[d] = <<>> /\ chanClosed
    /\ writer' = [writer EXCEPT ![d] = "done"]
    /\ UNCHANGED <<main, entities, item, row, buf, worker, chan, chanClosed, counts, inStore,
                   errs, out, folded, outcome>>

\* The context is done, or a Put fails and the rest of the batch is lost.
WriterFails(d) ==
    /\ writer[d] = "run" /\ (done \/ chan[d] # <<>>)
    /\ writer' = [writer EXCEPT ![d] = "done"]
    /\ domainErr' = TRUE /\ done' = TRUE
    /\ UNCHANGED <<main, entities, item, row, buf, worker, chan, chanClosed, counts, inStore,
                   encodeErr, pipelineErr, out, folded, outcome>>

-----------------------------------------------------------------------------
(* The main goroutine *)

MainSends ==
    /\ main = "send" /\ nextItem <= Entities /\ ~pipelineErr
    /\ \/ /\ Len(itemCh) < EntityCap
          /\ itemCh' = Append(itemCh, nextItem) /\ nextItem' = nextItem + 1
          /\ UNCHANGED pipelineErr
       \/ done /\ pipelineErr' = TRUE /\ UNCHANGED <<itemCh, nextItem>>
    /\ UNCHANGED <<main, itemsClosed, rows, done, encodeErr, domainErr, out, folded, outcome>>

MainClosesEntities ==
    /\ main = "send" /\ ~itemsClosed /\ (nextItem > Entities \/ pipelineErr)
    /\ itemsClosed' = TRUE
    /\ UNCHANGED <<main, nextItem, itemCh, rows, errs, out, folded, outcome>>

\* encodeWg.Wait; without it:
NoEncodeWait == TRUE
EncodeWait == \A w \in Workers : worker[w] = "done"

\* The spec's storage is drained unless sending has failed.
MainJoinsEncoders ==
    /\ main = "send" /\ itemsClosed /\ EncodeWait
    /\ main' = IF pipelineErr THEN "close" ELSE "drain"
    /\ UNCHANGED <<entities, rows, errs, out, folded, outcome>>

MainDrains ==
    /\ main = "drain"
    /\ \/ /\ item[Main] = 0 /\ nextItem <= Entities + Slots
          /\ Begin(Main, nextItem) /\ nextItem' = nextItem + 1
          /\ UNCHANGED <<main, buf, worker, chan, chanClosed, writer, counts, inStore,
                         pipelineErr>>
       \/ SendRow(Main) /\ UNCHANGED <<main, nextItem, pipelineErr>>
       \/ /\ Sent(Main) /\ Begin(Main, 0)
          /\ UNCHANGED <<main, nextItem, buf, worker, chan, chanClosed, writer, counts, inStore,
                         pipelineErr>>
       \/ SendAborts(Main) /\ pipelineErr' = TRUE /\ main' = "close"
          /\ UNCHANGED <<nextItem, rows>>
       \/ /\ item[Main] = 0 /\ nextItem > Entities + Slots
          /\ main' = "flush" /\ UNCHANGED <<nextItem, rows, pipelineErr>>
    /\ UNCHANGED <<itemCh, itemsClosed, done, encodeErr, domainErr, out, folded, outcome>>

MainFlushes ==
    /\ main = "flush"
    /\ \/ Flushed(Main) /\ main' = "close" /\ UNCHANGED <<buf, chan, pipelineErr>>
       \/ FlushOne(Main) /\ UNCHANGED <<main, pipelineErr>>
       \/ /\ ~Flushed(Main) /\ done
          /\ pipelineErr' = TRUE /\ main' = "close" /\ UNCHANGED <<buf, chan>>
    /\ UNCHANGED <<entities, item, row, worker, chanClosed, writer, counts, inStore,
                   done, encodeErr, domainErr, out, folded, outcome>>

MainClosesChannels ==
    /\ main = "close" /\ chanClosed' = TRUE /\ main' = "join"
    /\ UNCHANGED <<entities, item, row, buf, worker, chan, writer, counts, inStore, errs, out,
                   folded, outcome>>

\* A return runs the deferred closes of the stores.
Return(res) ==
    /\ main' = "returned" /\ outcome' = res /\ closed' = [d \in Domains |-> TRUE]
    /\ UNCHANGED <<entities, rows, errs, kv, indexed, emitErr>>

\* The three tests after writerWg.Wait.
Surfaced == encodeErr \/ domainErr \/ pipelineErr

MainJoinsWriters ==
    /\ main = "join" /\ \A d \in Channels : writer[d] = "done"
    /\ \/ Return("err") /\ UNCHANGED <<emit, folded>>  \* an error surfaces, or Finalize fails
       \/ /\ ~Surfaced /\ main' = "fold" /\ emit' = [d \in Domains |-> "run"]
          /\ UNCHANGED <<entities, rows, errs, closed, kv, indexed, emitErr, folded, outcome>>

\* ComputeGenesisRoot, the close of the commit-input stores, and the state row;
\* any may fail, and the return leaves the emitters running.
MainFolds ==
    /\ main = "fold"
    /\ \/ /\ folded' = inStore["commitIn"] /\ main' = "wait"
          /\ UNCHANGED <<entities, rows, errs, out, outcome>>
       \/ Return("err") /\ UNCHANGED <<emit, folded>>

\* emitWg.Wait
EmitWait == \A d \in Domains : emit[d] = "done"

\* The first emitter's error, or WriteCommitment of the rows folded.
MainFinishes ==
    /\ main = "wait" /\ EmitWait
    /\ Return("err") \/ (~emitErr /\ Return("ok"))
    /\ UNCHANGED <<emit, folded>>

-----------------------------------------------------------------------------
(* Emitters: WriteDomain of one domain, over an iterator that drops the     *)
(* store's errors.                                                          *)

\* The rows compressed: all, or fewer if Iterate fails, which is not reported;
\* none if the store is closed.  The store is dropped once read.
EmitterReads(d) ==
    /\ emit[d] = "run"
    /\ \E got \in SUBSET (IF closed[d] THEN {} ELSE inStore[d]) : kv' = [kv EXCEPT ![d] = got]
    /\ closed' = [closed EXCEPT ![d] = TRUE]
    /\ emit' = [emit EXCEPT ![d] = "check"]
    /\ UNCHANGED <<main, entities, rows, errs, indexed, emitErr, folded, outcome>>

\* The count of keys in the file against the encoders' count; not tested:
KeyCountUntested(d) == TRUE
KeyCountMatches(d) == Cardinality(kv[d]) = counts[d]

EmitterIndexes(d) ==
    /\ emit[d] = "check" /\ KeyCountMatches(d)
    /\ indexed' = [indexed EXCEPT ![d] = TRUE] /\ emit' = [emit EXCEPT ![d] = "done"]
    /\ UNCHANGED <<main, entities, rows, errs, closed, kv, emitErr, folded, outcome>>

\* The counts differ, or compressing or indexing fails: the files are removed.
EmitterFails(d) ==
    /\ emit[d] = "check"
    /\ kv' = [kv EXCEPT ![d] = {}] /\ emitErr' = TRUE /\ emit' = [emit EXCEPT ![d] = "done"]
    /\ UNCHANGED <<main, entities, rows, errs, closed, indexed, folded, outcome>>

-----------------------------------------------------------------------------
WorkerStep(w) ==
    \/ WorkerEncodes(w) \/ WorkerReceives(w) \/ WorkerSeesClose(w)
    \/ WorkerFlushes(w) \/ WorkerFails(w)
WriterStep(d) == WriterDrains(d) \/ WriterSeesClose(d) \/ WriterFails(d)
MainStep ==
    \/ MainSends \/ MainClosesEntities \/ MainJoinsEncoders \/ MainDrains \/ MainFlushes
    \/ MainClosesChannels \/ MainJoinsWriters \/ MainFolds \/ MainFinishes
EmitterStep(d) == EmitterReads(d) \/ EmitterIndexes(d) \/ EmitterFails(d)

ErigonRuns ==
    \/ MainStep
    \/ \E w \in Workers : WorkerStep(w)
    \/ \E d \in Channels : WriterStep(d)
    \/ \E d \in Domains : EmitterStep(d)
ErigonNext == ErigonRuns \/ CallerCancels

\* While a goroutine can run, one runs; the caller need not cancel.
ErigonSpec == ErigonInit /\ [][ErigonNext]_erigonVars /\ WF_erigonVars(ErigonRuns)

-----------------------------------------------------------------------------
(* Properties *)

\* writeSnapshots returns a nil error only if every row of every item is in its
\* domain's finished files and every commitment input was folded, whatever
\* was cancelled, failed or raced on the way.  Nothing counts the commitment
\* inputs: this rests on the joins, the flushes and the error channels alone.
NilMeansAllWritten ==
    outcome = "ok" => /\ \A d \in Domains : indexed[d] /\ kv[d] = RowsIn(d)
                     /\ folded = RowsIn("commitIn")

\* A domain gets its accessors only when its .kv is whole, also for an emitter
\* that outlives a failed writeSnapshots and finds its store closed: "A partial
\* file set must not pass for a complete domain on a re-run."
IndexedIsWhole == \A d \in Domains : indexed[d] => kv[d] = RowsIn(d)

\* No producer is left that could send on a channel main has closed.
NoSendAfterClose == chanClosed => \A w \in Workers : worker[w] = "done"

\* writeSnapshots returns, and its emitters end: no failure leaves a producer
\* blocked on a channel nobody reads.
ErigonStopped == main = "returned" /\ \A d \in Domains : emit[d] \in {"off", "done"}

=============================================================================
