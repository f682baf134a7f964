---------------------------- MODULE RethStorage ----------------------------
(***************************************************************************)
(* streamSpecStorage (client/reth/spec_storage_streaming_cgo.go): Phase 0  *)
(* of the reth writer.  MDBX has one writer, so the workers do not write:  *)
(* a worker hands its entity to the consumer and then fills the entity's   *)
(* own channel with chunks of encoded slots; the consumer, the calling     *)
(* goroutine, puts them in one transaction per entity and waits for the    *)
(* entity's root or error.  The rows of the storage trie go into trieRows, *)
(* a spill store the workers share.                                        *)
(*                                                                         *)
(* An entity has ChunksOf[e] chunks of slots, and its trie one row per     *)
(* chunk.  The chunks of an entity arrive in order, so those in its        *)
(* channel are counted by sent and taken.                                  *)
(***************************************************************************)
EXTENDS Pool, Naturals, FiniteSets

CONSTANTS
    Streamed,                  \* PreAlloc entities with storage, and giants
    Giants,                    \* those that come sorted and need no drain
    ChunksOf,
    StreamCap,                 \* entityCh, preparedCh: workers * 2
    ChunkCap                   \* chunkChanCap

ASSUME RethAssumption ==
    /\ Giants \subseteq Streamed
    /\ ChunksOf \in [Streamed -> Nat]
    /\ StreamCap \in Nat \ {0} /\ ChunkCap \in Nat \ {0}

NoEntity == "no entity"
Chunks(e) == {e} \X (1 .. ChunksOf[e])
AllChunks == UNION {Chunks(e) : e \in Streamed}

VARIABLES
    toFeed, entityCh, entityClosed,      \* the feeder and its channel
    coder, coded,                        \* per worker: step and entity
    offered, offersClosed,               \* preparedCh
    encoded, sent, taken, chunksClosed,  \* per entity: chunks walked, sent, received
    answer,                              \* per entity: none | root | err (rootCh, errCh)
    trieRows,                            \* rows in the spill store
    consumer, entity, txn,               \* step, entity and open transaction
    stored, spliced,                     \* chunks committed; entities whose root is known
    writeErr, drainCause, callerDone,    \* none | error | canceled; ctx itself
    streamed                             \* running | ok | err

feederVars == <<toFeed, entityCh, entityClosed>>
coderVars == <<coder, coded>>
chunkVars == <<encoded, sent, chunksClosed, answer, trieRows>>
consumerVars == <<consumer, entity, txn, stored, spliced, taken, writeErr, streamed>>
rethVars == <<feederVars, coderVars, offered, offersClosed, chunkVars, consumerVars,
              drainCause, callerDone>>

RethInit ==
    /\ toFeed = Streamed /\ entityCh = {} /\ entityClosed = FALSE
    /\ coder = [w \in Workers |-> "recv"] /\ coded = [w \in Workers |-> NoEntity]
    /\ offered = {} /\ offersClosed = FALSE
    /\ encoded = [e \in Streamed |-> 0] /\ sent = [e \in Streamed |-> 0]
    /\ taken = [e \in Streamed |-> 0] /\ chunksClosed = [e \in Streamed |-> FALSE]
    /\ answer = [e \in Streamed |-> "none"]
    /\ trieRows = {}
    /\ consumer = "recv" /\ entity = NoEntity /\ txn = {}
    /\ stored = {} /\ spliced = {}
    /\ writeErr = FALSE /\ drainCause = "none" /\ callerDone = FALSE
    /\ streamed = "running"

DrainDone == drainCause # "none"
CancelDrain(c) == drainCause' = IF DrainDone THEN drainCause ELSE c

-----------------------------------------------------------------------------
FeedEntity ==
    /\ ~entityClosed
    /\ \E e \in toFeed :
          /\ Cardinality(entityCh) < StreamCap
          /\ toFeed' = toFeed \ {e} /\ entityCh' = entityCh \cup {e}
    /\ UNCHANGED <<entityClosed, coderVars, offered, offersClosed, chunkVars,
                   consumerVars, drainCause, callerDone>>

CloseEntities ==
    /\ ~entityClosed /\ (toFeed = {} \/ DrainDone)
    /\ entityClosed' = TRUE
    /\ UNCHANGED <<toFeed, entityCh, coderVars, offered, offersClosed, chunkVars,
                   consumerVars, drainCause, callerDone>>

-----------------------------------------------------------------------------
CoderMoves(w, from, to) == coder[w] = from /\ coder' = [coder EXCEPT ![w] = to]

\* for it := range entityCh { if drainCtx.Err() != nil { return } ...
TakeEntity(w) ==
    /\ \/ \E e \in entityCh :
             /\ entityCh' = entityCh \ {e}
             /\ IF DrainDone
                THEN CoderMoves(w, "recv", "exit") /\ UNCHANGED coded
                ELSE /\ CoderMoves(w, "recv", IF e \in Giants THEN "offer" ELSE "drain")
                     /\ coded' = [coded EXCEPT ![w] = e]
       \/ /\ entityCh = {} /\ entityClosed
          /\ CoderMoves(w, "recv", "exit")
          /\ UNCHANGED <<entityCh, coded>>
    /\ UNCHANGED <<toFeed, entityClosed, offered, offersClosed, chunkVars,
                   consumerVars, drainCause, callerDone>>

\* streamingtrie.Drain into a store of the worker's own; a failure is the
\* worker's error and cancels the others.
DrainEntity(w) ==
    /\ \/ CoderMoves(w, "drain", "offer") /\ UNCHANGED drainCause
       \/ CanFail /\ CoderMoves(w, "drain", "exit") /\ CancelDrain("error")
    /\ UNCHANGED <<feederVars, coded, offered, offersClosed, chunkVars,
                   consumerVars, callerDone>>

\* The entity is handed over before its first slot is read.
Offer(w) ==
    /\ \/ /\ Cardinality(offered) < StreamCap
          /\ offered' = offered \cup {coded[w]}
          /\ CoderMoves(w, "offer", "walk")
       \/ DrainDone /\ CoderMoves(w, "offer", "exit") /\ UNCHANGED offered
    /\ UNCHANGED <<feederVars, coded, offersClosed, chunkVars, consumerVars,
                   drainCause, callerDone>>

\* The slots of one chunk pass addLeaf: they are encoded, and the hash
\* builder emits a row, whose error it drops (hash_builder.go).
Emit(e) ==
    \/ trieRows' = trieRows \cup {<<e, encoded[e] + 1>>}
    \/ CanFail /\ UNCHANGED trieRows
WalkSlots(w) ==
    LET e == coded[w] IN
    /\ CoderMoves(w, "walk", "send")
    /\ encoded[e] < ChunksOf[e]
    /\ Emit(e)
    /\ encoded' = [encoded EXCEPT ![e] = @ + 1]
    /\ UNCHANGED <<feederVars, coded, offered, offersClosed, sent, chunksClosed, answer,
                   consumerVars, drainCause, callerDone>>

\* flushPending: the full chunk, or after Root the last one.
SendInsists == FALSE
SendGivesUp == DrainDone
SendChunk(w) ==
    LET e == coded[w] IN
    /\ \/ /\ CoderMoves(w, "send", "walk")
          /\ sent[e] - taken[e] < ChunkCap
          /\ sent' = [sent EXCEPT ![e] = @ + 1]
       \/ SendGivesUp /\ CoderMoves(w, "send", "fail") /\ UNCHANGED sent
    /\ UNCHANGED <<feederVars, coded, offered, offersClosed, encoded, chunksClosed, answer,
                   trieRows, consumerVars, drainCause, callerDone>>

\* The walk fails: a read of the drained store, or a key out of order.
WalkFails(w) ==
    /\ CanFail
    /\ CoderMoves(w, "walk", "fail")
    /\ UNCHANGED <<feederVars, coded, offered, offersClosed, chunkVars, consumerVars,
                   drainCause, callerDone>>

\* errCh <- err, close(chunkCh); the worker goes on to its next entity.
RootAnyway == "root"
ErrAnswer == "err"
AnswerErr(w) ==
    LET e == coded[w] IN
    /\ CoderMoves(w, "fail", "recv")
    /\ answer' = [answer EXCEPT ![e] = ErrAnswer]
    /\ chunksClosed' = [chunksClosed EXCEPT ![e] = TRUE]
    /\ UNCHANGED <<feederVars, coded, offered, offersClosed, encoded, sent, trieRows,
                   consumerVars, drainCause, callerDone>>

\* close(chunkCh), and only then rootCh <- root.
WalkedAll(e) == encoded[e] = ChunksOf[e]
CloseChunks(w) ==
    LET e == coded[w] IN
    /\ CoderMoves(w, "walk", "root")
    /\ WalkedAll(e)
    /\ chunksClosed' = [chunksClosed EXCEPT ![e] = TRUE]
    /\ UNCHANGED <<feederVars, coded, offered, offersClosed, encoded, sent, answer, trieRows,
                   consumerVars, drainCause, callerDone>>

AnswerRoot(w) ==
    /\ CoderMoves(w, "root", "recv")
    /\ answer' = [answer EXCEPT ![coded[w]] = "root"]
    /\ UNCHANGED <<feederVars, coded, offered, offersClosed, encoded, sent, chunksClosed,
                   trieRows, consumerVars, drainCause, callerDone>>

\* wg.Wait; close(preparedCh)
CodersExited == \A w \in Workers : coder[w] = "exit"
CloseOffers ==
    /\ ~offersClosed /\ CodersExited
    /\ offersClosed' = TRUE
    /\ UNCHANGED <<feederVars, coderVars, offered, chunkVars, consumerVars,
                   drainCause, callerDone>>

-----------------------------------------------------------------------------
\* for ent := range preparedCh: after an error its chunks are only drained.
TakeOffer ==
    /\ streamed = "running" /\ consumer = "recv"
    /\ \E e \in offered : entity' = e /\ offered' = offered \ {e}
    /\ consumer' = IF writeErr THEN "discard" ELSE "begin"
    /\ UNCHANGED <<feederVars, coderVars, offersClosed, chunkVars, txn, stored, spliced, taken,
                   writeErr, streamed, drainCause, callerDone>>

HasChunk(e) == taken[e] < sent[e]
Drained(e) == taken[e] = sent[e] /\ chunksClosed[e]

Discard ==
    /\ consumer = "discard"
    /\ \/ /\ HasChunk(entity)
          /\ taken' = [taken EXCEPT ![entity] = @ + 1] /\ UNCHANGED consumer
       \/ Drained(entity) /\ consumer' = "recv" /\ UNCHANGED taken
    /\ UNCHANGED <<feederVars, coderVars, offered, offersClosed, chunkVars, entity, txn, stored,
                   spliced, writeErr, streamed, drainCause, callerDone>>

\* consumeEntity or the worker failed: writeErr, cancelDrain, next entity.
ConsumeFails ==
    /\ consumer' = "recv" /\ txn' = {} /\ writeErr' = TRUE
    /\ CancelDrain("error")

\* The transaction begins; the caller's context is tested once.
BeginTxn ==
    /\ consumer = "begin"
    /\ \/ /\ ~callerDone
          /\ consumer' = "consume" /\ UNCHANGED <<txn, writeErr, drainCause>>
       \/ (callerDone \/ CanFail) /\ ConsumeFails
    /\ UNCHANGED <<feederVars, coderVars, offered, offersClosed, chunkVars, entity, stored,
                   spliced, taken, streamed, callerDone>>

\* A chunk is put into the transaction, which an error rolls back.
PutChunk ==
    /\ consumer = "consume" /\ HasChunk(entity)
    /\ taken' = [taken EXCEPT ![entity] = @ + 1]
    /\ \/ /\ txn' = txn \cup {<<entity, taken[entity] + 1>>}
          /\ UNCHANGED <<consumer, writeErr, drainCause>>
       \/ CanFail /\ ConsumeFails
    /\ UNCHANGED <<feederVars, coderVars, offered, offersClosed, chunkVars, entity, stored,
                   spliced, streamed, callerDone>>

\* chunkCh is closed and empty: the commit.
CommitTxn ==
    /\ consumer = "consume" /\ Drained(entity)
    /\ \/ /\ stored' = stored \cup txn /\ txn' = {} /\ consumer' = "await"
          /\ UNCHANGED <<writeErr, drainCause>>
       \/ CanFail /\ ConsumeFails /\ UNCHANGED stored
    /\ UNCHANGED <<feederVars, coderVars, offered, offersClosed, chunkVars, entity, spliced,
                   taken, streamed, callerDone>>

\* The select on rootCh, errCh and ctx.Done, which returns at once.
Await ==
    /\ consumer = "await"
    /\ \/ /\ answer[entity] = "root"
          /\ spliced' = spliced \cup {entity} /\ consumer' = "recv"
          /\ UNCHANGED <<txn, writeErr, drainCause, streamed>>
       \/ /\ answer[entity] = "err"
          /\ ConsumeFails /\ UNCHANGED <<spliced, streamed>>
       \/ /\ callerDone
          /\ streamed' = "err" /\ consumer' = "gone"
          /\ UNCHANGED <<spliced, txn, writeErr, drainCause>>
    /\ UNCHANGED <<feederVars, coderVars, offered, offersClosed, chunkVars, entity, stored,
                   taken, callerDone>>

\* preparedCh is closed and empty: writeErr, then the cause.
StreamEnds == offered = {} /\ offersClosed
WriteError == writeErr
StreamError == writeErr \/ DrainDone
ReturnRoots ==
    /\ streamed = "running" /\ consumer = "recv" /\ StreamEnds
    /\ streamed' = IF StreamError THEN "err" ELSE "ok"
    /\ consumer' = "gone"
    /\ UNCHANGED <<feederVars, coderVars, offered, offersClosed, chunkVars, entity, txn, stored,
                   spliced, taken, writeErr, drainCause, callerDone>>

StreamCancelled ==
    /\ CanCancel /\ ~callerDone /\ streamed = "running"
    /\ callerDone' = TRUE /\ CancelDrain("canceled")
    /\ UNCHANGED <<feederVars, coderVars, offered, offersClosed, chunkVars, consumerVars>>

FeederMoves == FeedEntity \/ CloseEntities
CoderStep(w) ==
    \/ TakeEntity(w) \/ DrainEntity(w) \/ Offer(w) \/ WalkSlots(w) \/ SendChunk(w)
    \/ WalkFails(w) \/ AnswerErr(w) \/ CloseChunks(w) \/ AnswerRoot(w)
ConsumerStep ==
    \/ TakeOffer \/ Discard \/ BeginTxn \/ PutChunk \/ CommitTxn \/ Await \/ ReturnRoots
RethRuns ==
    \/ FeederMoves \/ CloseOffers \/ ConsumerStep
    \/ \E w \in Workers : CoderStep(w)
RethNext == RethRuns \/ StreamCancelled

\* While a goroutine can run, one runs; the caller need not cancel.
RethSpec == RethInit /\ [][RethNext]_rethVars /\ WF_rethVars(RethRuns)

-----------------------------------------------------------------------------
RethTypeOK ==
    /\ toFeed \subseteq Streamed /\ entityCh \subseteq Streamed /\ offered \subseteq Streamed
    /\ entityClosed \in BOOLEAN /\ offersClosed \in BOOLEAN
    /\ coder \in [Workers -> {"recv", "drain", "offer", "walk", "send", "fail", "root", "exit"}]
    /\ coded \in [Workers -> Streamed \cup {NoEntity}]
    /\ encoded \in [Streamed -> Nat] /\ sent \in [Streamed -> Nat] /\ taken \in [Streamed -> Nat]
    /\ chunksClosed \in [Streamed -> BOOLEAN] /\ answer \in [Streamed -> {"none", "root", "err"}]
    /\ trieRows \subseteq AllChunks /\ txn \subseteq AllChunks /\ stored \subseteq AllChunks
    /\ consumer \in {"recv", "discard", "begin", "consume", "await", "gone"}
    /\ entity \in Streamed \cup {NoEntity} /\ spliced \subseteq Streamed
    /\ writeErr \in BOOLEAN /\ callerDone \in BOOLEAN
    /\ drainCause \in {"none", "error", "canceled"} /\ streamed \in {"running", "ok", "err"}

\* streamSpecStorage returns nil only when the slots of every entity are
\* committed and every root is known, whichever worker, transaction or
\* channel failed or was cancelled on the way.
NilMeansAllStored == streamed = "ok" => stored = AllChunks /\ spliced = Streamed

\* A root reaches the account only after the transaction with all of the
\* entity's slots: an entity cut short by a cancellation, whose partial
\* transaction is committed all the same, never gets one.
RootHasSlots == \A e \in spliced : Chunks(e) \subseteq stored

\* A failed Put of a trie row ends the run: "A non-nil error from NodeEmitter
\* MUST be treated as fatal by the caller" (internal/reth/hash_builder.go).
EmitErrorHalts == streamed = "ok" => trieRows = AllChunks

\* streamSpecStorage has returned and its goroutines have ended, also those
\* that the early return on the caller's cancellation leaves behind.
StreamStopped == streamed # "running" /\ entityClosed /\ CodersExited
=============================================================================
