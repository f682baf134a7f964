------------------------- MODULE RethStorageProofs -------------------------
(***************************************************************************)
(* Proofs about reth's streamed storage for any entities, chunks, workers  *)
(* and channel capacities: what streamSpecStorage returns without an error *)
(* is complete, and a root is never ahead of its slots.                    *)
(***************************************************************************)
EXTENDS RethStorage, TLAPS

Active == {"drain", "offer", "walk", "send", "fail", "root"}
Busy == {"discard", "begin", "consume", "await"}

\* Entities no chunk of which was made yet.
Before(e) ==
    \/ e \in toFeed \/ e \in entityCh
    \/ \E w \in Workers : coder[w] \in {"drain", "offer"} /\ coded[w] = e

\* An entity is in one place: no two workers have it, and none has one that
\* is still to be fed.
OnePlace ==
    /\ toFeed \cap entityCh = {}
    /\ \A w \in Workers : coder[w] \in Active =>
          coded[w] \in Streamed /\ coded[w] \notin toFeed /\ coded[w] \notin entityCh
    /\ \A v, w \in Workers :
          v # w /\ coder[v] \in Active /\ coder[w] \in Active => coded[v] # coded[w]

\* What is not handed over is untouched; what the consumer has left stays left.
Fresh ==
    /\ \A e \in Streamed : Before(e) =>
          /\ e \notin offered
          /\ encoded[e] = 0 /\ sent[e] = 0 /\ taken[e] = 0
    /\ \A e \in offered : taken[e] = 0
    /\ consumer \in Busy => entity \in Streamed /\ ~Before(entity) /\ entity \notin offered

\* A worker's chunks: those walked are sent, but for the one in hand; the
\* channel closes behind the last one, and the root comes after that.
Coding ==
    /\ \A e \in Streamed :
          /\ sent[e] <= encoded[e] /\ encoded[e] <= ChunksOf[e]
          /\ answer[e] = "root" => chunksClosed[e] /\ sent[e] = ChunksOf[e]
    /\ \A w \in Workers : coder[w] \in Active =>
          /\ answer[coded[w]] = "none"
          /\ coder[w] # "root" => ~chunksClosed[coded[w]]
          /\ coder[w] = "walk" => sent[coded[w]] = encoded[coded[w]]
          /\ coder[w] = "send" => sent[coded[w]] + 1 = encoded[coded[w]]
          /\ coder[w] = "root" => chunksClosed[coded[w]] /\ sent[coded[w]] = ChunksOf[coded[w]]
    /\ \A e \in Streamed : Before(e) => answer[e] = "none" /\ ~chunksClosed[e]

\* The transaction holds the chunks taken; the commit keeps all that were sent.
Consuming ==
    /\ consumer # "consume" => txn = {}
    /\ consumer = "begin" => taken[entity] = 0
    /\ consumer = "consume" => \A k \in 1 .. taken[entity] : <<entity, k>> \in txn
    /\ consumer = "await" =>
          chunksClosed[entity] /\ \A k \in 1 .. sent[entity] : <<entity, k>> \in stored

\* While drainCtx is live every entity is somewhere on its way, and workers
\* leave only when the input ran out.
Accounted ==
    /\ writeErr \/ callerDone => DrainDone
    /\ consumer = "discard" => writeErr
    /\ ~DrainDone =>
          /\ \A e \in Streamed :
                \/ Before(e) \/ e \in offered \/ e \in spliced
                \/ consumer \in Busy /\ entity = e
          /\ entityClosed => toFeed = {}
          /\ \A w \in Workers : coder[w] = "exit" => entityClosed /\ entityCh = {}
    /\ offersClosed => CodersExited

IndInv == RethTypeOK /\ OnePlace /\ Fresh /\ Coding /\ Consuming /\ Accounted /\ RootHasSlots

\* The initial state satisfies the invariant.
LEMMA InitInv == RethInit => IndInv
<1> SUFFICES ASSUME RethInit PROVE IndInv
  OBVIOUS
<1> USE RethAssumption DEF RethInit
<1>1. RethTypeOK
  BY Zenon DEF RethTypeOK
<1>2. OnePlace /\ Fresh /\ Consuming /\ RootHasSlots
  BY DEF OnePlace, Fresh, Before, Consuming, RootHasSlots, Active, Busy
<1>3. Coding /\ Accounted
  BY DEF Coding, Accounted, Before, Active, DrainDone
<1> QED
  BY <1>1, <1>2, <1>3 DEF IndInv

\* The types hold: no chunk beyond an entity's last is walked or taken.
LEMMA TypeStep == IndInv /\ [RethNext]_rethVars => RethTypeOK'
<1> SUFFICES ASSUME IndInv, [RethNext]_rethVars PROVE RethTypeOK'
  OBVIOUS
<1> USE RethAssumption DEF IndInv, RethTypeOK, OnePlace, Fresh, Coding, Active, Busy,
        AllChunks, Chunks, feederVars, coderVars, chunkVars, consumerVars
<1>1. ASSUME NEW w \in Workers, TakeEntity(w) PROVE RethTypeOK'
  BY <1>1 DEF TakeEntity, CoderMoves, DrainDone
<1>2. ASSUME NEW w \in Workers, DrainEntity(w) PROVE RethTypeOK'
  BY <1>2 DEF DrainEntity, CoderMoves, CancelDrain, DrainDone
<1>3. ASSUME NEW w \in Workers, Offer(w) PROVE RethTypeOK'
  BY <1>3 DEF Offer, CoderMoves, DrainDone
<1>4. ASSUME NEW w \in Workers, WalkSlots(w) PROVE RethTypeOK'
  BY <1>4 DEF WalkSlots, CoderMoves, Emit
<1>5. ASSUME NEW w \in Workers, SendChunk(w) PROVE RethTypeOK'
  BY <1>5 DEF SendChunk, CoderMoves, SendGivesUp, DrainDone
<1>6. ASSUME NEW w \in Workers, WalkFails(w) PROVE RethTypeOK'
  BY <1>6 DEF WalkFails, CoderMoves
<1>7. ASSUME NEW w \in Workers, AnswerErr(w) PROVE RethTypeOK'
  BY <1>7 DEF AnswerErr, CoderMoves, ErrAnswer
<1>8. ASSUME NEW w \in Workers, CloseChunks(w) PROVE RethTypeOK'
  BY <1>8 DEF CloseChunks, CoderMoves, WalkedAll
<1>9. ASSUME NEW w \in Workers, AnswerRoot(w) PROVE RethTypeOK'
  BY <1>9 DEF AnswerRoot, CoderMoves
<1>10. CASE FeedEntity
  BY <1>10 DEF FeedEntity
<1>11. CASE CloseEntities
  BY <1>11 DEF CloseEntities, DrainDone
<1>12. CASE CloseOffers
  BY <1>12 DEF CloseOffers, CodersExited
<1>13. CASE TakeOffer
  BY <1>13 DEF TakeOffer
<1>14. CASE Discard
  BY <1>14 DEF Discard, HasChunk, Drained
<1>15. CASE BeginTxn
  BY Zenon, <1>15 DEF BeginTxn, ConsumeFails, CancelDrain, DrainDone
<1>16. CASE PutChunk
  <2>1. entity \in Streamed /\ taken[entity] \in Nat
          /\ taken[entity] + 1 \in 1 .. ChunksOf[entity]
    BY <1>16 DEF PutChunk, HasChunk
  <2>2. txn' \subseteq AllChunks
    BY <1>16, <2>1 DEF PutChunk, ConsumeFails
  <2>3. taken' \in [Streamed -> Nat]
    BY <1>16, <2>1 DEF PutChunk
  <2> QED
    BY Zenon, <1>16, <2>2, <2>3 DEF PutChunk, ConsumeFails, CancelDrain, DrainDone
<1>17. CASE CommitTxn
  BY Zenon, <1>17 DEF CommitTxn, Drained, ConsumeFails, CancelDrain, DrainDone
<1>18. CASE Await
  <2>1. entity \in Streamed
    BY <1>18 DEF Await
  <2>2. spliced' \subseteq Streamed /\ txn' \subseteq AllChunks
    BY <1>18, <2>1 DEF Await, ConsumeFails
  <2> QED
    BY Zenon, <1>18, <2>2 DEF Await, ConsumeFails, CancelDrain, DrainDone
<1>19. CASE ReturnRoots
  BY <1>19 DEF ReturnRoots, StreamEnds, StreamError, DrainDone
<1>20. CASE StreamCancelled
  BY <1>20 DEF StreamCancelled, CancelDrain, DrainDone
<1>21. CASE UNCHANGED rethVars
  BY SMTT(30), <1>21 DEF rethVars, DrainDone
<1> QED
  BY Zenon, <1>1, <1>2, <1>3, <1>4, <1>5, <1>6, <1>7, <1>8, <1>9, <1>10,
     <1>11, <1>12, <1>13, <1>14, <1>15, <1>16, <1>17, <1>18, <1>19, <1>20, <1>21
  DEF RethNext, RethRuns, FeederMoves, CoderStep, ConsumerStep

\* No step gives an entity a second place.
LEMMA PlaceStep == IndInv /\ [RethNext]_rethVars => OnePlace'
<1> SUFFICES ASSUME IndInv, [RethNext]_rethVars PROVE OnePlace'
  OBVIOUS
<1> USE RethAssumption DEF IndInv, RethTypeOK, OnePlace, Active, feederVars, coderVars,
        chunkVars, consumerVars
<1>1. ASSUME NEW w \in Workers, TakeEntity(w) PROVE OnePlace'
  BY <1>1 DEF TakeEntity, CoderMoves, DrainDone
<1>2. ASSUME NEW w \in Workers, DrainEntity(w) PROVE OnePlace'
  BY <1>2 DEF DrainEntity, CoderMoves, CancelDrain, DrainDone
<1>3. ASSUME NEW w \in Workers, Offer(w) PROVE OnePlace'
  BY <1>3 DEF Offer, CoderMoves, DrainDone
<1>4. ASSUME NEW w \in Workers, WalkSlots(w) PROVE OnePlace'
  BY <1>4 DEF WalkSlots, CoderMoves, Emit
<1>5. ASSUME NEW w \in Workers, SendChunk(w) PROVE OnePlace'
  BY <1>5 DEF SendChunk, CoderMoves, SendGivesUp, DrainDone
<1>6. ASSUME NEW w \in Workers, WalkFails(w) PROVE OnePlace'
  BY <1>6 DEF WalkFails, CoderMoves
<1>7. ASSUME NEW w \in Workers, AnswerErr(w) PROVE OnePlace'
  BY <1>7 DEF AnswerErr, CoderMoves, ErrAnswer
<1>8. ASSUME NEW w \in Workers, CloseChunks(w) PROVE OnePlace'
  BY <1>8 DEF CloseChunks, CoderMoves, WalkedAll
<1>9. ASSUME NEW w \in Workers, AnswerRoot(w) PROVE OnePlace'
  BY <1>9 DEF AnswerRoot, CoderMoves
<1>10. CASE FeedEntity
  BY <1>10 DEF FeedEntity
<1>11. CASE CloseEntities
  BY <1>11 DEF CloseEntities, DrainDone
<1>12. CASE CloseOffers
  BY <1>12 DEF CloseOffers, CodersExited
<1>13. CASE TakeOffer
  BY <1>13 DEF TakeOffer
<1>14. CASE Discard
  BY <1>14 DEF Discard, HasChunk, Drained
<1>15. CASE BeginTxn
  BY <1>15 DEF BeginTxn, ConsumeFails, CancelDrain, DrainDone
<1>16. CASE PutChunk
  BY <1>16 DEF PutChunk, HasChunk, ConsumeFails, CancelDrain, DrainDone
<1>17. CASE CommitTxn
  BY <1>17 DEF CommitTxn, Drained, ConsumeFails, CancelDrain, DrainDone
<1>18. CASE Await
  BY <1>18 DEF Await, ConsumeFails, CancelDrain, DrainDone
<1>19. CASE ReturnRoots
  BY <1>19 DEF ReturnRoots, StreamEnds, StreamError, DrainDone
<1>20. CASE StreamCancelled
  BY <1>20 DEF StreamCancelled, CancelDrain, DrainDone
<1>21. CASE UNCHANGED rethVars
  BY SMTT(30), <1>21 DEF rethVars, DrainDone
<1> QED
  BY Zenon, <1>1, <1>2, <1>3, <1>4, <1>5, <1>6, <1>7, <1>8, <1>9, <1>10,
     <1>11, <1>12, <1>13, <1>14, <1>15, <1>16, <1>17, <1>18, <1>19, <1>20, <1>21
  DEF RethNext, RethRuns, FeederMoves, CoderStep, ConsumerStep

\* No step touches an entity that is not handed over, or hands one over twice.
LEMMA FreshStep == IndInv /\ [RethNext]_rethVars => Fresh'
<1> SUFFICES ASSUME IndInv, [RethNext]_rethVars PROVE Fresh'
  OBVIOUS
<1> USE RethAssumption DEF IndInv, RethTypeOK, OnePlace, Fresh, Before, Active, Busy,
        feederVars, coderVars, chunkVars, consumerVars
<1>1. ASSUME NEW w \in Workers, TakeEntity(w) PROVE Fresh'
  BY <1>1 DEF TakeEntity, CoderMoves, DrainDone
<1>2. ASSUME NEW w \in Workers, DrainEntity(w) PROVE Fresh'
  BY <1>2 DEF DrainEntity, CoderMoves, CancelDrain, DrainDone
<1>3. ASSUME NEW w \in Workers, Offer(w) PROVE Fresh'
  BY <1>3 DEF Offer, CoderMoves, DrainDone
<1>4. ASSUME NEW w \in Workers, WalkSlots(w) PROVE Fresh'
  BY <1>4 DEF WalkSlots, CoderMoves, Emit
<1>5. ASSUME NEW w \in Workers, SendChunk(w) PROVE Fresh'
  BY <1>5 DEF SendChunk, CoderMoves, SendGivesUp, DrainDone
<1>6. ASSUME NEW w \in Workers, WalkFails(w) PROVE Fresh'
  BY <1>6 DEF WalkFails, CoderMoves
<1>7. ASSUME NEW w \in Workers, AnswerErr(w) PROVE Fresh'
  BY <1>7 DEF AnswerErr, CoderMoves, ErrAnswer
<1>8. ASSUME NEW w \in Workers, CloseChunks(w) PROVE Fresh'
  BY <1>8 DEF CloseChunks, CoderMoves, WalkedAll
<1>9. ASSUME NEW w \in Workers, AnswerRoot(w) PROVE Fresh'
  BY <1>9 DEF AnswerRoot, CoderMoves
<1>10. CASE FeedEntity
  BY <1>10 DEF FeedEntity
<1>11. CASE CloseEntities
  BY <1>11 DEF CloseEntities, DrainDone
<1>12. CASE CloseOffers
  BY <1>12 DEF CloseOffers, CodersExited
<1>13. CASE TakeOffer
  BY <1>13 DEF TakeOffer
<1>14. CASE Discard
  BY <1>14 DEF Discard, HasChunk, Drained
<1>15. CASE BeginTxn
  BY <1>15 DEF BeginTxn, ConsumeFails, CancelDrain, DrainDone
<1>16. CASE PutChunk
  BY <1>16 DEF PutChunk, HasChunk, ConsumeFails, CancelDrain, DrainDone
<1>17. CASE CommitTxn
  BY <1>17 DEF CommitTxn, Drained, ConsumeFails, CancelDrain, DrainDone
<1>18. CASE Await
  BY <1>18 DEF Await, ConsumeFails, CancelDrain, DrainDone
<1>19. CASE ReturnRoots
  BY <1>19 DEF ReturnRoots, StreamEnds, StreamError, DrainDone
<1>20. CASE StreamCancelled
  BY <1>20 DEF StreamCancelled, CancelDrain, DrainDone
<1>21. CASE UNCHANGED rethVars
  BY SMTT(30), <1>21 DEF rethVars, DrainDone
<1> QED
  BY Zenon, <1>1, <1>2, <1>3, <1>4, <1>5, <1>6, <1>7, <1>8, <1>9, <1>10,
     <1>11, <1>12, <1>13, <1>14, <1>15, <1>16, <1>17, <1>18, <1>19, <1>20, <1>21
  DEF RethNext, RethRuns, FeederMoves, CoderStep, ConsumerStep

\* No step loses a chunk between the walk and the channel.
LEMMA CodingStep == IndInv /\ [RethNext]_rethVars => Coding'
<1> SUFFICES ASSUME IndInv, [RethNext]_rethVars PROVE Coding'
  OBVIOUS
<1> USE RethAssumption DEF IndInv, RethTypeOK, OnePlace, Fresh, Coding, Before, Active,
        feederVars, coderVars, chunkVars, consumerVars
<1>1. ASSUME NEW w \in Workers, TakeEntity(w) PROVE Coding'
  BY <1>1 DEF TakeEntity, CoderMoves, DrainDone
<1>2. ASSUME NEW w \in Workers, DrainEntity(w) PROVE Coding'
  BY <1>2 DEF DrainEntity, CoderMoves, CancelDrain, DrainDone
<1>3. ASSUME NEW w \in Workers, Offer(w) PROVE Coding'
  BY <1>3 DEF Offer, CoderMoves, DrainDone
<1>4. ASSUME NEW w \in Workers, WalkSlots(w) PROVE Coding'
  BY <1>4 DEF WalkSlots, CoderMoves, Emit
<1>5. ASSUME NEW w \in Workers, SendChunk(w) PROVE Coding'
  BY <1>5 DEF SendChunk, CoderMoves, SendGivesUp, DrainDone
<1>6. ASSUME NEW w \in Workers, WalkFails(w) PROVE Coding'
  BY <1>6 DEF WalkFails, CoderMoves
<1>7. ASSUME NEW w \in Workers, AnswerErr(w) PROVE Coding'
  BY <1>7 DEF AnswerErr, CoderMoves, ErrAnswer
<1>8. ASSUME NEW w \in Workers, CloseChunks(w) PROVE Coding'
  BY <1>8 DEF CloseChunks, CoderMoves, WalkedAll
<1>9. ASSUME NEW w \in Workers, AnswerRoot(w) PROVE Coding'
  BY <1>9 DEF AnswerRoot, CoderMoves
<1>10. CASE FeedEntity
  BY <1>10 DEF FeedEntity
<1>11. CASE CloseEntities
  BY <1>11 DEF CloseEntities, DrainDone
<1>12. CASE CloseOffers
  BY <1>12 DEF CloseOffers, CodersExited
<1>13. CASE TakeOffer
  BY <1>13 DEF TakeOffer
<1>14. CASE Discard
  BY <1>14 DEF Discard, HasChunk, Drained
<1>15. CASE BeginTxn
  BY <1>15 DEF BeginTxn, ConsumeFails, CancelDrain, DrainDone
<1>16. CASE PutChunk
  BY <1>16 DEF PutChunk, HasChunk, ConsumeFails, CancelDrain, DrainDone
<1>17. CASE CommitTxn
  BY <1>17 DEF CommitTxn, Drained, ConsumeFails, CancelDrain, DrainDone
<1>18. CASE Await
  BY <1>18 DEF Await, ConsumeFails, CancelDrain, DrainDone
<1>19. CASE ReturnRoots
  BY <1>19 DEF ReturnRoots, StreamEnds, StreamError, DrainDone
<1>20. CASE StreamCancelled
  BY <1>20 DEF StreamCancelled, CancelDrain, DrainDone
<1>21. CASE UNCHANGED rethVars
  BY SMTT(30), <1>21 DEF rethVars, DrainDone
<1> QED
  BY Zenon, <1>1, <1>2, <1>3, <1>4, <1>5, <1>6, <1>7, <1>8, <1>9, <1>10,
     <1>11, <1>12, <1>13, <1>14, <1>15, <1>16, <1>17, <1>18, <1>19, <1>20, <1>21
  DEF RethNext, RethRuns, FeederMoves, CoderStep, ConsumerStep

\* No step loses a chunk between the channel and the database.
LEMMA ConsumingStep == IndInv /\ [RethNext]_rethVars => Consuming'
<1> SUFFICES ASSUME IndInv, [RethNext]_rethVars PROVE Consuming'
  OBVIOUS
<1> USE RethAssumption DEF IndInv, RethTypeOK, OnePlace, Fresh, Coding, Consuming, Before,
        Active, Busy, feederVars, coderVars, chunkVars, consumerVars
<1>1. ASSUME NEW w \in Workers, TakeEntity(w) PROVE Consuming'
  BY <1>1 DEF TakeEntity, CoderMoves, DrainDone
<1>2. ASSUME NEW w \in Workers, DrainEntity(w) PROVE Consuming'
  BY <1>2 DEF DrainEntity, CoderMoves, CancelDrain, DrainDone
<1>3. ASSUME NEW w \in Workers, Offer(w) PROVE Consuming'
  BY <1>3 DEF Offer, CoderMoves, DrainDone
<1>4. ASSUME NEW w \in Workers, WalkSlots(w) PROVE Consuming'
  BY <1>4 DEF WalkSlots, CoderMoves, Emit
<1>5. ASSUME NEW w \in Workers, SendChunk(w) PROVE Consuming'
  BY <1>5 DEF SendChunk, CoderMoves, SendGivesUp, DrainDone
<1>6. ASSUME NEW w \in Workers, WalkFails(w) PROVE Consuming'
  BY <1>6 DEF WalkFails, CoderMoves
<1>7. ASSUME NEW w \in Workers, AnswerErr(w) PROVE Consuming'
  BY <1>7 DEF AnswerErr, CoderMoves, ErrAnswer
<1>8. ASSUME NEW w \in Workers, CloseChunks(w) PROVE Consuming'
  BY <1>8 DEF CloseChunks, CoderMoves, WalkedAll
<1>9. ASSUME NEW w \in Workers, AnswerRoot(w) PROVE Consuming'
  BY <1>9 DEF AnswerRoot, CoderMoves
<1>10. CASE FeedEntity
  BY <1>10 DEF FeedEntity
<1>11. CASE CloseEntities
  BY <1>11 DEF CloseEntities, DrainDone
<1>12. CASE CloseOffers
  BY <1>12 DEF CloseOffers, CodersExited
<1>13. CASE TakeOffer
  BY <1>13 DEF TakeOffer
<1>14. CASE Discard
  BY <1>14 DEF Discard, HasChunk, Drained
<1>15. CASE BeginTxn
  BY <1>15 DEF BeginTxn, ConsumeFails, CancelDrain, DrainDone
<1>16. CASE PutChunk
  BY <1>16 DEF PutChunk, HasChunk, ConsumeFails, CancelDrain, DrainDone
<1>17. CASE CommitTxn
  BY <1>17 DEF CommitTxn, Drained, ConsumeFails, CancelDrain, DrainDone
<1>18. CASE Await
  BY <1>18 DEF Await, ConsumeFails, CancelDrain, DrainDone
<1>19. CASE ReturnRoots
  BY <1>19 DEF ReturnRoots, StreamEnds, StreamError, DrainDone
<1>20. CASE StreamCancelled
  BY <1>20 DEF StreamCancelled, CancelDrain, DrainDone
<1>21. CASE UNCHANGED rethVars
  BY SMTT(30), <1>21 DEF rethVars, DrainDone
<1> QED
  BY Zenon, <1>1, <1>2, <1>3, <1>4, <1>5, <1>6, <1>7, <1>8, <1>9, <1>10,
     <1>11, <1>12, <1>13, <1>14, <1>15, <1>16, <1>17, <1>18, <1>19, <1>20, <1>21
  DEF RethNext, RethRuns, FeederMoves, CoderStep, ConsumerStep

\* No step drops an entity without a cause.
LEMMA AccountedStep == IndInv /\ [RethNext]_rethVars => Accounted'
<1> SUFFICES ASSUME IndInv, [RethNext]_rethVars PROVE Accounted'
  OBVIOUS
<1> USE RethAssumption DEF IndInv, RethTypeOK, OnePlace, Fresh, Accounted, Before, Active,
        Busy, CodersExited, DrainDone, feederVars, coderVars, chunkVars, consumerVars
<1>1. ASSUME NEW w \in Workers, TakeEntity(w) PROVE Accounted'
  BY <1>1 DEF TakeEntity, CoderMoves, DrainDone
<1>2. ASSUME NEW w \in Workers, DrainEntity(w) PROVE Accounted'
  BY <1>2 DEF DrainEntity, CoderMoves, CancelDrain, DrainDone
<1>3. ASSUME NEW w \in Workers, Offer(w) PROVE Accounted'
  BY <1>3 DEF Offer, CoderMoves, DrainDone
<1>4. ASSUME NEW w \in Workers, WalkSlots(w) PROVE Accounted'
  BY <1>4 DEF WalkSlots, CoderMoves, Emit
<1>5. ASSUME NEW w \in Workers, SendChunk(w) PROVE Accounted'
  BY <1>5 DEF SendChunk, CoderMoves, SendGivesUp, DrainDone
<1>6. ASSUME NEW w \in Workers, WalkFails(w) PROVE Accounted'
  BY <1>6 DEF WalkFails, CoderMoves
<1>7. ASSUME NEW w \in Workers, AnswerErr(w) PROVE Accounted'
  BY <1>7 DEF AnswerErr, CoderMoves, ErrAnswer
<1>8. ASSUME NEW w \in Workers, CloseChunks(w) PROVE Accounted'
  BY <1>8 DEF CloseChunks, CoderMoves, WalkedAll
<1>9. ASSUME NEW w \in Workers, AnswerRoot(w) PROVE Accounted'
  BY <1>9 DEF AnswerRoot, CoderMoves
<1>10. CASE FeedEntity
  BY <1>10 DEF FeedEntity
<1>11. CASE CloseEntities
  BY <1>11 DEF CloseEntities, DrainDone
<1>12. CASE CloseOffers
  BY <1>12 DEF CloseOffers, CodersExited
<1>13. CASE TakeOffer
  BY <1>13 DEF TakeOffer
<1>14. CASE Discard
  BY <1>14 DEF Discard, HasChunk, Drained
<1>15. CASE BeginTxn
  BY <1>15 DEF BeginTxn, ConsumeFails, CancelDrain, DrainDone
<1>16. CASE PutChunk
  BY <1>16 DEF PutChunk, HasChunk, ConsumeFails, CancelDrain, DrainDone
<1>17. CASE CommitTxn
  BY <1>17 DEF CommitTxn, Drained, ConsumeFails, CancelDrain, DrainDone
<1>18. CASE Await
  BY <1>18 DEF Await, ConsumeFails, CancelDrain, DrainDone
<1>19. CASE ReturnRoots
  BY <1>19 DEF ReturnRoots, StreamEnds, StreamError, DrainDone
<1>20. CASE StreamCancelled
  BY <1>20 DEF StreamCancelled, CancelDrain, DrainDone
<1>21. CASE UNCHANGED rethVars
  BY SMTT(30), <1>21 DEF rethVars, DrainDone
<1> QED
  BY Zenon, <1>1, <1>2, <1>3, <1>4, <1>5, <1>6, <1>7, <1>8, <1>9, <1>10,
     <1>11, <1>12, <1>13, <1>14, <1>15, <1>16, <1>17, <1>18, <1>19, <1>20, <1>21
  DEF RethNext, RethRuns, FeederMoves, CoderStep, ConsumerStep

\* No root is spliced before its slots are stored.
LEMMA SlotsStep == IndInv /\ [RethNext]_rethVars => RootHasSlots'
<1> SUFFICES ASSUME IndInv, [RethNext]_rethVars PROVE RootHasSlots'
  OBVIOUS
<1> USE RethAssumption DEF IndInv, RethTypeOK, Fresh, Coding, Consuming, RootHasSlots, Chunks,
        Busy, feederVars, coderVars, chunkVars, consumerVars
<1>1. ASSUME NEW w \in Workers, TakeEntity(w) PROVE RootHasSlots'
  BY <1>1 DEF TakeEntity, CoderMoves, DrainDone
<1>2. ASSUME NEW w \in Workers, DrainEntity(w) PROVE RootHasSlots'
  BY <1>2 DEF DrainEntity, CoderMoves, CancelDrain, DrainDone
<1>3. ASSUME NEW w \in Workers, Offer(w) PROVE RootHasSlots'
  BY <1>3 DEF Offer, CoderMoves, DrainDone
<1>4. ASSUME NEW w \in Workers, WalkSlots(w) PROVE RootHasSlots'
  BY <1>4 DEF WalkSlots, CoderMoves, Emit
<1>5. ASSUME NEW w \in Workers, SendChunk(w) PROVE RootHasSlots'
  BY <1>5 DEF SendChunk, CoderMoves, SendGivesUp, DrainDone
<1>6. ASSUME NEW w \in Workers, WalkFails(w) PROVE RootHasSlots'
  BY <1>6 DEF WalkFails, CoderMoves
<1>7. ASSUME NEW w \in Workers, AnswerErr(w) PROVE RootHasSlots'
  BY <1>7 DEF AnswerErr, CoderMoves, ErrAnswer
<1>8. ASSUME NEW w \in Workers, CloseChunks(w) PROVE RootHasSlots'
  BY <1>8 DEF CloseChunks, CoderMoves, WalkedAll
<1>9. ASSUME NEW w \in Workers, AnswerRoot(w) PROVE RootHasSlots'
  BY <1>9 DEF AnswerRoot, CoderMoves
<1>10. CASE FeedEntity
  BY <1>10 DEF FeedEntity
<1>11. CASE CloseEntities
  BY <1>11 DEF CloseEntities, DrainDone
<1>12. CASE CloseOffers
  BY <1>12 DEF CloseOffers, CodersExited
<1>13. CASE TakeOffer
  BY <1>13 DEF TakeOffer
<1>14. CASE Discard
  BY <1>14 DEF Discard, HasChunk, Drained
<1>15. CASE BeginTxn
  BY <1>15 DEF BeginTxn, ConsumeFails, CancelDrain, DrainDone
<1>16. CASE PutChunk
  BY <1>16 DEF PutChunk, HasChunk, ConsumeFails, CancelDrain, DrainDone
<1>17. CASE CommitTxn
  BY <1>17 DEF CommitTxn, Drained, ConsumeFails, CancelDrain, DrainDone
<1>18. CASE Await
  BY <1>18 DEF Await, ConsumeFails, CancelDrain, DrainDone
<1>19. CASE ReturnRoots
  BY <1>19 DEF ReturnRoots, StreamEnds, StreamError, DrainDone
<1>20. CASE StreamCancelled
  BY <1>20 DEF StreamCancelled, CancelDrain, DrainDone
<1>21. CASE UNCHANGED rethVars
  BY <1>21 DEF rethVars, DrainDone
<1> QED
  BY SMTT(30), <1>1, <1>2, <1>3, <1>4, <1>5, <1>6, <1>7, <1>8, <1>9, <1>10,
     <1>11, <1>12, <1>13, <1>14, <1>15, <1>16, <1>17, <1>18, <1>19, <1>20, <1>21
  DEF RethNext, RethRuns, FeederMoves, CoderStep, ConsumerStep

\* The invariant is inductive.
LEMMA IndStep == IndInv /\ [RethNext]_rethVars => IndInv'
<1> SUFFICES ASSUME IndInv, [RethNext]_rethVars PROVE IndInv'
  OBVIOUS
<1> QED
  BY TypeStep, PlaceStep, FreshStep, CodingStep, ConsumingStep, AccountedStep, SlotsStep
  DEF IndInv

\* The variables of streamSpecStorage keep their types.
THEOREM StreamTypes == RethSpec => []RethTypeOK
<1>1. IndInv => RethTypeOK
  BY DEF IndInv
<1> QED
  BY <1>1, InitInv, IndStep, PTL DEF RethSpec

\* A root reaches the account only after all slots of the entity are committed,
\* for any entities, workers and capacities.
THEOREM StreamRoots == RethSpec => []RootHasSlots
<1>1. IndInv => RootHasSlots
  BY DEF IndInv
<1> QED
  BY <1>1, InitInv, IndStep, PTL DEF RethSpec

\* streamSpecStorage returns nil only with every slot committed and every root
\* known, for any entities, workers and capacities.
THEOREM StreamComplete == RethSpec => []NilMeansAllStored
<1>1. RethInit => NilMeansAllStored
  BY DEF RethInit, NilMeansAllStored
<1>2. IndInv /\ NilMeansAllStored /\ [RethNext]_rethVars => NilMeansAllStored'
  <2> SUFFICES ASSUME IndInv, NilMeansAllStored, [RethNext]_rethVars, streamed' = "ok"
               PROVE  stored' = AllChunks /\ spliced' = Streamed
    BY DEF NilMeansAllStored
  <2>1. IndInv'
    BY IndStep
  <2>2. CASE streamed = "ok"
    <3>1. stored \subseteq stored' /\ spliced \subseteq spliced'
      BY Zenon DEF RethNext, RethRuns, FeederMoves, CoderStep, ConsumerStep, FeedEntity, CloseEntities,
        TakeEntity, DrainEntity, Offer, WalkSlots, SendChunk, WalkFails, AnswerErr, CloseChunks,
        AnswerRoot, CloseOffers, TakeOffer, Discard, BeginTxn, PutChunk, CommitTxn, Await,
        ReturnRoots, StreamCancelled, rethVars, consumerVars
    <3> QED
      BY Zenon, <2>1, <2>2, <3>1 DEF NilMeansAllStored, IndInv, RethTypeOK
  <2>3. CASE streamed # "ok"
    <3>1. ReturnRoots /\ ~StreamError
      BY Zenon, <2>3 DEF RethNext, RethRuns, FeederMoves, CoderStep, ConsumerStep, FeedEntity,
        CloseEntities, TakeEntity, DrainEntity, Offer, WalkSlots, SendChunk, WalkFails, AnswerErr,
        CloseChunks, AnswerRoot, CloseOffers, TakeOffer, Discard, BeginTxn, PutChunk, CommitTxn,
        Await, ReturnRoots, StreamCancelled, rethVars, consumerVars
    <3>2. toFeed = {} /\ entityCh = {} /\ \A w \in Workers : coder[w] = "exit"
      BY <3>1, PoolAssumption
      DEF ReturnRoots, StreamEnds, StreamError, IndInv, Accounted, CodersExited
    <3>3. spliced = Streamed
      BY <3>1, <3>2 DEF ReturnRoots, StreamEnds, StreamError, IndInv, RethTypeOK, Accounted,
        Before, Busy
    <3>4. AllChunks \subseteq stored
      BY <3>3 DEF IndInv, RootHasSlots, AllChunks
    <3> QED
      BY Zenon, <3>1, <3>3, <3>4 DEF ReturnRoots, IndInv, RethTypeOK
  <2> QED
    BY <2>2, <2>3
<1> QED
  BY <1>1, <1>2, InitInv, IndStep, PTL DEF RethSpec
=============================================================================
