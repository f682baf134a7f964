---------------------------- MODULE StateWriter -----------------------------
(***************************************************************************)
(* writeState of the nimbus and ethrex writers: Phase 0 (Phase0Pool)       *)
(* streams the storage of some accounts, Phase 1 (SpillPipeline) fills the *)
(* spill store, Phase 2 (AccountPipeline) reads it; each starts when the   *)
(* one before has returned nil.  The caller's context is shared, and so is *)
(* nimbus's allocator of vertex IDs: Phase 0 takes the IDs of its storage  *)
(* tries before its workers start, which take blocks as they build.        *)
(*                                                                         *)
(* Phase 0 returns nil when it is cancelled.  Stage A of Phase 2 looks its *)
(* results up, and an account without one would get an empty storage root. *)
(*                                                                         *)
(* writeState runs the Phase 1 pipeline twice, for EOAs and for contracts, *)
(* the second only if the first returned nil; it Puts the genesis accounts *)
(* between the two and the giants after them, alone.  The model runs one   *)
(* pipeline for all accounts.                                              *)
(***************************************************************************)
EXTENDS AccountPipeline

CONSTANT PreStorage          \* accounts whose storage Phase 0 streams

ASSUME PreStorageAssumption ==
    PreStorage \subseteq Accounts /\ PreStorage \cap Storage = {}

VARIABLES p0Assigned, p0Unfed, p0DrainCh, p0DrainClosed, p0Pc, p0Cur, p0Row, p0Batch,
          p0PreparedCh, p0PreparedClosed, p0Cause, p0Db, p0Roots, p0Verdict,
          p1Drawn, p1Batch, p1Drawer, p1DrawCh, p1DrawClosed, p1Enc, p1EncDone,
          p1BlobCh, p1BlobClosed, p1Puts, p1PutDone, p1Sorter, p1Err, p1Result

poolVars == <<p0Unfed, p0DrainCh, p0DrainClosed, p0Pc, p0Cur, p0Row, p0Batch,
              p0PreparedCh, p0PreparedClosed, p0Cause, p0Db, p0Roots, p0Verdict>>
p0Vars == <<p0Assigned, poolVars>>
p1Vars == <<p1Drawn, p1Batch, p1Drawer, p1DrawCh, p1DrawClosed, p1Enc, p1EncDone,
            p1BlobCh, p1BlobClosed, p1Puts, p1PutDone, p1Sorter, p1Err, p1Result>>
stages == <<stageA, stageB, results, stageC, firstErr, result>>
p2Vars == <<stages, allocator>>
writerVars == <<vars, p0Vars, p1Vars>>

Phase0 == INSTANCE Phase0Pool WITH
    Items <- PreStorage, unfed <- p0Unfed, drainCh <- p0DrainCh,
    drainClosed <- p0DrainClosed, stage <- p0Pc, building <- p0Cur, written <- p0Row,
    scratch <- p0Batch, preparedCh <- p0PreparedCh, preparedClosed <- p0PreparedClosed,
    cause <- p0Cause, cancelled <- ctxDone, committed <- p0Db, roots <- p0Roots,
    verdict <- p0Verdict

Phase1 == INSTANCE SpillPipeline WITH
    Count <- N, drawn <- p1Drawn, batch <- p1Batch, drawer <- p1Drawer,
    drawCh <- p1DrawCh, drawClosed <- p1DrawClosed, enc <- p1Enc, encDone <- p1EncDone,
    blobCh <- p1BlobCh, blobClosed <- p1BlobClosed, puts <- p1Puts, putDone <- p1PutDone,
    sorter <- p1Sorter, firstErr <- p1Err, result <- p1Result

WriterInit == Init /\ Phase0!Phase0Init /\ p0Assigned = FALSE /\ Phase1!Init

-----------------------------------------------------------------------------
\* The IDs of the streamed storage tries, in the order of the accounts.
Rank(a) == Cardinality({b \in PreStorage : b <= a})
AssignStoIDs ==
    /\ ~p0Assigned /\ p0Assigned' = TRUE
    /\ top' = top + Cardinality(PreStorage)
    /\ ids' = ids \cup {<<a, FirstId(top + Rank(a), 1), 1>> : a \in PreStorage}
    /\ UNCHANGED <<vTop, stages, ctxDone, poolVars, p1Vars>>

\* A worker of the pool builds a branch below the static levels.
StreamBranch(w) ==
    /\ p0Pc[w] = "work" /\ Branches(p0Cur[w]) < DeepBranches
    /\ Alloc(p0Cur[w], Block)
    /\ UNCHANGED <<stages, ctxDone, p0Vars, p1Vars>>

Phase1StartsAnyway == p0Verdict # "running"
Phase1Starts == p0Verdict = "ok"
Phase2Starts == p1Result = "ok"

WriterRuns ==
    \/ AssignStoIDs
    \/ p0Assigned /\ Phase0!PoolRuns /\ UNCHANGED <<p0Assigned, p1Vars, p2Vars>>
    \/ \E w \in Workers : StreamBranch(w)
    \/ Phase1Starts /\ Phase1!Runs /\ UNCHANGED <<p0Vars, p2Vars>>
    \/ Phase2Starts /\ Runs /\ UNCHANGED <<p0Vars, p1Vars>>

\* The caller's context ends, which Phase 0 records as its cause.
WriterCancelled ==
    /\ Cancel /\ p0Verdict # "error" /\ p1Result # "err"
    /\ IF p0Verdict = "running" THEN Phase0!CancelCtx ELSE UNCHANGED poolVars
    /\ UNCHANGED <<p0Assigned, p1Vars>>

WriterNext == WriterRuns \/ WriterCancelled

\* While a goroutine can run, one runs; the caller need not cancel.
WriterSpec == WriterInit /\ [][WriterNext]_writerVars /\ WF_writerVars(WriterRuns)

-----------------------------------------------------------------------------
\* runPhase1Pipeline returns nil only when every entity drawn is in the spill
\* store, also when the context ended while batches were being dropped.
NilMeansAllSpilled == Phase1!NilMeansAllSpilled

\* writeState returns a root only if every account streamed in Phase 0 has
\* its storage root and all rows of its trie, though Phase 0 returns nil
\* when it is cancelled half way and nothing in Phase 2 misses a result.
StreamedKeepStorage == result = "ok" => p0Roots = PreStorage /\ p0Db = Phase0!AllRows

WriterReturned == p0Verdict = "error" \/ p1Result = "err" \/ result # "none"
=============================================================================
