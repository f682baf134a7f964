--------------------------- MODULE SpillPipeline ---------------------------
(***************************************************************************)
(* Phase 1 of the ethrex and nimbus writers (runPhase1Pipeline): the       *)
(* calling goroutine draws entities from the RNG in order and sends them   *)
(* in batches; a pool encodes them; one goroutine puts them into the spill *)
(* store.  A failed Put, or the end of the caller's context, ends p1Ctx;   *)
(* from then on everyone only drains.                                      *)
(* A batch is the set of the entities in it; channels are sets of batches. *)
(***************************************************************************)
EXTENDS Pool, Integers, FiniteSets

CONSTANT Count

Draws == 0 .. Count - 1

VARIABLES
    drawn, batch, drawer,      \* next index, batch being filled, "draw" | "send" | "join" | "back"
    drawCh, drawClosed,
    enc,                       \* per worker: the batch in hand, {} when it has none
    encDone,                   \* workers that have returned
    blobCh, blobClosed,
    puts, putDone,             \* what the Put goroutine has left of its batch
    sorter,                    \* entities in the spill store
    firstErr, ctxDone,
    result                     \* none | ok | err

drawVars == <<drawn, batch, drawer>>
encVars == <<enc, encDone>>
putVars == <<puts, putDone, sorter>>
vars == <<drawVars, drawCh, drawClosed, encVars, blobCh, blobClosed, putVars,
          firstErr, ctxDone, result>>

Init ==
    /\ drawn = 0 /\ batch = {} /\ drawer = "draw"
    /\ drawCh = {} /\ drawClosed = FALSE
    /\ enc = [w \in Workers |-> {}] /\ encDone = {}
    /\ blobCh = {} /\ blobClosed = FALSE
    /\ puts = {} /\ putDone = FALSE /\ sorter = {}
    /\ firstErr = FALSE /\ ctxDone = FALSE /\ result = "none"

Done == firstErr \/ ctxDone                        \* p1Ctx.Done() is closed

-----------------------------------------------------------------------------
BatchFull(b) == Cardinality(b) = BatchSize

\* One turn of the draw loop.
Draw ==
    /\ drawer = "draw" /\ drawn < Count /\ ~Done
    /\ batch' = batch \cup {drawn} /\ drawn' = drawn + 1
    /\ drawer' = IF BatchFull(batch') THEN "send" ELSE "draw"
    /\ UNCHANGED <<drawCh, drawClosed, encVars, blobCh, blobClosed, putVars,
                   firstErr, ctxDone, result>>

\* The select on drawCh: of a full batch, or of what is left.
SendBatch ==
    /\ drawer = "send"
    /\ \/ Cardinality(drawCh) < ChanCap /\ drawCh' = drawCh \cup {batch}
       \/ Done /\ UNCHANGED drawCh
    /\ batch' = {} /\ drawer' = "draw"
    /\ UNCHANGED <<drawn, drawClosed, encVars, blobCh, blobClosed, putVars,
                   firstErr, ctxDone, result>>

\* The loop has ended: the last batch is sent unless p1Ctx is done.
TailPending == batch # {} /\ ~Done
ClosesDraw == drawClosed' = TRUE
DrawEnds ==
    /\ drawer = "draw" /\ (drawn = Count \/ Done)
    /\ IF TailPending
       THEN drawer' = "send" /\ UNCHANGED drawClosed
       ELSE drawer' = "join" /\ ClosesDraw
    /\ UNCHANGED <<drawn, batch, drawCh, encVars, blobCh, blobClosed, putVars,
                   firstErr, ctxDone, result>>

-----------------------------------------------------------------------------
TakeBatch(w) ==
    /\ w \notin encDone /\ enc[w] = {}
    /\ \E b \in drawCh :
        /\ drawCh' = drawCh \ {b}
        /\ enc' = IF Done THEN enc ELSE [enc EXCEPT ![w] = b]
    /\ UNCHANGED <<drawVars, drawClosed, encDone, blobCh, blobClosed, putVars,
                   firstErr, ctxDone, result>>

Encode(w) ==
    /\ enc[w] # {}
    /\ \/ Cardinality(blobCh) < ChanCap /\ blobCh' = blobCh \cup {enc[w]}
       \/ Done /\ UNCHANGED blobCh
    /\ enc' = [enc EXCEPT ![w] = {}]
    /\ UNCHANGED <<drawVars, drawCh, drawClosed, encDone, blobClosed, putVars,
                   firstErr, ctxDone, result>>

EncodeEnds(w) ==
    /\ w \notin encDone /\ enc[w] = {} /\ drawCh = {} /\ drawClosed
    /\ encDone' = encDone \cup {w}
    /\ UNCHANGED <<drawVars, drawCh, drawClosed, enc, blobCh, blobClosed, putVars,
                   firstErr, ctxDone, result>>

\* go func() { encWg.Wait(); close(blobCh) }()
WorkersDone == encDone = Workers
CloseBlobs ==
    /\ ~blobClosed /\ WorkersDone
    /\ blobClosed' = TRUE
    /\ UNCHANGED <<drawVars, drawCh, drawClosed, encVars, blobCh, putVars,
                   firstErr, ctxDone, result>>

-----------------------------------------------------------------------------
TakeBlobs ==
    /\ ~putDone /\ puts = {}
    /\ \E b \in blobCh :
        /\ blobCh' = blobCh \ {b}
        /\ puts' = IF Done THEN {} ELSE b
    /\ UNCHANGED <<drawVars, drawCh, drawClosed, encVars, blobClosed, putDone, sorter,
                   firstErr, ctxDone, result>>

\* One sorter.Put; the rest of a batch goes in even when p1Ctx is done, unless
\* a Put fails.
Put ==
    /\ \/ \E e \in puts :
            /\ puts' = puts \ {e} /\ sorter' = sorter \cup {e}
            /\ UNCHANGED firstErr
       \/ /\ CanFail /\ puts # {}
          /\ puts' = {} /\ firstErr' = TRUE /\ UNCHANGED sorter
    /\ UNCHANGED <<drawVars, drawCh, drawClosed, encVars, blobCh, blobClosed, putDone,
                   ctxDone, result>>

PutEnds ==
    /\ ~putDone /\ puts = {} /\ blobCh = {} /\ blobClosed
    /\ putDone' = TRUE
    /\ UNCHANGED <<drawVars, drawCh, drawClosed, encVars, blobCh, blobClosed, puts, sorter,
                   firstErr, ctxDone, result>>

\* putWg.Wait, then firstErr or ctx.Err().
FinalErrorFirst == firstErr
FinalError == firstErr \/ ctxDone
Return ==
    /\ drawer = "join" /\ putDone
    /\ drawer' = "back" /\ result' = IF FinalError THEN "err" ELSE "ok"
    /\ UNCHANGED <<drawn, batch, drawCh, drawClosed, encVars, blobCh, blobClosed, putVars,
                   firstErr, ctxDone>>

Cancel ==
    /\ CanCancel /\ ~ctxDone /\ result = "none"
    /\ ctxDone' = TRUE
    /\ UNCHANGED <<drawVars, drawCh, drawClosed, encVars, blobCh, blobClosed, putVars,
                   firstErr, result>>

Runs ==
    \/ Draw \/ SendBatch \/ DrawEnds
    \/ \E w \in Workers : TakeBatch(w) \/ Encode(w) \/ EncodeEnds(w)
    \/ CloseBlobs \/ TakeBlobs \/ Put \/ PutEnds \/ Return
Next == Runs \/ Cancel

\* While a goroutine can run, one runs; the caller need not cancel.
Spec == Init /\ [][Next]_vars /\ WF_vars(Runs)

-----------------------------------------------------------------------------
\* runPhase1Pipeline returns nil only when every entity drawn is in the spill
\* store, also when the context ended while batches were being dropped.
NilMeansAllSpilled == result = "ok" => sorter = Draws
=============================================================================
