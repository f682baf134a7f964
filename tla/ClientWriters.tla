--------------------------- MODULE ClientWriters ---------------------------
(***************************************************************************)
(* The concurrent writers, as one specification: a run of the tool is for  *)
(* one client, chosen by the --client flag, and of the four writers only   *)
(* that client's one moves.                                                *)
(***************************************************************************)
EXTENDS Phase0Pool, StateWriter, RethStorage, ErigonPipeline

VARIABLE client

allVars == <<client, phase0Vars, writerVars, rethVars, erigonVars>>

ClientsInit ==
    /\ client \in {"geth", "nimbus", "reth", "erigon"}
    /\ Phase0Init /\ WriterInit /\ RethInit /\ ErigonInit

ClientRuns ==
    \/ client = "geth" /\ GethRuns
       /\ UNCHANGED <<client, writerVars, rethVars, erigonVars>>
    \/ client = "nimbus" /\ WriterRuns
       /\ UNCHANGED <<client, phase0Vars, rethVars, erigonVars>>
    \/ client = "reth" /\ RethRuns
       /\ UNCHANGED <<client, phase0Vars, writerVars, erigonVars>>
    \/ client = "erigon" /\ ErigonRuns
       /\ UNCHANGED <<client, phase0Vars, writerVars, rethVars>>

ClientCancelled ==
    \/ client = "geth" /\ CancelCtx
       /\ UNCHANGED <<client, writerVars, rethVars, erigonVars>>
    \/ client = "nimbus" /\ WriterCancelled
       /\ UNCHANGED <<client, phase0Vars, rethVars, erigonVars>>
    \/ client = "reth" /\ StreamCancelled
       /\ UNCHANGED <<client, phase0Vars, writerVars, erigonVars>>
    \/ client = "erigon" /\ CallerCancels
       /\ UNCHANGED <<client, phase0Vars, writerVars, rethVars>>

ClientsNext == ClientRuns \/ ClientCancelled

\* While a goroutine can run, one runs; the caller need not cancel.
ClientsSpec == ClientsInit /\ [][ClientsNext]_allVars /\ WF_allVars(ClientRuns)

-----------------------------------------------------------------------------
\* The writer returns and leaves no goroutine behind, whatever fails and
\* whenever the caller cancels: no two goroutines wait for each other, and
\* none waits on a channel nobody serves any more.
WritersReturn ==
    <>CASE client = "geth" -> PoolStopped
        [] client = "nimbus" -> WriterReturned
        [] client = "reth" -> StreamStopped
        [] client = "erigon" -> ErigonStopped
=============================================================================
