-------------------------------- MODULE Pool --------------------------------
(***************************************************************************)
(* What the clients' concurrent writers share: pools of workers, batches   *)
(* sent through bounded channels, the faults they are subject to, and the  *)
(* size of a Phase 0, which more than one of them runs.                    *)
(***************************************************************************)
EXTENDS Naturals

CONSTANTS Workers,
          BatchSize, ChanCap,  \* entries of a batch, batches of a channel
          CanFail,             \* may drains, encodings, commits and writes fail
          CanCancel            \* may the caller's context end

\* Phase 0
CONSTANTS Items,
          RowsPerItem,               \* rows an account writes (bound)
          FlushRows,                 \* scratchBatchFlushBytes, in rows
          DrainCap, PreparedCap      \* channel capacities

ASSUME PoolAssumption ==
    /\ Workers # {}                  \* at least one, at most one per account
    /\ BatchSize \in Nat \ {0} /\ ChanCap \in Nat \ {0}
    /\ CanFail \in BOOLEAN /\ CanCancel \in BOOLEAN
    /\ RowsPerItem \in Nat \ {0} /\ FlushRows \in Nat \ {0}
    /\ DrainCap \in Nat \ {0} /\ PreparedCap \in Nat \ {0}
=============================================================================
