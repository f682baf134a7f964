-------------------------- MODULE MCClientWriters --------------------------
(* A small instance of every writer.  nimbus: of three accounts, one has   *)
(* its storage streamed and one has it built in Phase 2.  reth: a giant of *)
(* two chunks and a contract of one.  erigon: an account, a contract with  *)
(* one slot, a spec slot with a zero value and a spec slot.                *)
EXTENDS ClientWriters

MCStorage == {0}
MCPreStorage == {1}
MCChunksOf == [e \in Streamed |-> IF e \in Giants THEN 2 ELSE 1]
MCRowsOf ==
    <<<<"accounts", "commitIn">>,
      <<"accounts", "storage", "commitIn", "commitIn">>,
      <<>>,
      <<"storage", "commitIn">>>>
=============================================================================
