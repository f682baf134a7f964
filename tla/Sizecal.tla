------------------------------ MODULE Sizecal ------------------------------
(***************************************************************************)
(* internal/sizecal: what one account and one slot cost on disk.           *)
(***************************************************************************)
EXTENDS Integers

CONSTANTS BytesPerAccount, BytesPerSlot

SlotsForBytes(bytes) == bytes \div BytesPerSlot
=============================================================================
