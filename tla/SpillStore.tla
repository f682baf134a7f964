----------------------------- MODULE SpillStore -----------------------------
(***************************************************************************)
(* What internal/streamsort promises its callers: Puts accumulate until    *)
(* the store is sealed, the contents never change after that, and a read   *)
(* answers with all of them.  After Close (shut) nothing is accepted, but  *)
(* reads that are under way still answer.                                  *)
(***************************************************************************)
CONSTANTS Readers, Keys, Values, NoValue
VARIABLES contents, sealed, shut, answer

svars == <<contents, sealed, shut, answer>>

SInit ==
    /\ contents = [k \in Keys |-> NoValue]
    /\ sealed = FALSE /\ shut = FALSE
    /\ answer = [r \in Readers |-> NoValue]

SPut(k, v) ==
    /\ ~sealed /\ ~shut
    /\ contents' = [contents EXCEPT ![k] = v]
    /\ UNCHANGED <<sealed, shut, answer>>

Seal ==
    /\ ~sealed /\ ~shut
    /\ sealed' = TRUE
    /\ UNCHANGED <<contents, shut, answer>>

Ask(r) ==
    /\ ~shut
    /\ answer' = [answer EXCEPT ![r] = NoValue]
    /\ UNCHANGED <<contents, sealed, shut>>

Answer(r) ==
    /\ sealed
    /\ answer' = [answer EXCEPT ![r] = contents]
    /\ UNCHANGED <<contents, sealed, shut>>

Shut ==
    /\ ~shut
    /\ shut' = TRUE
    /\ UNCHANGED <<contents, sealed, answer>>

SNext ==
    \/ \E k \in Keys, v \in Values : SPut(k, v)
    \/ Seal \/ Shut
    \/ \E r \in Readers : Ask(r) \/ Answer(r)

Spec == SInit /\ [][SNext]_svars
=============================================================================
