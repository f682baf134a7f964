--------------------------- MODULE MCTrieBuilders ---------------------------
(***************************************************************************)
(* Every subset of two sets of keys.  Wide: ternary nibbles, so that a     *)
(* branch may leave a slot empty before, between or after its children.    *)
(* Deep: runs of shared nibbles between branches, so that an extension     *)
(* starts at the root, below a branch, and above a branch with branches    *)
(* below it, and may be split by a later key.                              *)
(* Accounts and slots for erigon: shards with one account and with several,*)
(* branches with and without an extension above them among accounts and    *)
(* slots, accounts with one slot.  No two accounts share all nibbles but   *)
(* the last, which keccak hashes of 64 nibbles do not either.  A few of    *)
(* them for nethermind, in every order.  Stems of four bits that part at   *)
(* every depth, with and without neighbours.                               *)
(***************************************************************************)
EXTENDS TrieBuilders

Wide == {<<0,0,0,0>>, <<0,0,0,2>>, <<0,1,2,0>>, <<0,1,2,1>>, <<1,2,0,1>>, <<1,2,0,2>>,
         <<1,2,2,0>>, <<2,0,0,0>>, <<2,0,1,0>>, <<2,0,1,2>>, <<2,2,2,2>>}
Deep == {<<0,0,0,0,0,0>>, <<0,0,0,0,0,1>>, <<0,0,0,0,1,0>>, <<0,0,0,1,0,0>>,
         <<0,0,1,1,0,0>>, <<0,0,1,1,0,1>>, <<0,0,1,1,1,0>>, <<1,1,0,0,0,0>>,
         <<1,1,0,0,1,0>>, <<1,1,0,0,1,1>>}
MCKeySpaces == {Wide, Deep}
MCStateKeys ==
    {<<0,0,0,0>>, <<0,0,1,0>>, <<0,1,1,0>>, <<1,0,0,0>>, <<1,0,1,0>>} \cup
    {<<0,0,0,0>> \o s : s \in {<<0,1>>, <<1,0>>}} \cup
    {<<0,0,1,0>> \o s : s \in {<<0,0>>, <<0,1>>, <<1,0>>}} \cup
    {<<1,0,0,0>> \o s : s \in {<<0,0>>, <<0,1>>, <<1,1>>}} \cup
    {<<1,0,1,0>> \o s : s \in {<<1,0>>, <<1,1>>}}
MCFewStateKeys ==
    {<<0,0,0,0>>, <<0,0,1,0>>, <<1,0,0,0>>} \cup
    {<<0,0,0,0>> \o s : s \in {<<0,0>>, <<0,1>>, <<1,0>>}} \cup
    {<<1,0,0,0>> \o s : s \in {<<0,1>>, <<1,1>>}}
MCStems == [1..4 -> {0, 1}] \ {<<0,0,1,0>>, <<1,0,0,1>>, <<1,1,0,0>>}
=============================================================================
