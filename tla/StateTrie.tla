----------------------------- MODULE StateTrie ------------------------------
(***************************************************************************)
(* The reference for accounts and storage together: the trie of the        *)
(* accounts, whose leaves hold the roots of their storage tries.  An       *)
(* account's key has AccountKeyLen nibbles (64); a slot's key continues its*)
(* account's.                                                              *)
(***************************************************************************)
EXTENDS MerkleTrie

CONSTANT AccountKeyLen

IsAccountKey(key) == Len(key) = AccountKeyLen
AccountLeaf(rem, key, storageRoot) ==
    [type |-> "leaf", path |-> rem, val |-> key, kids |-> <<storageRoot>>]
AccountsOf(keys) == {k \in keys : IsAccountKey(k)}
SlotsOf(a, keys) == {k \in keys : IsStrictPrefix(a, k)}
StorageTrie(a, keys) == IF SlotsOf(a, keys) = {} THEN EmptyTrie
                        ELSE Trie(SlotsOf(a, keys), AccountKeyLen)

RECURSIVE WithStorage(_, _)
WithStorage(node, keys) ==
    IF node.type = "leaf" THEN AccountLeaf(node.path, node.val, StorageTrie(node.val, keys))
    ELSE [node EXCEPT !.kids = [i \in DOMAIN @ |-> WithStorage(@[i], keys)]]

ReferenceRoot(keys) == WithStorage(TrieOf(AccountsOf(keys)), keys)
=============================================================================
