----------------------------- MODULE MerkleTrie -----------------------------
(***************************************************************************)
(* The Merkle-Patricia trie that every client's builder must produce, as a *)
(* recursive function of the key set.  It is the reference the one-pass    *)
(* builders are checked against, and holds the node terms they share.      *)
(*                                                                         *)
(* A key is a sequence of nibbles, all keys of one length.  A value is     *)
(* named by its key.  The encoding of a node is the node itself, and so is *)
(* its hash: two encodings are equal exactly when the subtrees are.  Only  *)
(* the size of an encoding is kept besides, because a parent embeds a node *)
(* shorter than 32 bytes instead of referring to it by hash.               *)
(***************************************************************************)
EXTENDS Integers, Sequences, SequencesExt, FiniteSets, FiniteSetsExt

Leaf(rem, key) == [type |-> "leaf", path |-> rem, val |-> key, kids |-> <<>>]
Ext(pfx, child) == [type |-> "ext", path |-> pfx, val |-> <<>>, kids |-> <<child>>]
Branch(kids) == [type |-> "branch", path |-> <<>>, val |-> <<>>, kids |-> kids]
EmptyTrie == [type |-> "empty", path |-> <<>>, val |-> <<>>, kids |-> <<>>]

Prefix(key, n) == SubSeq(key, 1, n)
Drop(key, n) == SubSeq(key, n + 1, Len(key))
commonPrefixLen(a, b) == Len(LongestCommonPrefix({a, b}))
Row(path, node) == [path |-> path, node |-> node]

(* bytes.Compare(a, b) < 0 for keys of one length                          *)
Below(a, b) == \E n \in 1..Len(a) : Prefix(a, n - 1) = Prefix(b, n - 1) /\ a[n] < b[n]

-----------------------------------------------------------------------------
(* Sizes: a stand-in for len(rlp) that grows with the path and with the    *)
(* references held, refSize being the size from which a hash is used.      *)

RECURSIVE Size(_, _)
RefLen(node, refSize) == Min({Size(node, refSize), refSize})
Size(node, refSize) ==
    CASE node.type = "leaf"   -> Len(node.path) + 1
      [] node.type = "ext"    -> Len(node.path) + RefLen(node.kids[1], refSize)
      [] node.type = "branch" ->
            2 + MapThenSumSet(LAMBDA i : RefLen(node.kids[i], refSize), DOMAIN node.kids)

IsReferencedByHash(node, refSize) == Size(node, refSize) >= refSize

-----------------------------------------------------------------------------
(* The trie of a non-empty set of keys that agree on their first d nibbles,*)
(* and its nodes, each with the path from the root to it.                  *)

RECURSIVE Trie(_, _)
Trie(keys, d) ==
    LET lcp == LongestCommonPrefix(keys) IN
    IF Cardinality(keys) = 1 THEN Leaf(Drop(lcp, d), lcp)
    ELSE IF Len(lcp) > d THEN Ext(Drop(lcp, d), Trie(keys, Len(lcp)))
    ELSE Branch([i \in {k[d + 1] : k \in keys} |->
                    Trie({k \in keys : k[d + 1] = i}, d + 1)])

TrieOf(keys) == IF keys = {} THEN EmptyTrie ELSE Trie(keys, 0)

RECURSIVE NodesBelow(_, _)
NodesBelow(node, path) ==
    {Row(path, node)} \cup
    CASE node.type = "ext" -> NodesBelow(node.kids[1], path \o node.path)
      [] node.type = "branch" ->
            UNION {NodesBelow(node.kids[i], Append(path, i)) : i \in DOMAIN node.kids}
      [] OTHER -> {}

NodesOf(keys) == IF keys = {} THEN {} ELSE NodesBelow(TrieOf(keys), <<>>)
=============================================================================
