-------------------------- MODULE BesuMemoryBuilder --------------------------
(***************************************************************************)
(* Builder and StorageBuilder (internal/besu/trie/builder.go), the trie    *)
(* held in memory that the streaming builder is compared with in tests:    *)
(* keys are inserted in any order, and Commit writes the nodes.  Leaves    *)
(* keep the terminator in their path until they are encoded.               *)
(***************************************************************************)
EXTENDS MerkleTrie

LeafTerminator == 16
keyPath(key) == Append(key, LeafTerminator)

New(refSize) == [refSize |-> refSize, root |-> EmptyTrie, isEmpty |-> TRUE, rows |-> {}]

WithChild(children, i, node) ==
    [j \in DOMAIN children \cup {i} |-> IF j = i THEN node ELSE children[j]]
BelowPath(path, node) == IF path = <<>> THEN node ELSE Ext(path, node)

(* A node whose path leaves the inserted one after cpl nibbles becomes a   *)
(* branch of what remains of the node and a new leaf.                      *)
Split(path, old, newPath, key) ==
    LET cpl == commonPrefixLen(path, newPath)
    IN BelowPath(Prefix(path, cpl),
                 Branch(WithChild(WithChild(<<>>, path[cpl + 1], old),
                                  newPath[cpl + 1], Leaf(Drop(newPath, cpl + 1), key))))

RECURSIVE insertNode(_, _, _)
insertNode(node, path, key) ==
    LET cpl == commonPrefixLen(node.path, path) IN
    CASE node.type = "empty" -> Leaf(path, key)
      [] node.type = "leaf" ->
            IF node.path = path THEN Leaf(path, key)
            ELSE Split(node.path, Leaf(Drop(node.path, cpl + 1), node.val), path, key)
      [] node.type = "ext" ->
            IF cpl = Len(node.path)
            THEN Ext(node.path, insertNode(node.kids[1], Drop(path, cpl), key))
            ELSE Split(node.path, BelowPath(Drop(node.path, cpl + 1), node.kids[1]), path, key)
      [] node.type = "branch" ->
            LET child == IF path[1] \in DOMAIN node.kids THEN node.kids[path[1]] ELSE EmptyTrie
            IN Branch(WithChild(node.kids, path[1], insertNode(child, Tail(path), key)))

AddAccount(b, key) ==
    [b EXCEPT !.root = insertNode(@, keyPath(key), key), !.isEmpty = FALSE]

(* EncodedBytes strips the terminator                                      *)
RECURSIVE EncodedBytes(_)
EncodedBytes(node) ==
    IF node.type = "leaf" THEN [node EXCEPT !.path = Front(@)]
    ELSE [node EXCEPT !.kids = [i \in DOMAIN @ |-> EncodedBytes(@[i])]]

RECURSIVE commitTraversal(_, _, _)
commitTraversal(node, location, refSize) ==
    LET rlp == EncodedBytes(node)
    IN (IF IsReferencedByHash(rlp, refSize) THEN {Row(location, rlp)} ELSE {}) \cup
       CASE node.type = "ext" ->
               commitTraversal(node.kids[1], location \o node.path, refSize)
         [] node.type = "branch" ->
               UNION {commitTraversal(node.kids[i], Append(location, i), refSize) :
                        i \in DOMAIN node.kids}
         [] OTHER -> {}

(* the root is stored whatever its size                                    *)
Commit(b) ==
    LET rlp == EncodedBytes(b.root)
    IN IF b.isEmpty THEN [b |-> b, root |-> EmptyTrie]
       ELSE [b |-> [b EXCEPT !.rows = commitTraversal(b.root, <<>>, b.refSize)
                                        \cup {Row(<<>>, rlp)}],
             root |-> rlp]
=============================================================================
