-------------------------- MODULE EthrexTrieBuilder --------------------------
(***************************************************************************)
(* Builder (internal/ethrex/builder.go): the open branches of the right    *)
(* edge on a stack, each with the children finished so far, and the last   *)
(* leaf.  Every node is one row at its path; a leaf has a second row, its  *)
(* value at its full path.  An empty trie is one row.                      *)
(***************************************************************************)
EXTENDS MerkleTrie

LeafFlag == 16
Raw(key) == [type |-> "raw", path |-> <<>>, val |-> key, kids |-> <<>>]

NewBuilder == [prevKey |-> <<>>, stack |-> <<>>, leafCount |-> 0, rows |-> {}]

Top(b) == Last(b.stack)
TopDepth(b) == IF b.stack = <<>> THEN -1 ELSE Top(b).depth
Emit(b, path, node) == [b EXCEPT !.rows = @ \cup {Row(path, node)}]
Pop(b) == [b EXCEPT !.stack = Front(@)]

(* children[prevKey[depth]] = node in the top branch                       *)
Attach(b, node) ==
    LET nib == b.prevKey[Top(b).depth + 1] IN
    [b EXCEPT !.stack[Len(b.stack)].children =
        [i \in DOMAIN @ \cup {nib} |-> IF i = nib THEN node ELSE @[i]]]

PushBranch(b, depth) ==
    [b EXCEPT !.stack = Append(@, [depth |-> depth, children |-> <<>>])]

(* The open leaf as a child at position pos.                               *)
LeafAt(b, pos) == Leaf(Drop(b.prevKey, pos), b.prevKey)
emitLeafRows(b, pos) ==
    Emit(Emit(b, Prefix(b.prevKey, pos), LeafAt(b, pos)),
         Append(b.prevKey, LeafFlag), Raw(b.prevKey))

(* branch p under a parent at parentDepth: what the parent refers to, and  *)
(* the rows: the branch and, across a gap, the extension above it          *)
Finalized(b, p, parentDepth) ==
    LET pfx == SubSeq(b.prevKey, parentDepth + 2, p.depth)
    IN IF pfx = <<>> THEN Branch(p.children) ELSE Ext(pfx, Branch(p.children))
finalizeBranch(b, p, parentDepth) ==
    Emit(Emit(b, Prefix(b.prevKey, p.depth), Branch(p.children)),
         Prefix(b.prevKey, parentDepth + 1), Finalized(b, p, parentDepth))

RECURSIVE foldTo(_, _)
foldTo(b, lcp) ==
    LET p            == Top(b)
        popped       == Pop(b)
        parentIsDeep == TopDepth(popped) > lcp
        parentDepth  == IF parentIsDeep THEN TopDepth(popped) ELSE lcp
        written      == finalizeBranch(popped, p, parentDepth)
        open         == IF parentIsDeep \/ TopDepth(popped) = lcp THEN written
                        ELSE PushBranch(written, lcp)
        attached     == Attach(open, Finalized(popped, p, parentDepth))
    IN IF parentIsDeep THEN foldTo(attached, lcp) ELSE attached

insert(b, key) ==
    LET lcp  == commonPrefixLen(b.prevKey, key)
        dTop == TopDepth(b)
        d    == Max({lcp, dTop})
        written == emitLeafRows(b, d + 1)
        open == IF d > dTop THEN PushBranch(written, d) ELSE written
        attached == Attach(open, LeafAt(b, d + 1))
    IN IF d > dTop \/ lcp = dTop THEN attached ELSE foldTo(attached, lcp)

Accepts(b, key) == b.prevKey = <<>> \/ (Below(b.prevKey, key) /\ Len(key) = Len(b.prevKey))

AddLeaf(b, key) ==
    LET done == IF b.leafCount = 0 THEN b ELSE insert(b, key)
    IN [done EXCEPT !.leafCount = @ + 1, !.prevKey = key]

RECURSIVE FoldAll(_)
FoldAll(b) ==
    LET p == Top(b)
        popped == Pop(b)
        node == Finalized(popped, p, TopDepth(popped))
        written == finalizeBranch(popped, p, TopDepth(popped))
    IN IF popped.stack = <<>> THEN [b |-> written, root |-> node]
       ELSE FoldAll(Attach(written, node))

Root(b) ==
    IF b.leafCount = 0 THEN [b |-> Emit(b, <<>>, EmptyTrie), root |-> EmptyTrie]
    ELSE IF b.stack = <<>> THEN [b |-> emitLeafRows(b, 0), root |-> LeafAt(b, 0)]
    ELSE LET pos == Top(b).depth + 1
         IN FoldAll(Attach(emitLeafRows(b, pos), LeafAt(b, pos)))

-----------------------------------------------------------------------------
(* What ethrex reads: every node at its path, every value at its full path.*)
ReferenceRows(keys) ==
    IF keys = {} THEN {Row(<<>>, EmptyTrie)}
    ELSE NodesOf(keys) \cup {Row(Append(k, LeafFlag), Raw(k)) : k \in keys}
=============================================================================
