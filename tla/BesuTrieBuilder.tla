--------------------------- MODULE BesuTrieBuilder ---------------------------
(***************************************************************************)
(* streamingBuilder (internal/besu/trie/streaming_storage_builder.go), the *)
(* engine of besu's account and storage tries: a right spine of finished   *)
(* children (stack) and, per depth, the slots filled so far (stateMasks).  *)
(* A leaf is processed when its successor is known.  Every node that a     *)
(* parent refers to by hash is written at its location, the nibbles from   *)
(* the root to it.                                                         *)
(*                                                                         *)
(* A builder is a record; an operation maps it to the record after it.     *)
(* Masks are sets of nibbles, and stateMasks[d + 1] is the mask of depth d.*)
(***************************************************************************)
EXTENDS MerkleTrie

LeafTerminator == 16

NewBuilder(refSize) ==
    [refSize |-> refSize, prevPath |-> <<>>, stack |-> <<>>, stateMasks |-> <<>>,
     leafCount |-> 0, rows |-> {}, rootRLP |-> EmptyTrie]

keyPath(key) == Append(key, LeafTerminator)
valueOf(path) == Front(path)

maybeEmit(b, location, node) ==
    IF ~IsReferencedByHash(node, b.refSize) THEN b
    ELSE [b EXCEPT !.rows = @ \cup {Row(location, node)},
                   !.rootRLP = IF location = <<>> THEN node ELSE @]

(* encodeLeafRLP strips the terminator                                     *)
encodeLeafRLP(path, key) ==
    Leaf(IF path # <<>> /\ Last(path) = LeafTerminator THEN Front(path) ELSE path, key)

(* pop n finished children and push node, written at location              *)
Replace(b, n, location, node) ==
    [maybeEmit(b, location, node) EXCEPT
        !.stack = Append(Prefix(@, Len(@) - n), node)]

(* the i-th occupied slot takes the i-th child of those popped             *)
BranchOf(mask, children) ==
    Branch([i \in mask |-> children[Cardinality({j \in mask : j <= i})]])

sealBranchAt(b, current, length) ==
    LET mask == b.stateMasks[length + 1]
        n    == Cardinality(mask)
    IN Replace(b, n, Prefix(current, length),
               BranchOf(mask, Drop(b.stack, Len(b.stack) - n)))

SetMask(masks, length, digit) ==
    [d \in 1..Max({Len(masks), length + 1}) |->
        (IF d <= Len(masks) THEN masks[d] ELSE {}) \cup
        (IF d = length + 1 THEN {digit} ELSE {})]

DropEmptyMasks(masks) ==
    Prefix(masks, Max({0} \cup {d \in DOMAIN masks : masks[d] # {}}))

LenFrom(length, succeeding, precedingExists) ==
    IF succeeding # <<>> \/ precedingExists THEN length + 1 ELSE length

(* One turn of the loop of update handles the node that ends at current: a *)
(* leaf first, then the enclosing extensions; it ends where succeeding (nil*)
(* at the end) still has to join the open branch.                          *)
RECURSIVE updateFrom(_, _, _, _)
updateFrom(b, current, succeeding, buildExtensions) ==
    LET precedingExists == b.stateMasks # <<>>
        precedingLen == IF precedingExists THEN Len(b.stateMasks) - 1 ELSE 0
        cpl     == commonPrefixLen(succeeding, current)
        length  == Max({precedingLen, cpl})
        lenFrom == LenFrom(length, succeeding, precedingExists)
        shortNodeKey == Drop(current, lenFrom)
        marked  == [b EXCEPT !.stateMasks = SetMask(@, length, current[length + 1])]
        node    == IF ~buildExtensions
                   THEN Replace(marked, 0, Prefix(current, lenFrom),
                                encodeLeafRLP(shortNodeKey, valueOf(b.prevPath)))
                   ELSE IF shortNodeKey # <<>>
                   THEN Replace(marked, 1, Prefix(current, lenFrom),
                                Ext(shortNodeKey, Last(b.stack)))
                   ELSE marked
        sealed  == IF succeeding # <<>> \/ precedingExists
                   THEN sealBranchAt(node, current, length) ELSE node
        cut     == [sealed EXCEPT !.stateMasks = DropEmptyMasks(Prefix(@, length))]
    IN IF precedingLen <= cpl /\ succeeding # <<>> THEN node
       ELSE IF precedingLen = 0 THEN cut
       ELSE updateFrom(cut, Prefix(current, precedingLen), succeeding, TRUE)

update(b, succeeding) == updateFrom(b, b.prevPath, succeeding, FALSE)

(* a key that is not above the last one is refused, the builder unchanged  *)
Accepts(b, key) == b.prevPath = <<>> \/ Below(b.prevPath, keyPath(key))

addLeaf(b, key) ==
    LET done == IF b.prevPath = <<>> THEN b ELSE update(b, keyPath(key))
    IN [done EXCEPT !.leafCount = @ + 1, !.prevPath = keyPath(key)]

(* the builder after the call and the root: its RLP stands for its hash    *)
finalize(b) ==
    IF b.leafCount = 0 THEN [b |-> b, root |-> EmptyTrie, rootRLP |-> EmptyTrie]
    ELSE LET done == [update(b, <<>>) EXCEPT !.prevPath = <<>>]
             rootRef == Last(done.stack)
         IN IF IsReferencedByHash(rootRef, b.refSize)
            THEN [b |-> done, root |-> rootRef, rootRLP |-> done.rootRLP]
            ELSE [b |-> [done EXCEPT !.rows = @ \cup {Row(<<>>, rootRef)}],
                  root |-> rootRef, rootRLP |-> rootRef]

-----------------------------------------------------------------------------
(* What besu reads: the nodes its parents refer to by hash, and the root.  *)
ReferenceRows(keys, refSize) ==
    {r \in NodesOf(keys) : r.path = <<>> \/ IsReferencedByHash(r.node, refSize)}
=============================================================================
