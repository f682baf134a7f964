--------------------------- MODULE RethHashBuilder ---------------------------
(***************************************************************************)
(* HashBuilder (internal/reth/hash_builder.go).  The spine is the one of   *)
(* alloy's HashBuilder; what is written is not every node but a            *)
(* BranchNodeCompact row for each branch that has a branch below it, whose *)
(* masks tell reth's walker where to descend: treeMask (a stored row       *)
(* below), hashMask (a branch as direct child, its hash in Hashes).  The   *)
(* masks of the open depths live in slices that are cut and regrown as the *)
(* spine moves.                                                            *)
(*                                                                         *)
(* Mask slices are sequences of sets of nibbles, entry d + 1 for depth d.  *)
(* With 64-nibble keys the encoding of a branch is never shorter than a    *)
(* hash, so child[1:] is a hash wherever hashMask is set.                  *)
(***************************************************************************)
EXTENDS MerkleTrie

NewHashBuilder ==
    [key |-> <<>>, stack |-> <<>>, stateMasks |-> <<>>, treeMasks |-> <<>>,
     hashMasks |-> <<>>, leafCount |-> 0, rows |-> {}]

MaskAt(masks, depth) == IF depth < Len(masks) THEN masks[depth + 1] ELSE {}

Resized(masks, n) == [d \in 1..n |-> IF d <= Len(masks) THEN masks[d] ELSE {}]

resizeMasks(b, n) ==
    [b EXCEPT !.treeMasks = Resized(@, n), !.hashMasks = Resized(@, n)]

MarkState(b, length, digit) ==
    [b EXCEPT !.stateMasks =
        [Resized(@, Max({Len(@), length + 1})) EXCEPT ![length + 1] = @ \cup {digit}]]

DropEmptyMasks(masks) ==
    Prefix(masks, Max({0} \cup {d \in DOMAIN masks : masks[d] # {}}))

BranchOf(mask, children) ==
    Branch([i \in mask |-> children[Cardinality({j \in mask : j <= i})]])

(* mutated form: tree bits are not carried over an extension               *)
ClearHashOnly(b, current, lenFrom) ==
    IF lenFrom = 0 THEN b
    ELSE [b EXCEPT !.hashMasks[lenFrom] = @ \ {current[lenFrom]}]

(* before a node is wrapped in an extension that starts below depth        *)
(* lenFrom - 1: it is no direct child there, but stored rows under it count*)
updateMasks(b, current, lenFrom) ==
    IF lenFrom = 0 THEN b
    ELSE LET digit == current[lenFrom]
             propagates == /\ MaskAt(b.treeMasks, Len(current) - 1) # {}
                           /\ lenFrom <= Len(b.treeMasks)
                           /\ digit \in MaskAt(b.stateMasks, lenFrom - 1)
         IN [b EXCEPT
                !.hashMasks = IF lenFrom <= Len(@) THEN [@ EXCEPT ![lenFrom] = @ \ {digit}]
                              ELSE @,
                !.treeMasks = IF propagates THEN [@ EXCEPT ![lenFrom] = @ \cup {digit}]
                              ELSE @]

(* the bits a finished branch sets in its parent's masks                   *)
MarkParent(masks, current, length) ==
    IF length = 0 THEN masks ELSE [masks EXCEPT ![length] = @ \cup {current[length]}]

pushBranchNode(b, current, length) ==
    LET stateMask == b.stateMasks[length + 1]
        hashMask  == MaskAt(b.hashMasks, length)
        treeMask  == MaskAt(b.treeMasks, length)
        rest      == Len(b.stack) - Cardinality(stateMask)
        branch    == BranchOf(stateMask, Drop(b.stack, rest))
        storeInDbTrie == treeMask # {} \/ hashMask # {}
        emittedHashMask == hashMask \cap stateMask
        bnc == [path |-> Prefix(current, length), stateMask |-> stateMask,
                treeMask |-> treeMask \cap stateMask, hashMask |-> emittedHashMask,
                hashes |-> [i \in emittedHashMask |-> branch.kids[i]],
                rootHash |-> IF length = 0 THEN branch ELSE EmptyTrie]
        pushed == [b EXCEPT !.stack = Append(Prefix(@, rest), branch),
                            !.hashMasks = MarkParent(@, current, length)]
    IN IF ~storeInDbTrie THEN pushed
       ELSE [pushed EXCEPT !.treeMasks = MarkParent(@, current, length),
                           !.rows = @ \cup {bnc}]

RECURSIVE updateFrom(_, _, _, _)
updateFrom(b, current, succeeding, buildExtensions) ==
    LET precedingExists == b.stateMasks # <<>>
        precedingLen == IF precedingExists THEN Len(b.stateMasks) - 1 ELSE 0
        cpl     == commonPrefixLen(succeeding, current)
        length  == Max({precedingLen, cpl})
        lenFrom == IF succeeding # <<>> \/ precedingExists THEN length + 1 ELSE length
        shortNodeKey == Drop(current, lenFrom)
        marked  == resizeMasks(MarkState(b, length, current[length + 1]), Len(current))
        node    == IF ~buildExtensions
                   THEN [marked EXCEPT !.stack = Append(@, Leaf(shortNodeKey, b.key))]
                   ELSE IF shortNodeKey # <<>>
                   THEN resizeMasks([updateMasks(marked, current, lenFrom) EXCEPT
                                        !.stack = Append(Front(@), Ext(shortNodeKey, Last(@)))],
                                    lenFrom)
                   ELSE marked
        sealed  == IF succeeding # <<>> \/ precedingExists
                   THEN pushBranchNode(node, current, length) ELSE node
        cut     == resizeMasks([sealed EXCEPT !.stateMasks = DropEmptyMasks(Prefix(@, length))],
                               length)
    IN IF precedingLen <= cpl /\ succeeding # <<>> THEN node
       ELSE IF precedingLen = 0 THEN cut
       ELSE updateFrom(cut, Prefix(current, precedingLen), succeeding, TRUE)

update(b, succeeding) == updateFrom(b, b.key, succeeding, FALSE)

Accepts(b, key) == b.key = <<>> \/ Below(b.key, key)

AddLeaf(b, key) ==
    LET done == IF b.key = <<>> THEN b ELSE update(b, key)
    IN [done EXCEPT !.leafCount = @ + 1, !.key = key]

Root(b) ==
    IF b.leafCount = 0 THEN [b |-> b, root |-> EmptyTrie]
    ELSE LET done == [update(b, <<>>) EXCEPT !.key = <<>>]
         IN [b |-> done, root |-> Last(done.stack)]

-----------------------------------------------------------------------------
(* What reth expects, from the comment on HashBuilder: a branch is stored  *)
(* iff treeMask or hashMask is not empty; hashMask are the slots whose     *)
(* child is itself a branch; treeMask the slots with a stored branch below.*)

BranchKids(node) == {i \in DOMAIN node.kids : node.kids[i].type = "branch"}

RECURSIVE HoldsStored(_)
HoldsStored(node) ==
    CASE node.type = "ext" -> HoldsStored(node.kids[1])
      [] node.type = "branch" ->
            BranchKids(node) # {} \/ \E i \in DOMAIN node.kids : HoldsStored(node.kids[i])
      [] OTHER -> FALSE

ReferenceRows(keys) ==
    {[path |-> r.path, stateMask |-> DOMAIN r.node.kids,
      treeMask |-> {i \in DOMAIN r.node.kids : HoldsStored(r.node.kids[i])},
      hashMask |-> BranchKids(r.node),
      hashes |-> [i \in BranchKids(r.node) |-> r.node.kids[i]],
      rootHash |-> IF r.path = <<>> THEN r.node ELSE EmptyTrie] :
        r \in {n \in NodesOf(keys) : n.node.type = "branch" /\ HoldsStored(n.node)}}
=============================================================================
