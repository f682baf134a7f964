-------------------------- MODULE NimbusTrieBuilder --------------------------
(***************************************************************************)
(* Builder and VerifyState (internal/nimbus/builder.go, vid.go,            *)
(* verify.go).  A vertex row is keyed by an ID, not by a path: a branch    *)
(* owns a block of IDs, its child at nibble n is startVid + n.  Down to    *)
(* StaticVIDLevels the block follows from the path, so that a reader may   *)
(* probe a level directly; below, it comes from the allocator shared by    *)
(* all tries.  An extension is part of the record of the branch under it.  *)
(*                                                                         *)
(* A record keeps the key of a branch (its node) only where the node is    *)
(* referred to by hash.  A trie is identified by its root ID, so IDs are   *)
(* within one trie here; blocks other tries take are gaps.                 *)
(***************************************************************************)
EXTENDS MerkleTrie

CONSTANTS Radix,            \* children of a branch (16)
          StaticVIDLevels   \* levels with static IDs (8)

NoKey == EmptyTrie

(* StaticOffset[d]: the first static ID of level d                         *)
StaticOffset(d) == 1 + MapThenSumSet(LAMBDA i : Radix^i, 0..(d - 1))
FirstDynamicVID == StaticOffset(StaticVIDLevels + 1)

StaticStartVid(path, childPos) ==
    StaticOffset(childPos) +
    MapThenSumSet(LAMBDA i : path[i] * Radix^(childPos - i), 1..(childPos - 1))
StaticVid(path, level) ==
    1 + MapThenSumSet(LAMBDA i : Radix^(i - 1) + path[i] * Radix^(level - i), 1..level)

NewBuilder(root, refSize) ==
    [root |-> root, refSize |-> refSize, prevKey |-> <<>>, stack |-> <<>>,
     leafCount |-> 0, minLeafDepth |-> 99, rows |-> {},
     top |-> FirstDynamicVID - 1, touched |-> FALSE]

Top(b) == Last(b.stack)
Pop(b) == [b EXCEPT !.stack = Front(@)]
None == [depth |-> -1, startVid |-> 0, children |-> <<>>]
ParentOf(b) == IF b.stack = <<>> THEN None ELSE Top(b)

Alloc(b, n) == [b EXCEPT !.top = @ + n, !.touched = TRUE]
VTop(b) == IF b.touched THEN b.top ELSE 0

(* mutated form: the last static level taken from the allocator            *)
DynamicTooEarly(b, depth) ==
    LET static == depth + 1 < StaticVIDLevels
        start  == IF static THEN StaticStartVid(b.prevKey, depth + 1) ELSE b.top + 1
    IN [(IF static THEN b ELSE Alloc(b, Radix)) EXCEPT
            !.stack = Append(@, [depth |-> depth, startVid |-> start, children |-> <<>>])]

(* newOpenBranch, pushed: a static block, or one from the allocator        *)
newOpenBranch(b, depth) ==
    LET static == depth + 1 <= StaticVIDLevels
        start  == IF static THEN StaticStartVid(b.prevKey, depth + 1) ELSE b.top + 1
    IN [(IF static THEN b ELSE Alloc(b, Radix)) EXCEPT
            !.stack = Append(@, [depth |-> depth, startVid |-> start, children |-> <<>>])]

vidUnder(b, parent) ==
    IF parent = None THEN b.root ELSE parent.startVid + b.prevKey[parent.depth + 1]

attach(b, node) ==
    LET nib == b.prevKey[Top(b).depth + 1] IN
    [b EXCEPT !.stack[Len(b.stack)].children =
        [i \in DOMAIN @ \cup {nib} |-> IF i = nib THEN node ELSE @[i]]]

Sink(b, vid, rec) == [b EXCEPT !.rows = @ \cup {[vid |-> vid, rec |-> rec]}]
LeafRecord(pfx, key) == [type |-> "leaf", pfx |-> pfx, payload |-> key,
                         startVid |-> 0, used |-> {}, key |-> NoKey]
BranchRecord(key, startVid, used, pfx) ==
    [type |-> IF pfx = <<>> THEN "branch" ELSE "extBranch", pfx |-> pfx,
     payload |-> <<>>, startVid |-> startVid, used |-> used, key |-> key]

(* the open leaf under the top branch, or as the root                      *)
LeafUnder(b, parent) == Leaf(Drop(b.prevKey, parent.depth + 1), b.prevKey)
emitLeaf(b, parent) ==
    LET pos == parent.depth + 1 IN
    [Sink(b, vidUnder(b, parent), LeafRecord(Drop(b.prevKey, pos), b.prevKey)) EXCEPT
        !.minLeafDepth = Min({@, pos})]

(* what parent refers to for branch p, and the record written for it       *)
Finalized(b, p, parent) ==
    LET pfx == SubSeq(b.prevKey, parent.depth + 2, p.depth)
    IN IF pfx = <<>> THEN Branch(p.children) ELSE Ext(pfx, Branch(p.children))
finalizeBranch(b, p, parent) ==
    LET ref == Finalized(b, p, parent)
        key == IF IsReferencedByHash(ref, b.refSize) THEN ref ELSE NoKey
    IN Sink(b, vidUnder(b, parent),
            BranchRecord(key, p.startVid, DOMAIN p.children,
                         SubSeq(b.prevKey, parent.depth + 2, p.depth)))

RECURSIVE foldTo(_, _)
foldTo(b, lcp) ==
    LET p      == Top(b)
        popped == Pop(b)
        open   == IF ParentOf(popped).depth >= lcp THEN popped
                  ELSE newOpenBranch(popped, lcp)
        done   == attach(finalizeBranch(open, p, Top(open)), Finalized(open, p, Top(open)))
    IN IF Top(open).depth = lcp THEN done ELSE foldTo(done, lcp)

insert(b, key) ==
    LET lcp  == commonPrefixLen(b.prevKey, key)
        dTop == ParentOf(b).depth
        open == IF lcp > dTop THEN newOpenBranch(b, lcp) ELSE b
        done == attach(emitLeaf(open, Top(open)), LeafUnder(open, Top(open)))
    IN IF lcp >= dTop THEN done ELSE foldTo(done, lcp)

Accepts(b, key) == b.prevKey = <<>> \/ (Below(b.prevKey, key) /\ Len(key) = Len(b.prevKey))

AddLeaf(b, key) ==
    LET done == IF b.leafCount = 0 THEN b ELSE insert(b, key)
    IN [done EXCEPT !.leafCount = @ + 1, !.prevKey = key]

RECURSIVE FoldAll(_)
FoldAll(b) ==
    LET p == Top(b)
        popped == Pop(b)
        parent == ParentOf(popped)
        written == finalizeBranch(popped, p, parent)
        node == Finalized(popped, p, parent)
    IN IF parent = None THEN [b |-> written, root |-> node]
       ELSE FoldAll(attach(written, node))

Root(b) ==
    IF b.leafCount = 0 THEN [b |-> b, root |-> EmptyTrie]
    ELSE IF b.stack = <<>> THEN [b |-> emitLeaf(b, None), root |-> LeafUnder(b, None)]
    ELSE FoldAll(attach(emitLeaf(b, Top(b)), LeafUnder(b, Top(b))))

StoHint(b) ==
    IF b.leafCount = 0 THEN 0 ELSE Min({b.minLeafDepth, StaticVIDLevels}) + 1

-----------------------------------------------------------------------------
(* VerifyState, what the rows of one trie must satisfy for nimbus to read  *)
(* it.  At(vid) is the record of a vertex; Walk lists the vertices from    *)
(* (root, 0), each with its position, path and the node it stands for.     *)

HasRow(b, vid) == \E r \in b.rows : r.vid = vid
At(b, vid) == (CHOOSE r \in b.rows : r.vid = vid).rec

RECURSIVE hashNode(_, _)
hashNode(b, vid) ==
    LET vx == At(b, vid)
        branch == Branch([n \in vx.used |-> hashNode(b, vx.startVid + n)])
    IN CASE vx.type = "leaf"      -> Leaf(vx.pfx, vx.payload)
         [] vx.type = "branch"    -> branch
         [] vx.type = "extBranch" -> Ext(vx.pfx, branch)

RECURSIVE Walk(_, _, _)
Walk(b, vid, path) ==
    IF ~HasRow(b, vid) THEN {[vid |-> vid, path |-> path, found |-> FALSE]}
    ELSE LET vx == At(b, vid)
         IN {[vid |-> vid, path |-> path, found |-> TRUE]} \cup
            UNION {Walk(b, vx.startVid + n, Append(path \o vx.pfx, n)) : n \in vx.used}

PlacementOK(b, v) ==
    LET pos == Len(v.path) IN
    IF pos = 0 THEN v.vid = b.root
    ELSE IF pos <= StaticVIDLevels THEN v.vid = StaticVid(v.path, pos)
    ELSE v.vid >= FirstDynamicVID

KeyOK(b, v) ==
    LET vx == At(b, v.vid)
        node == hashNode(b, v.vid)
    IN vx.type # "leaf" =>
          /\ Cardinality(vx.used) >= 2
          /\ vx.key = IF IsReferencedByHash(node, b.refSize) THEN node ELSE NoKey

(* probe: from the leaf's level up, a row at the static ID of a level is   *)
(* the vertex the walk passed there, and there is none where it passed none*)
ProbeOK(b, key, walk) ==
    LET onPath == {v \in walk : IsPrefix(v.path, key)}
        leafPos == Max({Len(v.path) : v \in onPath})
    IN \A level \in 0..Min({leafPos, StaticVIDLevels}) :
          LET svid == IF level = 0 THEN b.root ELSE StaticVid(key, level)
              here == {v.vid : v \in {u \in onPath : Len(u.path) = level}}
          IN here = IF HasRow(b, svid) THEN {svid} ELSE {}

VerifyState(b, wantRoot, keys) ==
    LET walk == Walk(b, b.root, <<>>) IN
    /\ \A v \in walk : v.found /\ PlacementOK(b, v)
    /\ Cardinality(walk) = Cardinality(b.rows)              \* no orphan, none shared
    /\ Cardinality({r.vid : r \in b.rows}) = Cardinality(b.rows)
    /\ hashNode(b, b.root) = wantRoot
    /\ \A v \in walk : KeyOK(b, v) /\ (v.vid >= FirstDynamicVID => v.vid <= VTop(b))
    /\ \A key \in keys : ProbeOK(b, key, walk)
=============================================================================
