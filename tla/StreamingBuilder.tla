-------------------------- MODULE StreamingBuilder --------------------------
(***************************************************************************)
(* streamingBuilder (generator/binary_stack_trie.go): the binary trie over *)
(* stems that arrive in sorted order, built in one pass with a stack of    *)
(* pending left children.  A stem is deferred until its right neighbour is *)
(* known.  With a group depth, gd levels are stored as one grouped node,   *)
(* written once its subtree is complete, whose hash is cascaded into the   *)
(* parent's slot.  regroupTrieNodes (generator/regroup.go) rewrites an     *)
(* ungrouped database into the grouped form.                               *)
(*                                                                         *)
(* A stem is a sequence of MaxDepth bits.  A hash is the term it commits   *)
(* to, so equal hashes are equal subtrees.  The stack's isRight flag is    *)
(* only ever assigned false and is left out.                               *)
(***************************************************************************)
EXTENDS Integers, Sequences, SequencesExt, FiniteSets

CONSTANTS MaxDepth,         \* bits of a stem (248)
          GroupDepths       \* group depths checked; 0: ungrouped

Depths == 0..(MaxDepth - 1)
Zero == <<>>
StemHash(stem) == <<"leaf", stem>>
H(l, r) == <<"node", l, r>>
EmptyMap == <<>>
NoStem == <<>>

-----------------------------------------------------------------------------
(* Bits and paths.                                                         *)

stemBitAt(stem, d) == stem[d + 1]
makePath(stem, d) == SubSeq(stem, 1, d)
commonPrefixLenBits(x, y) ==
    CHOOSE n \in 0..MaxDepth :
        /\ makePath(x, n) = makePath(y, n)
        /\ n < MaxDepth => stemBitAt(x, n) # stemBitAt(y, n)
slotOf(gd, stem, boundary) == SubSeq(stem, boundary + 1, boundary + gd)
Slots(gd) == [1..gd -> {0, 1}]

-----------------------------------------------------------------------------
(* The builder's methods.  st holds its fields, its node writer's rows     *)
(* (persist: sb.w # nil) and the paths written more than once.             *)

writeNode(st, path, blob) ==
    IF ~st.persist THEN st
    ELSE [st EXCEPT
            !.rows = {n \in @ : n.path # path} \cup {[path |-> path, blob |-> blob]},
            !.rewritten = IF \E n \in st.rows : n.path = path
                          THEN @ \cup {path} ELSE @]
Ungrouped(st, path, l, r) ==
    IF st.gd = 0 THEN writeNode(st, path, <<"internal", l, r>>) ELSE st

(* The hash of gd levels over the children of a group: a pair of empty     *)
(* children is empty.                                                      *)
RECURSIVE groupedRecursiveHash(_, _, _)
groupedRecursiveHash(gd, children, prefix) ==
    IF Len(prefix) = gd
    THEN IF prefix \in DOMAIN children THEN children[prefix] ELSE Zero
    ELSE LET l == groupedRecursiveHash(gd, children, Append(prefix, 0))
             r == groupedRecursiveHash(gd, children, Append(prefix, 1))
         IN  IF l = Zero /\ r = Zero THEN Zero ELSE H(l, r)

Put(map, k, v) == [x \in DOMAIN map \cup {k} |-> IF x = k THEN v ELSE map[x]]

(* A late record, from a stale stack entry, is dropped when its group has  *)
(* been flushed or its slot holds the hash of a flushed child.             *)
RecordSkipped(st, boundary, stem) ==
    \/ makePath(stem, boundary) \in st.flushedPaths
    \/ slotOf(st.gd, stem, boundary) \in st.sealed[boundary]

recordGroupChild(st, childDepth, hash, stem) ==
    LET boundary == childDepth - st.gd IN
    IF ~st.persist \/ boundary < 0 \/ RecordSkipped(st, boundary, stem) THEN st
    ELSE [st EXCEPT
            !.groupBuf[boundary] = Put(@, slotOf(st.gd, stem, boundary), hash),
            !.groupStem[boundary] = stem]

(* Push a hash from depth d toward the root; a left child waits for its    *)
(* sibling, a right child without a waiting sibling has an empty one.      *)
RECURSIVE propagateUp(_, _, _, _)
propagateUp(st, hash, d, stem) ==
    IF d = 0 THEN [st EXCEPT !.stack[0] = hash]
    ELSE
      LET pd == d - 1
          rec == IF st.gd > 0 /\ d % st.gd = 0 /\ d >= st.gd
                 THEN recordGroupChild(st, d, hash, stem) ELSE st
          left == st.stack[pd]
      IN  IF pd \in st.occupied
          THEN propagateUp(
                 [Ungrouped(rec, makePath(stem, pd), left, hash)
                    EXCEPT !.occupied = @ \ {pd}],
                 H(left, hash), pd, stem)
          ELSE IF stemBitAt(stem, pd) = 1
          THEN propagateUp(Ungrouped(rec, makePath(stem, pd), Zero, hash),
                           H(Zero, hash), pd, stem)
          ELSE [rec EXCEPT !.stack[pd] = hash,
                           !.occupied = @ \cup {pd},
                           !.stemBits[pd] = stem]

(* Resolve the pending hashes at depths >= minDepth, deepest first, with   *)
(* an empty right sibling.                                                 *)
RECURSIVE unwindFrom(_, _, _)
unwindFrom(st, d, minDepth) ==
    IF d < minDepth THEN st
    ELSE IF d \notin st.occupied THEN unwindFrom(st, d - 1, minDepth)
    ELSE LET stem == st.stemBits[d]
             left == st.stack[d]
             free == [Ungrouped(st, makePath(stem, d), left, Zero)
                        EXCEPT !.occupied = @ \ {d}]
         IN  unwindFrom(propagateUp(free, H(left, Zero), d, stem), d - 1, minDepth)
unwindTo(st, minDepth) == unwindFrom(st, MaxDepth - 1, minDepth)

(* Max(leftCPL, rightCPL) + 1, extended to the bottom layer of its group.  *)
TargetUnextended(gd, leftCPL, rightCPL) ==
    (IF rightCPL > leftCPL THEN rightCPL ELSE leftCPL) + 1
TargetDepth(gd, leftCPL, rightCPL) ==
    LET t == TargetUnextended(gd, leftCPL, rightCPL)
    IN  IF gd > 0 /\ t % gd # 0 THEN (t \div gd) * gd + gd ELSE t

flushDeferred(st, rightCPL) ==
    LET stem == st.prevStem
        target == TargetDepth(st.gd, st.prevLeftCPL, rightCPL)
        unwound == unwindTo(st, st.prevLeftCPL + 1)
    IN  propagateUp(writeNode(unwound, makePath(stem, target), <<"stem", stem>>),
                    StemHash(stem), target, stem)

(* The flushed group's hash replaces whatever propagateUp left in the      *)
(* parent's slot, and seals it.                                            *)
NoCascade(st, boundary, stem, hash) == st
Cascade(st, boundary, stem, hash) ==
    LET parent == boundary - st.gd
        slot == slotOf(st.gd, stem, parent)
    IN  [st EXCEPT !.groupBuf[parent] = Put(@, slot, hash),
                   !.sealed[parent] = @ \cup {slot},
                   !.groupStem[parent] = stem]

writeGroupedNode(st, b) ==
    LET stem == st.groupStem[b]
        children == st.groupBuf[b]
        written == writeNode(st, makePath(stem, b), <<"group", children>>)
        hash == groupedRecursiveHash(st.gd, children, <<>>)
        closed == [written EXCEPT
                     !.flushedPaths = @ \cup {makePath(stem, b)},
                     !.groupBuf[b] = EmptyMap,
                     !.sealed[b] = {},
                     !.groupStem[b] = NoStem]
    IN  IF b = 0 THEN [closed EXCEPT !.rootGroupHash = hash]
        ELSE Cascade(closed, b, stem, hash)

(* Write every group below completionDepth, deepest first.                 *)
RECURSIVE flushGroups(_, _, _)
flushGroups(st, b, completionDepth) ==
    IF b < 0 \/ b <= completionDepth THEN st
    ELSE IF st.groupBuf[b] = EmptyMap
         THEN flushGroups(st, b - st.gd, completionDepth)
         ELSE flushGroups(writeGroupedNode(st, b), b - st.gd, completionDepth)
flushCompletedGroupsAbove(st, completionDepth) ==
    IF ~st.persist \/ st.gd = 0 THEN st
    ELSE flushGroups(st, ((MaxDepth - 1) \div st.gd) * st.gd, completionDepth)

-----------------------------------------------------------------------------
newStreamingBuilder(gd, persist) ==
    [gd |-> gd, persist |-> persist,
     stack |-> [d \in Depths |-> Zero],
     occupied |-> {},
     stemBits |-> [d \in Depths |-> NoStem],
     groupBuf |-> [d \in Depths |-> EmptyMap],
     sealed |-> [d \in Depths |-> {}],
     groupStem |-> [d \in Depths |-> NoStem],
     flushedPaths |-> {},
     rootGroupHash |-> Zero,
     prevStem |-> NoStem,
     prevLeftCPL |-> -1,
     rows |-> {}, rewritten |-> {}, regrouped |-> FALSE]

NewBuilders == {newStreamingBuilder(gd, persist) : gd \in GroupDepths, persist \in BOOLEAN}

Accepts(st, stem) ==
    st.prevStem # NoStem =>
        \E d \in Depths : /\ makePath(st.prevStem, d) = makePath(stem, d)
                          /\ stemBitAt(st.prevStem, d) < stemBitAt(stem, d)

feedStem(st, stem) ==
    IF st.prevStem = NoStem THEN [st EXCEPT !.prevStem = stem]
    ELSE LET rightCPL == commonPrefixLenBits(st.prevStem, stem)
         IN  [flushCompletedGroupsAbove(flushDeferred(st, rightCPL), rightCPL)
                EXCEPT !.prevStem = stem, !.prevLeftCPL = rightCPL]

(* finish completes every boundary, the root's included.                   *)
BelowRoot == 0
Everything == -1

finish(st) ==
    IF st.prevStem = NoStem THEN [b |-> st, root |-> Zero]
    ELSE LET f == flushCompletedGroupsAbove(unwindTo(flushDeferred(st, -1), 0), Everything)
         IN  [b |-> f,
              root |-> IF f.persist /\ f.gd > 0 /\ f.rootGroupHash # Zero
                       THEN f.rootGroupHash ELSE f.stack[0]]

-----------------------------------------------------------------------------
(* regroupTrieNodes: the group at an ungrouped boundary node collects what *)
(* a walk down the existing nodes finds gd levels below, or at the bits of *)
(* a stem that ends the walk earlier.  Hashes are those of the old blobs.  *)

computeNodeHashFromBlob(blob) ==
    IF blob[1] = "stem" THEN StemHash(blob[2]) ELSE H(blob[2], blob[3])

Bottom(rows, gd, boundary) ==
    {n \in rows : /\ IsStrictPrefix(boundary, n.path)
                  /\ \/ Len(n.path) = Len(boundary) + gd
                     \/ n.blob[1] = "stem" /\ Len(n.path) < Len(boundary) + gd}
SlotIn(gd, boundary, n) ==
    slotOf(gd, IF n.blob[1] = "stem" THEN n.blob[2] ELSE n.path, Len(boundary))

CollectGroup(rows, gd, boundary) ==
    LET found == Bottom(rows, gd, boundary)
    IN  [x \in {SlotIn(gd, boundary, n) : n \in found} |->
            computeNodeHashFromBlob((CHOOSE n \in found : SlotIn(gd, boundary, n) = x).blob)]

(* step 4b                                                                 *)
ExtendedPath(gd, n) ==
    IF Len(n.path) % gd = 0 THEN n.path
    ELSE makePath(n.blob[2], (Len(n.path) \div gd) * gd + gd)

regroupTrieNodes(st, gd) ==
    LET stems == {n \in st.rows : n.blob[1] = "stem"}
        boundaries == {n \in st.rows \ stems : Len(n.path) % gd = 0}
    IN  [st EXCEPT
           !.gd = gd, !.regrouped = TRUE,
           !.rows = {[n EXCEPT !.blob = <<"group", CollectGroup(st.rows, gd, n.path)>>] :
                        n \in boundaries} \cup
                    {[n EXCEPT !.path = ExtendedPath(gd, n)] : n \in stems}]

-----------------------------------------------------------------------------
(* The reference: the trie of a set of stems, one level (or one group) at a*)
(* time.  A stem sits where it is alone.                                   *)

Levels(gd) == IF gd = 0 THEN 1 ELSE gd
Under(S, path) == {s \in S : makePath(s, Len(path)) = path}
NonEmptySlots(gd, S, path) == {x \in Slots(Levels(gd)) : Under(S, path \o x) # {}}

RECURSIVE RefHash(_, _, _)
RefHash(gd, S, path) ==
    LET T == Under(S, path) IN
    IF T = {} THEN Zero
    ELSE IF Cardinality(T) = 1 THEN StemHash(CHOOSE s \in T : TRUE)
    ELSE groupedRecursiveHash(Levels(gd),
             [x \in NonEmptySlots(gd, T, path) |-> RefHash(gd, T, path \o x)], <<>>)

(* One row per node; a parent stores the hashes of its children in the trie*)
(* of group depth hgd, which is gd itself unless the rows were regrouped.  *)
RefBlob(gd, hgd, T, path) ==
    IF Cardinality(T) = 1 THEN <<"stem", CHOOSE s \in T : TRUE>>
    ELSE IF gd = 0
    THEN <<"internal", RefHash(hgd, T, Append(path, 0)), RefHash(hgd, T, Append(path, 1))>>
    ELSE <<"group", [x \in NonEmptySlots(gd, T, path) |-> RefHash(hgd, T, path \o x)]>>

RECURSIVE RefRows(_, _, _, _)
RefRows(gd, hgd, S, path) ==
    LET T == Under(S, path) IN
    IF T = {} THEN {}
    ELSE {[path |-> path, blob |-> RefBlob(gd, hgd, T, path)]} \cup
         IF Cardinality(T) = 1 THEN {}
         ELSE UNION {RefRows(gd, hgd, T, path \o x) : x \in NonEmptySlots(gd, T, path)}

ReferenceRoot(st, S) == RefHash(IF st.regrouped THEN 0 ELSE st.gd, S, <<>>)
ReferenceRows(st, S) ==
    IF st.persist THEN RefRows(st.gd, IF st.regrouped THEN 0 ELSE st.gd, S, <<>>) ELSE {}

(* Neither log.Fatalf of the builder is reached.                           *)
NoFatal(st, done) ==
    /\ \A b \in Depths : st.groupBuf[b] # EmptyMap => st.groupStem[b] # NoStem
    /\ done => st.occupied = {} /\ \A b \in Depths : st.groupBuf[b] = EmptyMap
=============================================================================
