----------------------------- MODULE ErigonFold -----------------------------
(***************************************************************************)
(* DirectFold (internal/erigon/hph/directdrive.go) and its driver          *)
(* ComputeGenesisRootDirect (internal/erigon/commitment/directdrive.go):   *)
(* one engine per first nibble is fed its shard's keys in ascending order, *)
(* folds, and leaves a cell in the top row of the root engine, which folds *)
(* last.  Workers share nothing but that row, under rootMu.                *)
(***************************************************************************)
EXTENDS HexPatricia

mountTo == [NewHexPatriciaHashed EXCEPT !.rootPresent = TRUE]

(* an engine that has been told that its root is empty: unfoldRoot         *)
unfoldRoot(h) == UnfoldWhile(h, <<Min(Nibbles)>>)

TopRow == [depth |-> 0, cells |-> [n \in Nibbles |-> EmptyCell], touch |-> {}, after |-> {}]

NewFold == [mounts |-> [n \in Nibbles |-> mountTo], folded |-> {}, last |-> [n \in Nibbles |-> <<>>],
            root |-> unfoldRoot(NewHexPatriciaHashed), top |-> TopRow,
            rows |-> {}, rowCount |-> 0, err |-> FALSE]

(* cursor order: a slot's key follows its account's                        *)
Above(a, key) ==
    LET n == 1 + commonPrefixLen(a, key)
    IN IF n > Len(a) THEN Len(key) > Len(a) ELSE n <= Len(key) /\ a[n] < key[n]

Accepts(f, key, keys) ==
    /\ key[1] \notin f.folded
    /\ f.last[key[1]] = <<>> \/ Above(f.last[key[1]], key)
    /\ IsAccountKey(key) \/ Prefix(key, AccountKeyLen) \in keys

(* PutBranch into the worker's sink                                        *)
Put(f, h) == [f EXCEPT !.rows = @ \cup ToSet(h.puts), !.rowCount = @ + Len(h.puts),
                       !.err = @ \/ h.err]

AddKey(f, key) ==
    [f EXCEPT !.mounts[key[1]] = followAndUpdate(@, key), !.last[key[1]] = key]

(* trim first byte from extension, if any                                  *)
Trim(cell) == IF cell.ext = <<>> THEN cell
              ELSE [cell EXCEPT !.ext = Tail(@), !.hashedExt = Drop(@, 2)]

IsEmpty(cell) == [cell EXCEPT !.loaded = {}] = EmptyCell

(* to the root of the mount, or to the row that is the root engine's own   *)
RECURSIVE foldMounted(_, _)
foldMounted(h, nib) ==
    IF h.err \/ (h.rows = <<>> /\ ~(h.rootPresent /\ h.rootTouched))
    THEN [h |-> Fail(h), cell |-> EmptyCell]
    ELSE IF h.rows = <<>> THEN [h |-> h, cell |-> h.root]
    ELSE IF Len(h.rows) = 1 /\ Depth(h) = 1 THEN [h |-> h, cell |-> h.rows[1].cells[nib]]
    ELSE foldMounted(fold(h), nib)

(* nothing was fed: the worker returns before it folds                     *)
foldNibble(f, nib) ==
    LET m == foldMounted(f.mounts[nib], nib)
        cell == Trim(m.cell)
    IN IF f.last[nib] = <<>> THEN [f EXCEPT !.folded = @ \cup {nib}]
       ELSE [Put(f, m.h) EXCEPT
               !.folded = @ \cup {nib}, !.mounts[nib] = NewHexPatriciaHashed,
               !.top.touch = @ \cup {nib},
               !.top.after = IF IsEmpty(cell) THEN @ \ {nib} ELSE @ \cup {nib},
               !.top.depth = 1,
               !.top.cells[nib] = cell]

(* the serial root fold, and the flush of its deferred branch              *)
DirectFold(f) ==
    LET h == fold([f.root EXCEPT !.rows = <<f.top>>])
    IN [b |-> Put([f EXCEPT !.root = h], h), root |-> RootHash(h)]

-----------------------------------------------------------------------------
(* Erigon stores one row per branch, at its path; a child is a leaf named  *)
(* by its plain key, with its storage root (a lone slot by its key), or a  *)
(* branch with the extension above it.                                     *)
BelowNode(node) ==
    CASE node.type = "ext"    -> [ext |-> node.path, hash |-> node.kids[1]]
      [] node.type = "branch" -> [ext |-> <<>>, hash |-> node]
      [] OTHER                -> [ext |-> <<>>, hash |-> NoHash]

ReferenceCell(child) ==
    IF child.type # "leaf"
    THEN BelowNode(child) @@ [account |-> <<>>, storage |-> <<>>, stateHash |-> NoHash]
    ELSE IF ~IsAccountKey(child.val)
    THEN BelowNode(EmptyTrie) @@ [account |-> <<>>, storage |-> child.val, stateHash |-> child]
    ELSE BelowNode(child.kids[1]) @@
         [account |-> child.val, storage |-> child.kids[1].val, stateHash |-> child]

BranchRows(node, path) ==
    {Row(r.path, [touch |-> DOMAIN r.node.kids, after |-> DOMAIN r.node.kids,
                  cells |-> [i \in DOMAIN r.node.kids |-> ReferenceCell(r.node.kids[i])]]) :
        r \in {n \in NodesBelow(node, path) : n.node.type = "branch"}}

ReferenceRows(keys) ==
    BranchRows(ReferenceRoot(keys), <<>>) \cup
    UNION {BranchRows(StorageTrie(a, keys), a) : a \in AccountsOf(keys)}

(* An account that is alone in its shard, with storage below an extension. *)
LoneStorageExtension(keys) ==
    \E a \in AccountsOf(keys) : /\ \A c \in AccountsOf(keys) : c[1] = a[1] => c = a
                                /\ StorageTrie(a, keys).type = "ext"
=============================================================================
