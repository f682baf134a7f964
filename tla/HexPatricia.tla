---------------------------- MODULE HexPatricia ----------------------------
(***************************************************************************)
(* HexPatriciaHashed (internal/erigon/hph/hex_patricia_hashed.go), the     *)
(* engine that folds accounts and storage into one trie: a grid of rows    *)
(* along the current key, each a would-be branch whose cells stand for     *)
(* subtrees, and a root cell above them.  An account's key has             *)
(* AccountKeyLen nibbles (64); a slot's key continues its account's.       *)
(*                                                                         *)
(* A plain key is named by its hashed key.  The engine is driven from      *)
(* empty: Branch always answers nil, so branchBefore is never set, and     *)
(* Account and Storage fail, which sets err.  The memoised stateHash of a  *)
(* cell is set when its row is hashed, and no cell outlives that.          *)
(***************************************************************************)
EXTENDS StateTrie

CONSTANT Nibbles

NoHash == EmptyTrie
EmptyCell == [hashedExt |-> <<>>, ext |-> <<>>, account |-> <<>>, storage |-> <<>>,
              hash |-> NoHash, loaded |-> {}]

NewHexPatriciaHashed ==
    [root |-> EmptyCell, rows |-> <<>>, currentKey |-> <<>>, rootChecked |-> FALSE,
     rootTouched |-> FALSE, rootPresent |-> FALSE, puts |-> <<>>, err |-> FALSE]

Depth(h) == IF h.rows = <<>> THEN 0 ELSE Last(h.rows).depth
Fail(h) == [h EXCEPT !.err = TRUE]
WithoutLastRow(h) == [h EXCEPT !.rows = Front(@)]

-----------------------------------------------------------------------------
(* Cells.                                                                  *)

setFromUpdate(cell, flag) == [cell EXCEPT !.loaded = @ \cup {flag}]

(* the storage part comes from hashing the whole plain key when depth is 0,*)
(* and is therefore not the slot's path                                    *)
WholeKeyHash(slot) ==
    [i \in 1..(Len(slot) - AccountKeyLen) |-> Max(Nibbles) - slot[AccountKeyLen + i]]
deriveHashedKeys(root) ==
    IF Len(root.hashedExt) = AccountKeyLen /\ root.account # <<>> /\ root.storage # <<>>
    THEN [root EXCEPT !.hashedExt = root.account \o WholeKeyHash(root.storage)]
    ELSE root

fillFromUpperCell(up, depth, row, inc) ==
    LET account == IF depth <= AccountKeyLen /\ row < AccountKeyLen THEN up.account ELSE <<>>
    IN [up EXCEPT !.hashedExt = Drop(@, inc), !.account = account,
                  !.ext = IF account # <<>> THEN @ ELSE Drop(@, inc)]

(* the extension of a branch grows by the nibbles passed; the one below an *)
(* account belongs to its storage and is carried along                     *)
fillFromLowerCell(cell, low, lowDepth, pre, nibble) ==
    LET ofBranch == \/ low.account = <<>> /\ lowDepth < AccountKeyLen
                    \/ low.storage = <<>> /\ lowDepth > AccountKeyLen
    IN [cell EXCEPT
          !.account = IF low.account # <<>> \/ lowDepth < AccountKeyLen THEN low.account ELSE @,
          !.storage = low.storage,
          !.ext = IF low.hash = NoHash THEN @
                  ELSE IF ofBranch THEN pre \o <<nibble>> \o low.ext ELSE low.ext,
          !.hash = low.hash,
          !.loaded = low.loaded]


BranchHash(cell) == IF cell.ext # <<>> THEN Ext(cell.ext, cell.hash) ELSE cell.hash

(* A storage leaf is a node of its row below the account, and the storage  *)
(* root in an account's cell.                                              *)
computeCellHash(cell, depth) ==
    LET leaf == Leaf(Drop(cell.storage, Max({depth, AccountKeyLen})), cell.storage)
        storageRoot == IF cell.storage # <<>> THEN leaf ELSE BranchHash(cell)
    IN IF cell.account # <<>> /\ (cell.storage = <<>> \/ depth <= AccountKeyLen)
       THEN AccountLeaf(Drop(cell.account, depth), cell.account, storageRoot)
       ELSE storageRoot

(* loadStateIfNeeded would ask the context, and computeCellHash would fail *)
NeedsLoad(cell) == \/ cell.account # <<>> /\ "account" \notin cell.loaded
                   \/ cell.storage # <<>> /\ "storage" \notin cell.loaded

-----------------------------------------------------------------------------
(* Folding the last row into the cell above it.                            *)

UpDepth(h) == IF Len(h.rows) = 1 THEN 0 ELSE h.rows[Len(h.rows) - 1].depth
Passed(h) == Drop(h.currentKey, UpDepth(h))

UpCell(h) == IF Len(h.rows) = 1 THEN h.root
             ELSE h.rows[Len(h.rows) - 1].cells[h.currentKey[UpDepth(h)]]

(* the cell above becomes cell, touched if the row was                     *)
SetUp(h, cell, present) ==
    LET touched == Last(h.rows).touch # {}
        r == Len(h.rows) - 1
        nibble == h.currentKey[UpDepth(h)]
    IN IF r = 0 THEN [h EXCEPT !.root = cell,
                               !.rootTouched = @ \/ touched,
                               !.rootPresent = IF touched THEN present ELSE @]
       ELSE [h EXCEPT !.rows[r].cells[nibble] = cell,
                      !.rows[r].touch = IF touched THEN @ \cup {nibble} ELSE @,
                      !.rows[r].after =
                          IF touched /\ ~present /\ UpDepth(h) # AccountKeyLen
                          THEN @ \ {nibble} ELSE @]

foldDelete(h) == SetUp(h, EmptyCell, FALSE)

foldPropagate(h) ==
    LET row == Last(h.rows)
        nibble == CHOOSE n \in row.after : TRUE
        low == row.cells[nibble]
        up == fillFromLowerCell([UpCell(h) EXCEPT !.ext = <<>>], low, row.depth,
                                Passed(h), nibble)
        set == SetUp(h, up, h.rootPresent \/ Len(h.rows) > 1)
    IN IF NeedsLoad(low) THEN Fail(h) ELSE set

(* EncodeBranch: the fields of a cell that are stored                      *)
EncodeCell(cell, depth) ==
    [ext |-> IF cell.storage = <<>> THEN cell.ext ELSE <<>>,
     account |-> cell.account, storage |-> cell.storage, hash |-> cell.hash,
     stateHash |-> IF cell.account # <<>> \/ cell.storage # <<>>
                   THEN computeCellHash(cell, depth) ELSE NoHash]

EncodeBranch(row) ==
    [touch |-> row.touch \cup row.after, after |-> row.after,
     cells |-> [n \in row.after |-> EncodeCell(row.cells[n], row.depth)]]

(* CollectUpdate and CollectDeferredUpdate: prev is nil, so nothing merges *)
CollectUpdate(h) == [h EXCEPT !.puts = Append(@, Row(h.currentKey, EncodeBranch(Last(h.rows))))]

foldBranch(h) ==
    LET row == Last(h.rows)
        up == [UpCell(h) EXCEPT
                 !.ext = Passed(h), !.hashedExt = Passed(h),
                 !.account = IF row.depth < AccountKeyLen THEN <<>> ELSE @,
                 !.storage = <<>>,
                 !.hash = Branch([n \in row.after |-> computeCellHash(row.cells[n], row.depth)])]
    IN IF \E n \in row.after : NeedsLoad(row.cells[n]) THEN Fail(h)
       ELSE SetUp(CollectUpdate(h), up, TRUE)

fold(h) ==
    LET folded == CASE Last(h.rows).after = {}              -> foldDelete(h)
                    [] Cardinality(Last(h.rows).after) = 1  -> foldPropagate(h)
                    [] OTHER                                -> foldBranch(h)
    IN [WithoutLastRow(folded) EXCEPT !.currentKey = Prefix(@, Max({UpDepth(h) - 1, 0}))]

RECURSIVE FoldWhile(_, _)
FoldWhile(h, key) ==
    IF h.err \/ IsPrefix(h.currentKey, key) THEN h ELSE FoldWhile(fold(h), key)

-----------------------------------------------------------------------------
(* Unfolding the cell on the key's path into a row of its own.             *)

CellAt(h, key) == IF h.rows = <<>> THEN h.root ELSE Last(h.rows).cells[key[Depth(h)]]

(* unfolding breaks where the storage subtrees start                       *)
BreakAtStorage(depth, unfolding) ==
    IF depth < AccountKeyLen /\ depth + unfolding > AccountKeyLen
    THEN AccountKeyLen - depth ELSE unfolding

needUnfolding(h, key) ==
    LET cell == CellAt(h, key)
        depth == Depth(h)
        bare == cell.hashedExt = <<>>
    IN IF h.rows = <<>> /\ bare /\ cell.hash = NoHash
       THEN IF h.rootChecked THEN 0 ELSE 1
       ELSE IF Len(key) <= depth \/ (bare /\ cell.hash = NoHash) THEN 0
       ELSE IF bare THEN 1
       ELSE BreakAtStorage(depth, 1 + commonPrefixLen(Drop(key, depth), Front(cell.hashedExt)))

(* there is no branch to read: an empty root is noted, anything else fails *)
unfoldBranchNode(h) ==
    IF ~h.rootChecked /\ h.currentKey = <<>> THEN [h EXCEPT !.rootChecked = TRUE] ELSE Fail(h)

unfold(h, key, unfolding) ==
    LET up       == CellAt(h, key)
        upNibble == key[Depth(h)]
        atRoot   == h.rows = <<>>
        touched  == IF atRoot THEN h.rootTouched ELSE upNibble \in Last(h.rows).touch
        present  == IF atRoot THEN h.rootPresent ELSE upNibble \in Last(h.rows).after
        down     == IF atRoot THEN h ELSE [h EXCEPT !.currentKey = Append(@, upNibble)]
        lowest   == Min({unfolding, Len(up.hashedExt)})
        depth    == Depth(h) + lowest
        nibble   == up.hashedExt[lowest]
        cell     == fillFromUpperCell(up, depth, Len(h.rows), lowest)
        row      == [depth |-> depth,
                     cells |-> [n \in Nibbles |-> IF n = nibble THEN cell ELSE EmptyCell],
                     touch |-> IF touched THEN {nibble} ELSE {},
                     after |-> IF present THEN {nibble} ELSE {}]
    IN IF up.hashedExt = <<>> THEN unfoldBranchNode(down)
       ELSE [down EXCEPT !.rows = Append(@, row),
                         !.currentKey = @ \o Prefix(up.hashedExt, lowest - 1)]

RECURSIVE UnfoldWhile(_, _)
UnfoldWhile(h, key) ==
    LET ready == IF h.rows = <<>> THEN [h EXCEPT !.root = deriveHashedKeys(@)] ELSE h
        unfolding == needUnfolding(ready, key)
    IN IF h.err \/ unfolding = 0 THEN ready ELSE UnfoldWhile(unfold(ready, key, unfolding), key)

-----------------------------------------------------------------------------

UpdatedCell(cell, key, depth) ==
    LET placed == [cell EXCEPT !.hashedExt = IF @ = <<>> THEN Drop(key, depth) ELSE @]
    IN IF IsAccountKey(key)
       THEN setFromUpdate([placed EXCEPT !.account = key], "account")
       ELSE setFromUpdate([placed EXCEPT !.storage = key], "storage")

(* deletions are not fed                                                   *)
updateCell(h, key) ==
    LET r == Len(h.rows)
        nibble == key[Len(h.currentKey) + 1]
    IN IF r = 0 THEN [h EXCEPT !.root = UpdatedCell(@, key, 0),
                               !.rootTouched = TRUE, !.rootPresent = TRUE]
       ELSE [h EXCEPT !.rows[r].cells[nibble] = UpdatedCell(@, key, h.rows[r].depth),
                      !.rows[r].touch = @ \cup {nibble},
                      !.rows[r].after = @ \cup {nibble}]

followAndUpdate(h, key) ==
    LET ready == UnfoldWhile(FoldWhile(h, key), key)
    IN IF ready.err THEN ready ELSE updateCell(ready, key)

RootHash(h) == computeCellHash(h.root, 0)
=============================================================================
