-------------------------- MODULE NethermindWriter --------------------------
(***************************************************************************)
(* writeSyntheticAccounts (client/nethermind/entitygen_cgo.go) over the    *)
(* trie builder of internal/neth/trie and the flat sink of flat_cgo.go.    *)
(* Phase 1 takes the accounts in any order: an account's slots go through  *)
(* its storage trie, then its encoding, storage root included, is stashed  *)
(* in the sorter.  Phase 2 feeds the stash in order to the account trie.   *)
(* Nodes and leaf rows share one write batch, flushed when it is full; any *)
(* flush may fail, and the builder keeps a failure that happens inside a   *)
(* callback for its caller.                                                *)
(*                                                                         *)
(* go-ethereum's StackTrie is external: it hands over a node as soon as a  *)
(* larger key has been seen, and the rest when it is hashed.               *)
(***************************************************************************)
EXTENDS StateTrie

CONSTANTS StateTopLen, ShortenedLen,   \* stateTopThreshold, shortenedThreshold (5, 15)
          FlushRows,                   \* rows that fill a batch (stateBatchFlushBytes)
          FailedFlushes                \* which flush fails; 0: none

NoTrie == <<>>
NewWriters ==
    {[storageAddr |-> NoTrie, slots |-> {}, stash |-> <<>>, fed |-> {}, phase |-> 1,
      pending |-> <<>>, disk |-> {}, failAt |-> n, err |-> FALSE] : n \in FailedFlushes}

-----------------------------------------------------------------------------
(* Row keys: the path padded to the length of its column's keys, and its   *)
(* nibble count.                                                           *)
packNibbles(path, n) == [i \in 1..n |-> IF i <= Len(path) THEN path[i] ELSE 0]
encodeWith8Byte(path) == <<packNibbles(path, ShortenedLen), Len(path)>>

StateTopKey(path) == <<"StateTopNodes", packNibbles(path, StateTopLen), Len(path)>>
StateNodeKey(path) ==
    CASE Len(path) <= StateTopLen  -> StateTopKey(path)
      [] Len(path) <= ShortenedLen -> <<"StateNodes", encodeWith8Byte(path)>>
      [] OTHER                     -> <<"FallbackNodes", 0, packNibbles(path, AccountKeyLen), Len(path)>>
StorageNodeKey(addr, path) ==
    IF Len(path) <= ShortenedLen
    THEN <<"StorageNodes", addr, encodeWith8Byte(path)>>
    ELSE <<"FallbackNodes", 1, addr, packNibbles(path, AccountKeyLen), Len(path)>>
AccountKey(addr) == <<"Account", addr>>
StorageKey(slot) == <<"Storage", slot>>

-----------------------------------------------------------------------------
(* flatSink: a later row with the same key replaces an earlier one.        *)
KV(key, value) == [key |-> key, value |-> value]
Store(disk, rows) ==
    {r \in disk : \A i \in DOMAIN rows : rows[i].key # r.key} \cup
    {rows[i] : i \in {j \in DOMAIN rows : \A k \in DOMAIN rows : rows[k].key = rows[j].key => k <= j}}

flush(w) ==
    IF w.pending = <<>> THEN w
    ELSE IF w.failAt = 1 THEN [w EXCEPT !.err = TRUE]
    ELSE [w EXCEPT !.disk = Store(@, w.pending), !.pending = <<>>,
                   !.failAt = IF @ > 0 THEN @ - 1 ELSE 0]

putCF(w, row) ==
    LET next == [w EXCEPT !.pending = Append(@, row)]
    IN  IF w.err THEN w ELSE IF Len(next.pending) >= FlushRows THEN flush(next) ELSE next

(* the callbacks, once per emitted node, none after the first failure      *)
RECURSIVE SetNodes(_, _)
SetNodes(w, rows) ==
    IF rows = {} THEN w
    ELSE LET r == CHOOSE x \in rows : TRUE IN SetNodes(putCF(w, r), rows \ {r})

-----------------------------------------------------------------------------
(* StackTrie: complete nodes are those no larger key can change.           *)
Greatest(keys) == CHOOSE k \in keys : \A o \in keys \ {k} : Below(o, k)
Complete(nodes, keys, base) ==
    IF keys = {} THEN {}
    ELSE {r \in nodes : ~IsPrefix(base \o r.path, Greatest(keys))}

SlotNodes(addr, slots, refSize) ==
    IF slots = {} THEN {}
    ELSE {r \in NodesBelow(Trie(slots, AccountKeyLen), <<>>) :
             r.path = <<>> \/ IsReferencedByHash(r.node, refSize)}
StorageRows(addr, nodes) == {KV(StorageNodeKey(addr, r.path), r.node) : r \in nodes}

(* an account's encoding is never shorter than a hash                      *)
RECURSIVE WithStashed(_, _)
WithStashed(node, stash) ==
    IF node.type = "leaf" THEN AccountLeaf(node.path, node.val, stash[node.val])
    ELSE [node EXCEPT !.kids = [i \in DOMAIN @ |-> WithStashed(@[i], stash)]]
AccountTrie(w, fed) == WithStashed(TrieOf(fed), w.stash)
AccountNodes(w, fed) == IF fed = {} THEN {} ELSE NodesBelow(AccountTrie(w, fed), <<>>)
StateRows(nodes) == {KV(StateNodeKey(r.path), r.node) : r \in nodes}

-----------------------------------------------------------------------------
(* An error is returned to writeSyntheticAccounts, which stops.            *)

AddStorageSlot(w, slot, refSize) ==
    LET addr == Prefix(slot, AccountKeyLen)
        flat == putCF(w, KV(StorageKey(slot), slot))
        old == IF w.storageAddr = NoTrie THEN {} ELSE w.slots
        new == old \cup {slot}
        done(s) == Complete(SlotNodes(addr, s, refSize), s, addr)
    IN  IF flat.err THEN flat
        ELSE IF w.storageAddr # NoTrie /\ w.storageAddr # addr THEN [flat EXCEPT !.err = TRUE]
        ELSE SetNodes([flat EXCEPT !.storageAddr = addr, !.slots = new],
                      StorageRows(addr, done(new)) \ StorageRows(addr, done(old)))

(* no open trie for addr: the empty root, and nothing is written           *)
KeepsTrieOpen(w, addr, refSize) ==
    [w |-> SetNodes(w, IF w.storageAddr = addr
                       THEN StorageRows(addr, SlotNodes(addr, w.slots, refSize)) ELSE {}),
     root |-> IF w.storageAddr = addr THEN Trie(w.slots, AccountKeyLen) ELSE EmptyTrie]
FinalizeStorageRoot(w, addr, refSize) ==
    LET nodes == SlotNodes(addr, w.slots, refSize)
        rest == nodes \ Complete(nodes, w.slots, addr)
    IN  IF w.storageAddr # addr THEN [w |-> w, root |-> EmptyTrie]
        ELSE [w |-> SetNodes([w EXCEPT !.storageAddr = NoTrie, !.slots = {}],
                             StorageRows(addr, rest)),
              root |-> Trie(w.slots, AccountKeyLen)]

(* the account at the end of its slots: storage root, stash, flat row      *)
QueueAccount(w, addr, refSize) ==
    LET f == FinalizeStorageRoot(w, addr, refSize)
        queued == [f.w EXCEPT !.stash = (addr :> f.root) @@ @]
    IN  IF f.w.err THEN f.w ELSE putCF(queued, KV(AccountKey(addr), f.root))

StartPhase2(w) == [w EXCEPT !.phase = 2]
AddAccount(w, addr) ==
    LET new == w.fed \cup {addr}
        done(s) == StateRows(Complete(AccountNodes(w, s), s, <<>>))
    IN  IF w.storageAddr # NoTrie THEN [w EXCEPT !.err = TRUE]
        ELSE SetNodes([w EXCEPT !.fed = new], done(new) \ done(w.fed))

(* then closeState; a failure leaves only the deferred close, whose error  *)
(* is dropped                                                              *)
FinalizeStateRoot(w) ==
    LET nodes == AccountNodes(w, w.fed)
        rest == StateRows(nodes \ Complete(nodes, w.fed, <<>>))
    IN  [b |-> SetNodes(w, rest), root |-> AccountTrie(w, w.fed)]
closeState(res) == IF res.b.err THEN res ELSE [res EXCEPT !.b = flush(@)]

-----------------------------------------------------------------------------
(* slots in order and before their account; accounts in any order          *)
InProgress(keys) ==
    {Prefix(k, AccountKeyLen) : k \in {s \in keys \ AccountsOf(keys) : Prefix(s, AccountKeyLen) \notin keys}}
Accepts(w, key, keys) ==
    LET addr == Prefix(key, AccountKeyLen)
    IN  /\ w.phase = 1 /\ ~w.err /\ key \notin keys /\ addr \notin keys
        /\ InProgress(keys) \subseteq {addr}
        /\ ~IsAccountKey(key) => \A s \in SlotsOf(addr, keys) : Below(s, key)
Feed(w, key, refSize) ==
    IF IsAccountKey(key) THEN QueueAccount(w, key, refSize) ELSE AddStorageSlot(w, key, refSize)
NextQueued(w, addr) ==
    /\ w.phase = 2 /\ ~w.err /\ addr \in DOMAIN w.stash \ w.fed
    /\ \A o \in DOMAIN w.stash \ (w.fed \cup {addr}) : Below(addr, o)

(* Every node a reader looks up and every flat row, each under its own key.*)
ReferenceRows(keys, refSize) ==
    LET stateNodes == NodesBelow(ReferenceRoot(keys), <<>>)
        slotNodes(a) == SlotNodes(a, SlotsOf(a, keys), refSize)
    IN  IF keys = {} THEN {}
        ELSE StateRows(stateNodes) \cup
             UNION {StorageRows(a, slotNodes(a)) : a \in AccountsOf(keys)} \cup
             {KV(StorageKey(k), k) : k \in keys \ AccountsOf(keys)} \cup
             {KV(AccountKey(a), StorageTrie(a, keys)) : a \in AccountsOf(keys)}
=============================================================================
