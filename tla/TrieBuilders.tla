---------------------------- MODULE TrieBuilders ----------------------------
(***************************************************************************)
(* The clients' one-pass trie builders, each fed a set of keys in          *)
(* ascending order and then asked for the root, as Phase 2 (accounts) and  *)
(* IterateRoot (storage) do.  client says which builder runs.  besu's      *)
(* in-memory builder takes the keys in any order; erigon's engine gets     *)
(* accounts and their slots in one stream per first nibble, nethermind's   *)
(* writer gets them account by account.  "binary" is geth's binary trie    *)
(* over stems, whose ungrouped rows may then be regrouped.                 *)
(***************************************************************************)
EXTENDS MerkleTrie

CONSTANTS KeySpaces,        \* sets of keys, each of one length
          RefSizes,         \* node sizes from which a hash is used (32)
          Radix, StaticVIDLevels,
          AccountKeyLen, Nibbles,   \* of erigon's keys (64, 0..15)
          StateKeys,        \* accounts and slots for erigon
          FewStateKeys,     \* and for nethermind
          Stems, MaxDepth, GroupDepths,
          StateTopLen, ShortenedLen, FlushRows, FailedFlushes,
          Clients           \* the builders to run

AllClients == {"besu", "besuMemory", "reth", "ethrex",
               "nimbus", "nimbusStorage", "erigon", "nethermind", "binary"}

Besu == INSTANCE BesuTrieBuilder
BesuMemory == INSTANCE BesuMemoryBuilder
Reth == INSTANCE RethHashBuilder
Ethrex == INSTANCE EthrexTrieBuilder
Nimbus == INSTANCE NimbusTrieBuilder
Erigon == INSTANCE ErigonFold
Nethermind == INSTANCE NethermindWriter
Binary == INSTANCE StreamingBuilder

VARIABLES client, refSize, keys,    \* the builder; its threshold; the keys it may get
          b,                        \* the builder's fields
          added,                    \* the keys added
          result                    \* what its last call returned, or "building"

vars == <<client, refSize, keys, b, added, result>>

Building == [root |-> EmptyTrie, rootRLP |-> EmptyTrie, done |-> FALSE]

Fresh(c, r) ==
    CASE c = "besu"          -> {Besu!NewBuilder(r)}
      [] c = "besuMemory"    -> {BesuMemory!New(r)}
      [] c = "reth"          -> {Reth!NewHashBuilder}
      [] c = "ethrex"        -> {Ethrex!NewBuilder}
      [] c = "nimbus"        -> {Nimbus!NewBuilder(1, r)}
      [] c = "nimbusStorage" ->      \* its root ID is the first one allocated
            {Nimbus!Alloc(Nimbus!NewBuilder(Nimbus!FirstDynamicVID, r), 1)}
      [] c = "erigon"        -> {Erigon!NewFold}
      [] c = "nethermind"    -> Nethermind!NewWriters
      [] c = "binary"        -> Binary!NewBuilders

KeySetsFor(c) ==
    CASE c = "erigon"     -> {StateKeys}
      [] c = "nethermind" -> {FewStateKeys}
      [] c = "binary"     -> {Stems}
      [] OTHER            -> KeySpaces

(* only besu, nimbus and nethermind's storage look at the size of a node   *)
Init ==
    /\ client \in Clients
    /\ refSize \in IF client \in {"reth", "ethrex", "erigon", "binary"} THEN {Min(RefSizes)} ELSE RefSizes
    /\ keys \in KeySetsFor(client)
    /\ b \in Fresh(client, refSize)
    /\ added = {}
    /\ result = Building

-----------------------------------------------------------------------------
Continues(key) == ~result.done /\ UNCHANGED <<client, refSize, keys, result>>
                  /\ added' = added \cup {key}
Finishes(res, rlp) ==
    /\ ~result.done
    /\ b' = res.b
    /\ result' = [root |-> res.root, rootRLP |-> rlp, done |-> TRUE]
    /\ UNCHANGED <<client, refSize, keys, added>>

BesuAdd(key) ==
    client = "besu" /\ Continues(key) /\ Besu!Accepts(b, key) /\ b' = Besu!addLeaf(b, key)
BesuFinalize ==
    client = "besu" /\ LET res == Besu!finalize(b) IN Finishes(res, res.rootRLP)

(* in any order                                                            *)
BesuMemoryAdd(key) ==
    client = "besuMemory" /\ Continues(key) /\ b' = BesuMemory!AddAccount(b, key)
BesuMemoryCommit ==
    client = "besuMemory" /\ LET res == BesuMemory!Commit(b) IN Finishes(res, res.root)

RethAdd(key) ==
    client = "reth" /\ Continues(key) /\ Reth!Accepts(b, key) /\ b' = Reth!AddLeaf(b, key)
RethRoot == client = "reth" /\ LET res == Reth!Root(b) IN Finishes(res, res.root)

EthrexAdd(key) ==
    client = "ethrex" /\ Continues(key) /\ Ethrex!Accepts(b, key) /\ b' = Ethrex!AddLeaf(b, key)
EthrexRoot == client = "ethrex" /\ LET res == Ethrex!Root(b) IN Finishes(res, res.root)

NimbusClients == {"nimbus", "nimbusStorage"}
NimbusAdd(key) ==
    client \in NimbusClients /\ Continues(key) /\ Nimbus!Accepts(b, key)
    /\ b' = Nimbus!AddLeaf(b, key)
NimbusRoot ==
    client \in NimbusClients /\ LET res == Nimbus!Root(b) IN Finishes(res, res.root)

(* a worker takes its next key; its stream ends; all have ended            *)
ErigonAdd(key) ==
    client = "erigon" /\ Continues(key) /\ Erigon!Accepts(b, key, added)
    /\ b' = Erigon!AddKey(b, key)
ErigonFoldNibble(nib) ==
    /\ client = "erigon" /\ nib \notin b.folded
    /\ b' = Erigon!foldNibble(b, nib)
    /\ UNCHANGED <<client, refSize, keys, added, result>>
ErigonRoot ==
    /\ client = "erigon" /\ b.folded = Nibbles
    /\ LET res == Erigon!DirectFold(b) IN Finishes(res, res.root)

(* Phase 1; Phase 2; an error ends the run                                 *)
NethermindQueue(key) ==
    client = "nethermind" /\ Continues(key) /\ Nethermind!Accepts(b, key, added)
    /\ b' = Nethermind!Feed(b, key, refSize)
NethermindPhase2 ==
    /\ client = "nethermind" /\ b.phase = 1 /\ ~b.err /\ Nethermind!InProgress(added) = {}
    /\ b' = Nethermind!StartPhase2(b)
    /\ UNCHANGED <<client, refSize, keys, added, result>>
NethermindAddAccount(key) ==
    /\ client = "nethermind" /\ Nethermind!NextQueued(b, key)
    /\ b' = Nethermind!AddAccount(b, key)
    /\ UNCHANGED <<client, refSize, keys, added, result>>
NethermindRoot ==
    /\ client = "nethermind" /\ b.phase = 2 /\ ~b.err /\ b.fed = DOMAIN b.stash
    /\ LET res == Nethermind!closeState(Nethermind!FinalizeStateRoot(b))
       IN  Finishes(res, res.root)
NethermindFails == client = "nethermind" /\ b.err /\ Finishes([b |-> b, root |-> EmptyTrie], EmptyTrie)

BinaryFeedStem(stem) ==
    client = "binary" /\ Continues(stem) /\ Binary!Accepts(b, stem) /\ b' = Binary!feedStem(b, stem)
BinaryFinish == client = "binary" /\ LET res == Binary!finish(b) IN Finishes(res, res.root)
BinaryRegroup(gd) ==
    /\ client = "binary" /\ result.done /\ b.persist /\ b.gd = 0 /\ gd > 0
    /\ b' = Binary!regroupTrieNodes(b, gd)
    /\ UNCHANGED <<client, refSize, keys, added, result>>

Next ==
    \/ \E key \in keys : \/ BesuAdd(key) \/ BesuMemoryAdd(key) \/ RethAdd(key) \/ EthrexAdd(key)
                         \/ NimbusAdd(key) \/ ErigonAdd(key)
                         \/ NethermindQueue(key) \/ NethermindAddAccount(key)
                         \/ BinaryFeedStem(key)
    \/ NethermindPhase2 \/ NethermindRoot \/ NethermindFails
    \/ BinaryFinish \/ \E gd \in GroupDepths : BinaryRegroup(gd)
    \/ \E nib \in Nibbles : ErigonFoldNibble(nib)
    \/ BesuFinalize \/ BesuMemoryCommit \/ RethRoot \/ EthrexRoot \/ NimbusRoot \/ ErigonRoot

Spec == Init /\ [][Next]_vars

-----------------------------------------------------------------------------
(* nethermind's only error is that of a failed flush                       *)
WriteFailed == b.err /\ b.failAt > 0

(* All clients agree on the root: whatever keys were added, every builder  *)
(* returns the root of the recursive trie, and besu also its encoding (for *)
(* SaveWorldState).  erigon's does so, and never asks its context for an   *)
(* account or a slot, unless an account alone in its shard has storage     *)
(* below an extension, whatever the order in which the shards fold.        *)
(* nethermind's writer does so unless a write failed, which its caller     *)
(* learns.  The binary trie's root is that of its group depth.             *)
RootsAreReference ==
    result.done =>
        CASE client = "erigon" ->
                \/ Erigon!LoneStorageExtension(added)
                \/ ~b.err /\ result.root = Erigon!ReferenceRoot(added)
          [] client = "nethermind" -> WriteFailed \/ result.root = Nethermind!ReferenceRoot(added)
          [] client = "binary" -> result.root = Binary!ReferenceRoot(b, added)
          [] OTHER -> result.root = TrieOf(added) /\ result.rootRLP = TrieOf(added)

(* Erigon's engine gives the root of the standard trie for every set of    *)
(* accounts and slots.  It does not: foldNibble trims the first nibble of  *)
(* the extension of the cell a shard folds to, and for an account alone in *)
(* its shard that extension is the one below its storage root.             *)
ErigonRootIsReference ==
    client = "erigon" /\ result.done => result.root = Erigon!ReferenceRoot(added)

(* The rows besu, ethrex and erigon wrote are exactly the nodes of that    *)
(* trie their readers look up, at their paths: none missing, none left     *)
(* over from a subtree that was later split; erigon's BranchCount counts   *)
(* each once.  When nethermind's writer returns a root, every node and flat*)
(* row is in the database, under a key of its own.  geth's binary builder  *)
(* writes each path once, also with groups, and regrouping an ungrouped    *)
(* database gives the rows of the grouped one with the ungrouped hashes.   *)
RowsAreReference ==
    result.done =>
        CASE client \in {"besu", "besuMemory"} -> b.rows = Besu!ReferenceRows(added, refSize)
          [] client = "ethrex" -> b.rows = Ethrex!ReferenceRows(added)
          [] client = "erigon" /\ ~Erigon!LoneStorageExtension(added) ->
                /\ b.rows = Erigon!ReferenceRows(added)
                /\ b.rowCount = Cardinality(b.rows)
          [] client = "nethermind" ->
                WriteFailed \/ b.disk = Nethermind!ReferenceRows(added, refSize)
          [] client = "binary" -> b.rows = Binary!ReferenceRows(b, added) /\ b.rewritten = {}
          [] OTHER             -> TRUE

(* Neither log.Fatalf of geth's binary builder is reachable: a non-empty   *)
(* group buffer has a stem, and after finish no child is left behind in a  *)
(* buffer and no hash is pending.                                          *)
FatalsUnreachable == client = "binary" => Binary!NoFatal(b, result.done)

(* The rows reth's builder emitted are exactly the stored branches, with   *)
(* the masks and hashes the comment on HashBuilder defines; the masks as   *)
(* emitted, after pushBranchNode has cut them to stateMask.                *)
RethMasksAreReference ==
    client = "reth" /\ result.done => b.rows = Reth!ReferenceRows(added)

(* The vertex rows nimbus's builder wrote pass VerifyState: they form the  *)
(* trie under the root's ID, with static IDs where a reader probes for     *)
(* them, no ID used twice, no orphan, and vTop above every dynamic ID.  The*)
(* storage hint is the level of the shallowest leaf.                       *)
NimbusRowsVerify ==
    client \in NimbusClients /\ result.done =>
        IF added = {} THEN b.rows = {} /\ Nimbus!StoHint(b) = 0
        ELSE /\ Nimbus!VerifyState(b, result.root, added)
             /\ Nimbus!StoHint(b) =
                    1 + Min({StaticVIDLevels} \cup
                            {Len(r.path) : r \in {n \in NodesOf(added) : n.node.type = "leaf"}})
=============================================================================
