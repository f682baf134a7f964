# state-actor: a TLA+ verification project

state-actor writes the database of an Ethereum execution client directly: it
generates accounts, contracts and storage from a seed and a spec, computes the
state root, and leaves a directory that the client boots from. There is no
client to compare with while it runs, so a lost row, a wrong order or a root
that does not match the nodes beside it is found, if at all, when the client
refuses the database hours later. This project models the parts of the
generator where that can go wrong, checks them with TLC on small instances,
and proves the central facts with TLAPS for every instance.

## 1. The system

| part | source | state | operations | what is hard about it |
|---|---|---|---|---|
| spill store | `internal/streamsort` | shared Pebble batch, `finalized`, `closed`, reader count | Put, FinalizeForRead, Get, Iterate, NewCursor, NewGetter, Close | one writer, readers that finalize, Close against readers |
| storage roots | `internal/streamingtrie` | a spill store per account | addLeaf, SortedRoot, Close | built on the spill store |
| Phase 0 pool (geth, copies in besu, nethermind, nimbus, ethrex) | `client/geth/state_writer.go`, `client/*/phase0_cgo.go` | work channel, result channel, per-worker batch, `roots` | feed, receive, compute, write rows, report, splice | errgroup cancellation; a nil error with partial roots |
| Phases 1 and 2 (ethrex, nimbus) | `client/{ethrex,nimbus}/state_writer_cgo.go` | three channels in Phase 1, two in Phase 2, reorder heap, vertex-ID allocator | draw, encode, Put; read, build storage, apply | order restored after a pool; shared IDs; drops after an error |
| streamed storage (reth) | `client/reth/spec_storage_streaming_cgo.go` | entity channel, a chunk channel per entity, one transaction per entity, roots | feed, drain, encode, put, commit, await the root | one database writer behind many encoders; an early return that joins nobody |
| snapshot writer (erigon) | `client/erigon/snapshot_cgo.go` | entity channel, a channel and a store per domain, files | send, encode, write, emit, fold | channels closed by one goroutine and used by others; errors of five kinds of goroutine |
| binary trie pipeline | `generator/binary_stack_trie.go` | reader, 64-slot semaphore, worker channels, `pending` map, builder | read, hash, resequence, feed | order, early stop, panics while others block |
| binary trie builder | same file | stack of pending hashes, group buffers, sealed slots, flushed paths | feedStem, finish | grouped nodes are written once and must agree with their parents |
| size tracker | `generator/size_tracker.go` | counters, ratio, last report | Add, calibrate, ShouldStop, milestones | the reader asks while the builder reports |
| binary generator | `generator/generator.go` | contract and code channels, temp batch, code batch | Phase 1 (genesis, EOAs, contracts), Phase 2, state root | a code writer that runs across both phases; early stop; error paths |
| durable writes | `client/{geth,reth,besu,nethermind,ethrex,erigon,nimbus}` | memtables, logs, files | state, genesis, metadata, Close | which rows survive a failure, a kill, a power loss |
| trie builders | `internal/{besu,neth,ethrex,nimbus,reth,erigon}` | stacks or rows of pending nodes | add leaf, commit | one pass over sorted keys |
| spec, templates, autofill | `internal/{spec,specbuild,templates,autofill,sizecal}` | none: pure expansion | validate, truncate, expand, plan | arithmetic at boundaries, entities that depend on each other, duplicates |
| command line, manifest, genesis | `main.go`, `internal/{manifest,clientpolicy,syscontracts}`, `genesis` | spec file, database directories, manifests, spec sidecars | generate, reproduce | files shared by runs and read twice; a run that stops half-way |
| engine API driver | `internal/engineapi` | head, timestamp, polls, consecutive errors | forkchoiceUpdated, getPayload, newPayload, retry | calls that are lost, late, or carried out though they failed |

The parts meet in one shape. A client writer starts Phase 0, which computes
storage roots through spill stores in a pool of goroutines. Phase 1 streams
accounts into another spill store. Phase 2 iterates it in key order into a trie
builder whose nodes go to the client's database. The rows that make the
database bootable are written last. The binary generator has its own Phase 2,
whose builder reports its size to the size tracker and may be stopped by it.
The engine API driver is used once a client has booted from the result, to make
it produce blocks.

`PROJECT.json` lists every part with its status, every hazard at its line, and
for every definition the lines it models.

## 2. Modules

### StreamSort, SpillStore (internal/streamsort)
One action per step a goroutine can be interrupted at: the test of `closed` and
`finalized`, the lock, the write into the batch, the commit, the `sync.Once`,
`readers.Add`, the read, `readers.Done`, and the steps of Close. `pc[g]` is
where goroutine g is; `mem` is the batch, `db` what Pebble holds, `put` what was
Put. `SpillStore` is what the store promises: a map that accepts Puts until it
is finalized and then answers from exactly what was put. `StreamSort` implements
it (`ImplementsSpillStore`).

`CloseAnyTime` selects who may call Close. The code's owners call it after their
calls have returned (`FALSE`); the package comment allows it at any time
(`TRUE`), and run `streamsort_close_race` shows what happens then.

### Phase0Pool (client/geth/state_writer.go)
`runPhase0`: the feeder, workers with their own batch, the caller that splices
roots, errgroup cancellation, the caller's cancellation, and the later phase
that tests the context before it uses the roots. Channels are sets, since
results carry their index. A storage root is abstracted to "computed"; its rows
are tracked from the batch to the database.

### SpillPipeline, AccountPipeline, StateWriter (ethrex, nimbus)
`StateWriter` is `writeState`: Phase 0 (an instance of `Phase0Pool`), Phase 1
(an instance of `SpillPipeline`) and Phase 2 (`AccountPipeline`), each started
when the one before returned nil, under one context. Phase 0 returns nil when it
is cancelled, so an account may reach Phase 2 without the storage root that was
to be streamed for it. The vertex-ID allocator of nimbus is shared by Phase 0
(one ID per trie up front, blocks while workers build) and Phase 2.

`SpillPipeline` is `runPhase1Pipeline`: the draw loop, encode workers, the Put
goroutine. `AccountPipeline` is Phase 2: stage A numbers accounts, stage B
builds storage tries, stage C reorders and feeds the account trie; the vertex-ID
allocator is shared by all three. The code runs the Phase 1 pipeline twice
(EOAs, contracts) with Puts by the caller between and after; the model runs it
once.

### RethStorage (client/reth/spec_storage_streaming_cgo.go)
`streamSpecStorage`. A worker takes an entity, drains its slots into a store of
its own (giants come sorted), hands the entity to the consumer and only then
fills the entity's channel with chunks of encoded slots; at the end it closes
the channel and sends the root, or an error first. The consumer puts the chunks
into one transaction per entity, commits, and waits for root, error or the
caller's context, where it returns at once. `encoded`, `sent` and `taken` count
an entity's chunks, which travel in order; `trieRows` are the rows the hash
builder emitted.

### ErigonPipeline (client/erigon/snapshot_cgo.go)
`writeSnapshots`: encode workers with a batch per channel, one writer per domain,
the spec's slots drained by senders in main, the joins, the emitters
(`WriteDomain`: compress, compare counts, build accessors, remove on failure)
running beside the fold, and every way an error travels. The sixteen
commit-input stores are one, and their fold is one step here; the fold itself is
`ErigonFold`. `itemCh` is the code's `entityCh` and `domainErr` its `writerErrCh`.

### ClientWriters
The concurrent writers as one specification: the run picks the client, and only
that client's writer moves: geth's is `Phase0Pool`, nimbus's and ethrex's
`StateWriter`, reth's `RethStorage`, erigon's `ErigonPipeline`. `Pool` declares
the constants they share.

### EngineDriver (internal/engineapi)
`fetchLatestBlock`, `DriveLoop` and `Step`. One action per call of the engine
API, since a call is where a request may be lost; a request the driver gave up
on may be carried out at any later moment (`late`). The execution client is
external: it validates blocks, builds payloads, answers SYNCING while it is not
`ready`, may pause and forget its payloads, and may ignore an update to an
ancestor of its head (`skips`), which the engine API allows. A block is the
sequence of timestamps of its chain. `faults`, `recent` and `strayed` are
history variables for the properties.

### BinaryPipeline, BinaryGenerator (generator)
`BinaryPipeline` is `computeBinaryRootStreamingParallel`. The reader groups
entries into stems, takes a slot of the semaphore and hands the stem to a
worker; the resequencer holds results in `pending` until their number is next
and the builder takes them. With a target the reader's stop depends on the
counters, and the size tracker's estimate, calibration and milestones are part of
the reader's and the builder's steps. A read of the temp DB may fail: the loop
then ends as it does at the last entry, and `iterErr` records what
`iter.Error()` would have said had the code asked.

`BinaryGenerator` is `generateStreamingBinary` around it: the preamble (genesis
accounts and EOAs), the producer that draws contracts, the loop that turns them
into entries and hands their code to the code writer, the last temp batch, Phase
2, and the join of the code writer before the state root is set. Phase 2 reads
the entries Phase 1 committed, whatever path Phase 1 left by.

### MerkleTrie and the clients' builders
`MerkleTrie` is the Merkle-Patricia trie as a recursive function of the key set,
with the node terms the builders share. `BesuTrieBuilder`, `BesuMemoryBuilder`,
`RethHashBuilder`, `EthrexTrieBuilder` and `NimbusTrieBuilder` are the builders
of `internal/`, operation by operation, as functions from the builder's fields
to its fields after the call. `StateTrie` is the two-level reference, accounts
over storage tries. `NethermindWriter` is nethermind's `writeSyntheticAccounts`:
its storage and state builders over go-ethereum's StackTrie (external), the flat
sink whose batch may fail to flush at any row, and the sorter between its two
phases. `StreamingBuilder` is the generator's binary builder and its regrouping
of nodes (`regroupTrieNodes`, which only tests call; regrouped rows keep the
hashes of the ungrouped trie). A hash is the term it commits to, so that two
hashes are equal exactly when the subtrees are. `HexPatricia` is erigon's engine (`fold`,
`unfold`, `updateCell`, the hash of a cell) and `ErigonFold` the concurrent fold
of sixteen mounted engines into one root. `TrieBuilders` makes each of them a
state machine: keys arrive in the order the caller guarantees, then the root is
asked for. The size of an encoding is kept as a number, because a parent embeds
a node shorter than 32 bytes; the bytes are not.

### Durability, ClientScripts (client/*)
`Durability` runs a program of durable steps against stores with a memtable, a
log, a synced prefix of the log and tables, and stops it by an error, a kill or
a power loss. `ClientScripts` holds the program of each client, one definition
per function of the code. Each program names its *gate*, the row without which
the client does not boot the directory, and the rows the gate needs.

### Command and the modules below it (main.go)
`Command` is the default command and `reproduce`, one action per step of
`generate()` between which the files it shares can change: the flag checks, the
spec (read, validated, built), the autofill plan, the client, the sidecar, the
manifest. A client is one step that leaves a complete database or part of one;
its inside is the other modules' business. `file` is the user's spec file,
`db[d]` what was written below each `--db`, `man` and `side` the manifests and
sidecars by directory (geth's are two levels up). The environment edits the spec
file, damages a sidecar, and kills the process at any step. A text is its own
hash.

`SpecBuild` is the schema and `specbuild.Build`: address resolution, the
truncation to the target and the second walk that costs it, the CREATE2 factory
rule, duplicates. `Templates` is what every template accepts and the accounts it
expands to; hashed addresses are terms of what is hashed, so that two are equal
exactly when their preimages are. `AutofillPlan` and `Sizecal` are the budget
arithmetic. `CodePattern` builds the initcode and the runtime of the code
patterns byte by byte, since the property is about bytes, and runs the initcode
on the few EVM instructions it uses (external).

## 3. Runs

| run | what it shows | instance |
|---|---|---|
| `streamsort` | reads see every Put; no Pebble call after Close; refinement of SpillStore; every call returns | 1 writer, 2 readers, 2 closers, 2 keys, 2 values, a commit every second Put, at most 3 Puts, commits may fail: a commit in Put and one in Finalize both happen, and a key is overwritten across them |
| `streamsort_close_race` | **violation**: a reader past the test of `closed` is not drained | 2 readers, 1 closer at any time |
| `writers` | geth: a successful run has every root and row, nil means complete or cancelled, a spliced root has its rows; nimbus and ethrex: streamed accounts keep their storage, Phase 1 nil means all spilled, Phase 2 nil means all applied with their rows, in order, IDs disjoint and covered by the admin record; reth: nil means all slots committed and all roots known, a spliced root has its slots; erigon: nil means every row is in finished files and in the fold, a file with accessors is whole, no send on a closed channel; all: they return | 2 workers, channels of 1, failures and a cancellation anywhere. geth: 3 accounts of 2 rows, a batch of 3 that rotates inside an account. nimbus: 3 accounts, streamed and built storage, batches of 2. reth: a giant and a spec entity, one with more chunks than its channel holds. erigon: 2 entities, 2 spec slots, batches of 2. 763,657 states |
| `reth_emit` | **violation**: see finding 5 below | the same, not cancelled |
| `engine_driver` | the execution client's head is the driver's, its child or its parent; blocks beside the chain are paid for by faults; fewer faults in a row than the limit do not end the loop; the loop produces blocks or returns | 2 blocks, 3 faults (lost or late calls, pauses, timeouts), 1 poll per Step, 3 tolerated errors, cancellation anywhere: 271,000 states |
| `binary_generator` | stems are fed in order; nil means all was fed, up to the stop or a lost read; the root covers exactly what Phase 1 kept, unless a read was lost; every code is on disk before the state root is set; it returns | 1 genesis account, 1 EOA, 2 of 4 contract draws (one collides with an earlier address), 4 stems, 2 workers, channels of 1, target 0 or 4, failing writes, failing reads and panics: 431,590 states |
| `trie_builders` | every builder returns the root of the recursive trie and leaves exactly the rows its client looks up; reth's masks and nimbus's vertices are right | every subset of 11 four-nibble keys over three nibbles and of 10 six-nibble keys, two sizes at which hashes begin; nethermind over accounts with slots, in any account order, with a failing flush anywhere; the binary builder over every set of 13 of the 16 four-bit stems, group depths 0, 1, 2, 4, with and without writing; for erigon every state of 5 accounts and 10 slots, shards folding in any order |
| `erigon_root` | **violation**: see finding 3 below | the same accounts and slots |
| `durability` | the gate is never on disk without the state; a reported success left both | all eight programs; nimbus, geth and nethermind's flat database with kills and power loss, the others with failing steps |
| `durability_besu` | **violation**: see finding 2 below | besu's program with kills |
| `command` | a reproduction agrees with its original, but for the five reasons named in `Excused`, and changes no existing database, no manifest or sidecar of another datadir and no whole sidecar of its own; what a client is handed is exactly the prefix of the spec that fits, with the factory its deployments need, and above the target only by what parameters add to the projected cost; planted code is what its initcode deploys | 2 commands, 19 command lines, 9 spec texts with every template, 3 directories (two below one geth datadir, one in use before), 1 edit or damage, kills at any step: 1,375,846 states |
| `command_binary` | **violation**: see finding 4 below | the same texts, `--binary-trie --spec` |

Why small instances are enough. The pools are symmetric in their workers, and
every hazard listed needs at most two of them and one item more than the
channels hold. The driver needs one fault less than the limit, a success, and
one fault more, so that a count that is not reset shows; two blocks make a
parent, a head and a child. The trie builders look at two neighbouring keys and the open
branches above them; the wide key set leaves a slot empty before, between and
after children, the deep one puts extensions at the root, below a branch and
above branches, and lets a later key split each.

For the command two runs are enough to make an original and its reproduction,
or a run over the remains of another, and one edit falls into every window
between two reads. The targets put an entity exactly at, and one account below,
what the spec costs. Counts that are huge in the code (fan-out, curve order,
address space, uint64, the giants' slots) are small, and each spec text sits at
one of their ends. Code sizes 32, 33, 97 and 300 need no, one, two and
four doublings and pushes of one and two bytes. The texts plant max_same at 33,
max_diff at 32 and 300, and unique_jumpdest at 97 and 300 (300 stands for the
pre-Amsterdam limit); each is compared with the execution of its initcode.

Fairness. Every goroutine is weakly fair in the steps it can take: the Go
scheduler runs each runnable goroutine. Nothing is assumed of the environment:
errors, panics, cancellation and stops may or may not happen. Systems whose
function returns run with deadlock checking off; that they do return is a
liveness property (`CallsReturn`, `GeneratorTerminates`, `WritersReturn`). For
the writers, fairness is that of the process: while some goroutine can run, one
does, which is weaker. Of the execution client nothing is assumed, not even that
it ever becomes ready: `Drives` holds because the 60 s of a Step end and the
fifth error ends the loop.

### Findings

1. **Close does not drain every reader** (`streamsort_close_race`). A reader
   tests `closed`, then runs `readers.Add(1)`; a Close between the two finds no
   reader and closes Pebble under it. The package comment promises a drain. The
   owners join their calls first, except on an error path of erigon's
   `writeSnapshots`.
2. **besu's gate may outlive its state** (`durability_besu`). Full batches skip
   the log, only the last one is synced; a kill after the head is written and
   before Close leaves a database that boots without most of its trie. ethrex
   and nethermind's code database have the same order. nimbus flushes first.
3. **erigon's root is wrong for a lone contract** (`erigon_root`).
   `foldNibble` trims a nibble from the extension of the cell a shard folded
   to. If the shard holds one account, that extension belongs to its storage
   trie, and both roots change. It needs a contract alone under its first nibble
   whose hashed slots share theirs, so large states do not meet it. In
   `trie_builders` erigon is checked for all other states.
4. **A spec is dropped with `--binary-trie`** (`command_binary`). The binary path
   never calls `Config.Validate`, which is what folds a spec into the genesis
   maps. The spec is checked, built, charged against the target and recorded in
   the manifest, and no account of it is written.
5. **reth's hash builder drops the emitter's error** (`reth_emit`). The comment on
   `HashBuilder` says the error must be fatal and that the writer halts on it;
   the code assigns it to `_`. A storage trie row that cannot be spilled is
   missing from the database under a root that commits to it, and the run
   reports success.

Other behaviour met while modelling, and not a run of its own:
- where a target-size run stops depends on the schedule, since the reader's stop
  reads counters the builder advances, and the estimate may reach the target
  before the database does;
- results waiting in the resequencer's `pending` map are not bounded by the
  64 slots, which a worker frees when it is done;
- `flushedPaths` of the grouped builder grows with the trie, and sealed slots
  are redundant with it on the instances checked;
- a caller's cancellation can end Phase 2 of ethrex and nimbus with a nil error
  and accounts missing. `OkIsComplete` is stated for a live context. Their
  callers (`client/ethrex/run_cgo.go:113`, `client/nimbus/run_cgo.go:76`) do not
  test the context either and go on to write the genesis block; no run meets
  this only because `main` passes `context.Background()`;
- Phase 2 of the binary generator never calls `iter.Error()`
  (`binary_stack_trie.go:1337-1375`): a failed read of the temp DB ends the loop
  like its last entry, and the root of the entries read so far is returned and
  set with a nil error. `OkFedEverything` and `RootCoversState` name this case
  (`iterErr`); everything else they say holds with it;
- reth's `HashBuilder` cuts the masks of a row to its children before it emits
  it, and the comment there (`hash_builder.go:362-371`) reports stray bits from
  extension nodes in deep tries. `RethMasksAreReference` is about the masks as
  emitted, after the cut. Whether a bit was there to cut is not checked: the keys
  of the run are short, and would not settle it;
- a template's parameters may write more than the spec's `approximate_size_bytes`
  projects: `specbuild/build.go:158-173` says that the truncation "fails open"
  for fan-out templates. `SpecInState` bounds the excess by what the entities
  expand to above their projection (`Overrun`), and the run meets it;
- `writeSnapshots` may surface the `context canceled` of a worker instead of the
  failure that cancelled it;
- reth drops the error of its deferred Close, so `SuccessIsLeft` is checked for
  it with a Close that succeeds;
- in reth's consumer, the comment that one of `rootCh` and `errCh` has a value
  when `chunkCh` is closed is not exact: the root is sent after the close. The
  select waits for it, so nothing depends on this;
- an execution client that ignores updates to an ancestor of its head starts no
  payload for them: after one advance whose reply was lost, every Step of the
  driver fails and the fifth ends `DriveLoop`, which never fetches the head
  again. `SurvivesTransientFaults` is stated for the other clients;
- `Step` does not look at the status of the advancing forkchoiceUpdated, so the
  client may be one block behind until the next Step; Step errors are not
  logged, and the sleep between Steps is half of what the comment on `DriveLoop`
  says;
- `--autofill-profile` is neither recorded in the manifest nor restored, so a run
  with another profile than the default ends in MISMATCH when reproduced, while
  `docs/SKILL.md:140` says the manifest has everything needed;
- the sidecar is read from the spec file after the client has written, so a spec
  edited meanwhile is recorded as the one used;
- "Never clobber the original datadir" (`main.go:617`) is a comparison of the two
  `--db` paths. Two of them below one geth datadir share a manifest, and a
  reproduction from one into the other replaces the original's. `OriginalIntact`
  says that this is the only way to it;
- a manifest is not removed when its directory is written again, so a run killed
  before its own manifest leaves the earlier one beside a newer database;
- a spec that leaves less of the target than one account costs makes the run
  stop with an error, where `docs/SPEC.md:329-332` says a truncated spec turns
  autofill off;
- erc20's fallback sizing counts explicit owners but not explicit allowances, so
  storage may exceed `approximate_size_bytes` by their number;
- `sequential_pkey_delegations` through the canonical factory are not subject to
  the factory rule that holds for `create2_deploys`;
- `--fork latest` is accepted by `BuildChainConfigForFork` and rejected before it
  by `ValidateForClient`;
- `templates.Concat` goes on after its consumer has stopped.

## 4. Proofs

All theorems are for every value of the constants, under the named assumptions
in the modules (non-empty worker sets, positive capacities, a marker value
outside the data).

**StreamSortProofs.** `TypeCorrect`, `CommitExclusive` (two goroutines never
commit the shared batch at once, Close at any time included), and, when Close is
called after the calls returned, `CloseSafe` (`NoUseAfterClose`),
`ReadsComplete` (`ReadsSeeEveryPut`), `Frozen` and `Refinement`
(`ImplementsSpillStore`). The properties are not inductive alone: a read is
complete because the batch was empty when `finalized` was set, which needs that
only the holder of `putMu` commits. `Safe` adds that (`LockInv`), that what was
Put is what batch and database hold together (`DataInv`), and that Close's gate
and drain leave no call in flight (`CloseInv`).

**PhaseProofs.** Phase 0: `PoolTypes`, `PoolComplete` (`SuccessIsComplete`), `PoolOk`
(`OkIsCompleteOrCancelled`), `PoolRows` (`RootHasRows`), `PoolStops` (no worker
starts an account once the context is done). The inductive invariant says that,
while there is no cause to stop, every account is unfed, queued, in a worker,
reported or spliced (`Accounted`), that rows of a finished account are in its
worker's batch or committed (`RowsKept`), and that a worker which left did so
with an empty batch or a cause (`CleanExit`).

Phase 1: `SpillComplete`, it returns nil only when every entity is in the spill
store. While the context is live every entity drawn is in a batch, a channel, a
hand or the store (`NoneLost`), and the goroutines end one behind the other, each
with empty hands or a context that is done (`Ended`); the return value tests that
context last.

**StateWriterProofs.** First Phase 2 alone: `TypeCorrect`, `SuccessIsComplete`
(`OkIsComplete`), `FeedsInOrder` (`FedInOrder`), `IdsNeverOverlap`
(`IdsDisjoint`), `AdminRecordCovers` (`VTopCoversIds`), `ReturnsJoined`. The
argument: an account is in one place at a time (`OnePlace`); while the pipeline
is live none is lost; the rows of a built account are in its worker's sink until
the sink is closed; blocks of IDs end at or below `top` and a new one starts
above it.

Then the three phases of `writeState` as one specification: `WriterSpills`
(`NilMeansAllSpilled`), `WriterKeepsStreamed` (`StreamedKeepStorage`),
`WriterComplete` (`OkIsComplete`), `WriterIdsNeverOverlap` (`IdsDisjoint`),
`WriterAdminRecord` (`VTopCoversIds`) and `WriterFeedsInOrder` (`FedInOrder`).
`WriterInv` is the conjunction of the phases' invariants and `Chain`. A step of
the writer is a step of one phase; it leaves the others alone but for two things
they share. The context may end, which only weakens what the others promise; and
Phase 0 takes vertex IDs, which moves `top` up as a block of Phase 2 does.
`Chain` is what the order of the phases gives: Phase 0 returns nil when it is
complete *or* cancelled, and Phase 1, which tests the same context last, turns
the second case into an error. So a nil from Phase 1 means that every streamed
account has its root, and Phase 2 starts from there.

**DurabilityProofs.** `TypeCorrect`; `GateProtectsState` (`GateImpliesState`) and
`SuccessLeavesState` (`SuccessIsLeft`), for every set of programs that satisfy a
static criterion. A program either meets the criterion for every end of the
process and the machine, or is only asked about its own exit after a Close that
does not fail (`ExitsOnly`) and meets the weaker one.

- The gate: `WellOrdered` asks for a gate row that is only written where every
  needed row is already durable or ahead of it in the same log. The invariant
  `GateInv` carries this from the script to the disk: rows the criterion calls
  durable are durable, and wherever the gate row is in a log, each needed row is
  durable or earlier in that log; since a log survives as a prefix, recovery
  cannot find the gate alone. `WellClosed` lets needed rows stay in a memtable
  that the script or a deferred Close flushes. Then the gate can be on disk
  before the state, and the invariant `ExitInv` looks back: a gate row that was
  reached was written by a step that has begun, so the rows held from that step
  on are there when the deferred steps are through.
- Success: `Lasting` asks that the script makes gate and state durable,
  `LeavesAll` that the script logs or flushes them or an always-run deferred
  step does. `RunInv` gives what the proof needs: a result "ok" is the end of the
  script, and what was written and then flushed, by script or Close, is in a
  table (`Control`, `Closing`).

TLC evaluates which of the clients' programs meet which criterion: nimbus, geth
and nethermind flat are `WellOrdered` and `Lasting`, the others are neither, and
all of those are `WellClosed` and `LeavesAll` (`MCDurability`, evaluated in
`durability_besu`). So the theorems cover every program of the `durability` run.

**RethStorageProofs.** `StreamTypes`, `StreamRoots` (`RootHasSlots`) and
`StreamComplete` (`NilMeansAllStored`), for any entities, chunks, workers and
capacities. A root proves nothing about slots by itself: the worker sends it
after closing the channel, and the consumer commits before it looks. The
invariant follows an entity: it is in one place (`OnePlace`), untouched until it
is offered (`Fresh`); its channel is closed behind its last chunk or behind an
error, and a root is only sent in the first case (`Coding`); the transaction
holds what was taken and the commit what was sent (`Consuming`); and while
`drainCtx` is live no entity leaves the path to its root (`Accounted`).

**EngineDriverProofs.** `EngineFollows` (`ELFollowsDriver`), `EngineSurvives`
(`SurvivesTransientFaults`) and `EngineOrphans` (`OrphansAreFaults`), for any
number of blocks, faults and tolerated errors. `Known` keeps every block within
one of the driver's head; `Stamps` says that no two attempts share a timestamp,
so a late request cannot supply the payload of a later Step; `Follows` that a
Step in progress builds on the client's head. `Counted` pairs each error in a
row with a fault, and `Paid` each block beside the chain, counting those that
late requests may still add.

**ErigonPipelineProofs.** `ErigonNoSendAfterClose` (`NoSendAfterClose`),
`ErigonIndexed` (`IndexedIsWhole`) and `ErigonComplete` (`NilMeansAllWritten`),
for any items, rows, workers and capacities. `DataInv` says that each item is
with one producer (`Once`) and each row is pending, in flight or stored
(`NoneLost`); `Ended` that a goroutine leaves with empty hands or an error;
`Emitting` that emitters start only when the stores are final. `Counting`, rows
counted plus rows pending is all rows, then makes the emitter's comparison of
two counts a test for a whole file: a subset of the rows with their number is
the set of the rows.

Only model-checked:
- every liveness property, which the prover cannot handle under fairness;
- the trie builders, the binary builder and erigon's fold, whose functions are
  recursive over data;
- the binary generator (`TypeOK`, `FedInOrder`, `OkFedEverything`,
  `RootCoversState`, `CodeBeforeRoot`);
- the command (`ReproduceAgrees`, `OriginalIntact`, `SpecInState`,
  `PlantedIsDeployed`), whose code patterns and autofill plan are recursive too.

The theorems on types and `CommitExclusive`, `Frozen`, `PoolStops` and
`ReturnsJoined` have no run of their own: the proof covers what a run would.

## 5. Not modelled

Byte encodings (RLP, Compact, SSZ, flat keys), hashing, compression, progress
output and file formats have no state of their own and are compared with client
fixtures by the repository's tests. Pebble, MDBX and RocksDB are external: a
batch commit is atomic, and a read that succeeds sees every earlier commit. Entity generation
is a pure function of the seed: entities are distinct values. Tests, end-to-end
helpers and scripts drive external nodes. The draws of the autofill (account and
code models) are data of the same kind: the plan that bounds them is modelled.

In erigon's engine, deletions, reads of existing branches and the fallback
through the upstream engine are left out: state-actor drives it from empty. Key
sets for erigon exclude two accounts that differ in their last nibble only.

geth's Phases 1 and 2, besu's writer and reth's `WriteContracts` are sequential
loops over a spill store: their order of durable writes is in `ClientScripts`,
their tries in `TrieBuilders`, and the rows between are encodings. The memory
limit is advice to the Go runtime. The engine API's JWT and JSON are left out.

## 6. Plan

Done: the spill store, the Phase 0 pool, the three phases of ethrex and nimbus,
reth's streamed storage, erigon's snapshot writer and engine, the binary
generator with its pipeline, builder and tracker, the clients' trie builders,
nethermind's writer, the order of durable writes, the command with the spec,
templates and autofill plan, the engine API driver.

Next, in this order:
1. proofs for the binary generator, from its safety properties down;
2. the command's properties, with the autofill plan without recursion;
3. erigon's fallback through the upstream commitment engine;
4. the samplers of the autofill, as far as the plan bounds them.
