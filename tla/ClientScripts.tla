---------------------------- MODULE ClientScripts ----------------------------
(***************************************************************************)
(* The durable steps of each client writer, in the order its functions     *)
(* take them: one definition per function of the code, each a sequence of  *)
(* steps of Durability.  "bulk" rows leave a sink when its batch fills up, *)
(* "tail" rows are what is left in the batch at the end; "partial" is what *)
(* a deferred Close finds in the batch of an aborted run.                  *)
(***************************************************************************)
EXTENDS Sequences

Write(how, store, rows) == <<[op |-> how, store |-> store, rows |-> rows]>>

NoSteps == <<>>

File(rows) == Write("logged", "file", rows)                \* os.WriteFile, never synced

-----------------------------------------------------------------------------
(* nimbus: one RocksDB *)

nimbus_flushAsync(rows) == Write("volatile", "rocks", rows)
nimbus_flushSync(rows) == Write("synced", "rocks", rows)
nimbus_put(rows) == Write("logged", "rocks", rows)
nimbus_putSync(rows) == Write("synced", "rocks", rows)
nimbus_flushData == Write("flush", "rocks", {"bulk"})
nimbus_Close == Write("flush", "rocks", {"bulk"})
nimbus_sinkClose == nimbus_flushSync({"partial"})

nimbus_writeState ==
    nimbus_flushAsync({"bulk"}) \o nimbus_flushSync({"tail"}) \o nimbus_putSync({"admin"})

nimbus_writeGenesisBlock ==
    nimbus_put({"block"}) \o nimbus_flushData \o nimbus_putSync({"head"})

nimbus_runImpl ==
    [script |-> nimbus_writeState \o nimbus_writeGenesisBlock \o File({"sidecar"}),
     deferred |-> nimbus_sinkClose \o nimbus_Close, always |-> TRUE,
     gate |-> {"head"}, needed |-> {"bulk", "tail", "admin", "block"}]

-----------------------------------------------------------------------------
(* geth: one Pebble with its log on *)

geth_flushBatch(sync, rows) == Write(IF sync THEN "synced" ELSE "logged", "pebble", rows)
geth_CommitScratchBatch == Write("logged", "pebble", {"storage"})
geth_writeState == geth_CommitScratchBatch \o geth_flushBatch(FALSE, {"bulk"})
geth_WritePathDBMetadata == Write("logged", "pebble", {"version"})
geth_SetStateRoot == geth_flushBatch(TRUE, {"tail"}) \o geth_WritePathDBMetadata
geth_WriteGenesisBlock == Write("logged", "pebble", {"block"}) \o File({"ancient"})
geth_CloseUncompacted(batch) == batch
geth_Close(batch) == batch \o Write("flush", "pebble", {})

geth_Populate ==
    [script |-> geth_writeState \o geth_SetStateRoot \o geth_WriteGenesisBlock
                \o File({"sidecar"}) \o geth_Close(NoSteps),
     deferred |-> geth_Close(geth_flushBatch(TRUE, {"partial"})), always |-> FALSE,
     gate |-> {"version"}, needed |-> {"storage", "bulk", "tail"}]

-----------------------------------------------------------------------------
(* nethermind: a RocksDB per kind of row *)

neth_flatSink(rows) == Write("volatile", "rocks", rows)
neth_codeDBSink == Write("volatile", "code", {"code"})
neth_writeSyntheticAccounts == neth_codeDBSink \o neth_flatSink({"bulk"}) \o neth_flatSink({"tail"})

neth_writeFlatMetadata ==
    Write("flush", "rocks", {"bulk", "tail"}) \o Write("synced", "rocks", {"current"})

neth_infosFirst ==
    Write("logged", "infos", {"infos"}) \o Write("logged", "headers", {"block"})

neth_writeGenesisBlockToDBs ==
    Write("logged", "headers", {"block"}) \o Write("logged", "infos", {"infos"})

neth_Close ==
    Write("flush", "code", {"code"}) \o Write("flush", "headers", {}) \o Write("flush", "infos", {})
    \o Write("flush", "rocks", {"bulk", "tail"})

neth_runImpl ==
    [script |-> neth_writeSyntheticAccounts \o neth_writeFlatMetadata
                \o neth_writeGenesisBlockToDBs \o File({"sidecar"}),
     deferred |-> neth_Close, always |-> TRUE,
     gate |-> {"infos"}, needed |-> {"bulk", "tail", "code", "current", "block"}]

\* The same run, asked about the gate of the flat database only.
neth_flat == [neth_runImpl EXCEPT !.gate = {"current"}, !.needed = {"bulk", "tail"}]

-----------------------------------------------------------------------------
(* besu: one RocksDB and a metadata file *)

besu_flushAsync(rows) == Write("volatile", "rocks", rows)
besu_flushSync(rows) == Write("synced", "rocks", rows)
besu_put(rows) == Write("logged", "rocks", rows)
besu_putSync(rows) == Write("synced", "rocks", rows)
besu_Close == Write("flush", "rocks", {"bulk"})
besu_sinkClose == besu_flushSync({"partial"})
besu_writeState == besu_flushAsync({"bulk"})
besu_SaveWorldState == besu_flushSync({"tail"})
besu_writeAdvisorySentinels == besu_put({"status"})
besu_writeGenesisBlock == besu_put({"block"}) \o besu_putSync({"head"})
besu_WriteDatabaseMetadata == File({"metadata"})

besu_runImpl ==
    [script |-> besu_writeState \o besu_SaveWorldState \o besu_writeAdvisorySentinels
                \o besu_writeGenesisBlock \o besu_WriteDatabaseMetadata \o File({"sidecar"}),
     deferred |-> besu_sinkClose \o besu_Close, always |-> TRUE,
     gate |-> {"head", "metadata"}, needed |-> {"bulk", "tail", "status", "block"}]

-----------------------------------------------------------------------------
(* ethrex: one RocksDB and a metadata file *)

ethrex_flushAsync(rows) == Write("volatile", "rocks", rows)
ethrex_flushSync(rows) == Write("synced", "rocks", rows)
ethrex_put(rows) == Write("logged", "rocks", rows)
ethrex_putSync(rows) == Write("synced", "rocks", rows)
ethrex_Close == Write("flush", "rocks", {"bulk"})
ethrex_sinkClose == ethrex_flushSync({"partial"})

ethrex_writeState ==
    ethrex_flushAsync({"bulk"}) \o ethrex_flushSync({"tail"}) \o ethrex_putSync({"status"})

ethrex_writeGenesisBlock == ethrex_put({"block"}) \o ethrex_putSync({"head"})
ethrex_WriteStoreMetadata == File({"metadata"})

ethrex_runImpl ==
    [script |-> ethrex_writeState \o ethrex_writeGenesisBlock \o ethrex_WriteStoreMetadata
                \o File({"sidecar"}),
     deferred |-> ethrex_sinkClose \o ethrex_Close, always |-> TRUE,
     gate |-> {"head", "metadata"}, needed |-> {"bulk", "tail", "status", "block"}]

-----------------------------------------------------------------------------
(* reth: MDBX without sync until Close, history in a RocksDB without a log *)

reth_Update(rows) == Write("logged", "mdbx", rows)
reth_historyFlush(rows) == Write("volatile", "rocks", rows)
reth_writeState == reth_Update({"bulk"}) \o reth_historyFlush({"history"}) \o reth_Update({"tail"})
reth_WriteMetadata == reth_Update({"head"})
reth_WriteStaticFiles == File({"static"})

reth_Close ==
    reth_historyFlush({"history"}) \o Write("flush", "rocks", {"history"}) \o Write("flush", "mdbx", {})

reth_RunCgo ==
    [script |-> File({"version"}) \o reth_writeState \o File({"sidecar"})
                \o reth_WriteMetadata \o reth_WriteStaticFiles,
     deferred |-> reth_Close, always |-> TRUE,
     gate |-> {"head"}, needed |-> {"bulk", "tail", "history"}]

-----------------------------------------------------------------------------
(* erigon: `erigon init` makes a bootable MDBX; the snapshot files and the *)
(* header that commits to them come after it.  The chainspec sidecar and   *)
(* the chmod, whose failure only warns, are left out.                      *)

erigon_init == Write("synced", "mdbx", {"genesis"})
erigon_writeSyncStageMarkers == Write("synced", "mdbx", {"stages"})
erigon_writeSnapshots == File({"bulk"}) \o File({"tail"})
erigon_patchGenesisHeaderStateRoot == Write("synced", "mdbx", {"head"})

erigon_runImpl ==
    [script |-> File({"sidecar"}) \o erigon_init \o erigon_writeSyncStageMarkers
                \o erigon_writeSnapshots \o erigon_patchGenesisHeaderStateRoot,
     deferred |-> NoSteps, always |-> TRUE,
     gate |-> {"head"}, needed |-> {"bulk", "tail", "genesis", "stages"}]
=============================================================================
