---------------------------- MODULE MCDurability ----------------------------
(* The clients' programs as instances of Durability. *)
EXTENDS Durability, ClientScripts

MCStores == {"rocks", "pebble", "mdbx", "file", "code", "headers", "infos"}
MCRows == {"bulk", "tail", "storage", "code", "history", "admin", "status", "current", "block",
           "genesis", "stages", "head", "version", "infos", "metadata",
           "sidecar", "static", "ancient", "partial"}

\* The writers that order their writes for any end of the process, and those
\* that are only in order once their deferred Close has run.
SoundPrograms == {nimbus_runImpl, geth_Populate, neth_flat}
OrderlyPrograms == {besu_runImpl, ethrex_runImpl, neth_runImpl, reth_RunCgo, erigon_runImpl}
AllPrograms == SoundPrograms \cup OrderlyPrograms
AllStops == [p \in AllPrograms |->
                IF p \in SoundPrograms THEN {"exit", "kill", "power"} ELSE {"exit"}]

BesuProgram == {besu_runImpl}
KillStops == [p \in BesuProgram |-> {"exit", "kill"}]

ASSUME SoundOnesAreOrdered == \A p \in SoundPrograms : WellOrdered(p)
ASSUME OthersAreNot == \A p \in OrderlyPrograms : ~WellOrdered(p) /\ ~Lasting(p)

\* The criteria the programs meet, evaluated with the run of besu alone: in
\* the run of all programs a script that misses one is to show as a behaviour.
ASSUME CriteriaMet ==
    Programs = BesuProgram => /\ \A p \in SoundPrograms : Lasting(p)
                              /\ \A p \in OrderlyPrograms : WellClosed(p) /\ LeavesAll(p)
=============================================================================
