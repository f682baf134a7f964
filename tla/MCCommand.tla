----------------------------- MODULE MCCommand -----------------------------
(***************************************************************************)
(* Instances of Command: nine spec texts and a few command lines.          *)
(***************************************************************************)
EXTENDS Command

CONSTANTS plain, deploys, truncated, tokens, taken, system, preimages, past, garbage

EOA == [Entity EXCEPT !.kind = "eoa"]
FromTemplate(t, p) == [Entity EXCEPT !.template = t, !.parameters = p]
Factory == FromTemplate("create2_factory", NoParameters)
Deploy == FromTemplate("create2_deploys",
              [salt_start |-> Uint64 - 1, salt_count |-> 2, code_pattern |-> "unique_jumpdest", code_size |-> 97])
(* the contracts the delegations point at, of the default size             *)
Targets == FromTemplate("create2_deploys", [salt_start |-> 3, salt_count |-> 2, code_pattern |-> "max_diff"])
Preimage(sender, p) == FromTemplate("create_preimage_deploys", ("sender" :> sender) @@ ("count" :> 1) @@ p)

MCDocument ==
    plain :> <<[EOA EXCEPT !.address = <<"at", 10>>, !.balance = 5],
               [EOA EXCEPT !.name = "a", !.size = 3 * BytesPerSlot + 1],
               [Entity EXCEPT !.code = Literal("raw"), !.nonce = 2]>> @@
    deploys :> <<Factory, Deploy, Targets,
                 FromTemplate("sequential_pkey_delegations",
                     [start_pkey |-> 1, count |-> 2, code_pattern |-> "max_diff", salt_start |-> 3]),
                 [FromTemplate("create2_deploys",
                     [salt_count |-> 1, factory |-> <<"at", 12>>, initcode |-> "init", runtime |-> "run"])
                    EXCEPT !.name = "b"]>> @@
    truncated :> <<Deploy, [EOA EXCEPT !.size = 2 * BytesPerSlot], Factory>> @@
    tokens :> <<[FromTemplate("erc20",
                    [symbol |-> "S", name |-> "N", decimals |-> 18, owners |-> (<<"at", 9>> :> 7),
                     allowances |-> (<<<<"at", 9>>, <<"at", 8>>>> :> 1)]) EXCEPT !.size = 6 * BytesPerSlot],
                FromTemplate("storage_pattern", [final |-> 2]),
                [FromTemplate("sequential_eoas", [count |-> 2]) EXCEPT !.address = <<"at", AddressSpace - 2>>]>> @@
    taken :> <<[EOA EXCEPT !.balance = 1], [EOA EXCEPT !.name = "anon-2"], [EOA EXCEPT !.nonce = 1]>> @@
    system :> <<[EOA EXCEPT !.address = <<"at", 0>>]>> @@
    preimages :> <<Preimage(<<"at", 9>>, [code_pattern |-> "max_same", code_size |-> 33]),
                   Preimage(<<"at", 8>>, [code_pattern |-> "unique_jumpdest_pre_amsterdam"]),
                   Preimage(<<"at", 7>>, [code_pattern |-> "max_diff", code_size |-> 32]),
                   FromTemplate("sequential_pkey_eoas", [start_pkey |-> CurveOrder - 2, count |-> 2])>> @@
    past :> <<FromTemplate("sequential_pkey_eoas", [start_pkey |-> CurveOrder - 2, count |-> 3])>> @@
    garbage :> Malformed

Flags == [client |-> "geth", seed |-> <<"seed", 1>>, fork |-> "", target |-> Unset, binary |-> FALSE, archive |-> FALSE,
          mdbx |-> "fresh", profile |-> "mainnet", storageModel |-> "normal", accountModel |-> "normal",
          spec |-> NoFile, header |-> 1]
WithSpec == [Flags EXCEPT !.spec = UserFile]
Exact == 3 * BytesPerAccount + 2 * BytesPerSlot
Tight == 2 * BytesPerAccount + 2 * BytesPerSlot

MCInputs ==
    {[WithSpec EXCEPT !.seed = WallClock, !.fork = "prague", !.header = 2],
     [WithSpec EXCEPT !.client = "besu", !.target = Exact],
     [WithSpec EXCEPT !.client = "ethrex", !.target = Tight],
     [WithSpec EXCEPT !.client = "reth", !.target = 4000, !.mdbx = "aged", !.archive = TRUE],
     [WithSpec EXCEPT !.target = 60000, !.storageModel = "mainnet", !.accountModel = "mainnet"],
     [WithSpec EXCEPT !.binary = TRUE],
     [Flags EXCEPT !.target = 60000, !.profile = "accounts"],
     [Flags EXCEPT !.target = 60000, !.seed = WallClock, !.client = "erigon", !.storageModel = "", !.accountModel = ""],
     [Flags EXCEPT !.target = 60000, !.binary = TRUE],
     [Flags EXCEPT !.target = 500, !.client = "nimbus"],
     [Flags EXCEPT !.target = 60000, !.profile = "typo"]}
MCBadInputs ==
    {[Flags EXCEPT !.target = 0], [Flags EXCEPT !.target = Malformed],
     [Flags EXCEPT !.target = 4000, !.client = "parity"],
     [Flags EXCEPT !.target = 4000, !.client = "besu", !.binary = TRUE],
     [Flags EXCEPT !.target = 4000, !.client = "besu", !.archive = TRUE],
     [Flags EXCEPT !.target = 4000, !.mdbx = "aged"],
     [Flags EXCEPT !.target = 4000, !.fork = "cancun"],
     [Flags EXCEPT !.target = 4000, !.header = Malformed]}
MCBinaryInputs == {[WithSpec EXCEPT !.binary = TRUE]}

MCDirs == {"d/geth/a", "d/geth/b", "e"}
MCPlaces == MCDirs \cup {"d"}
MCGethRoot == ("d/geth/a" :> "d") @@ ("d/geth/b" :> "d") @@ ("e" :> "e")
MCAllInputs == MCInputs \cup MCBadInputs
MCSampleAddresses == {[i \in 1..AddressLength |-> 100 + i]}
=============================================================================
