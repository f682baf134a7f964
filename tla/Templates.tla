----------------------------- MODULE Templates -----------------------------
(***************************************************************************)
(* internal/templates: what each template accepts and the accounts it      *)
(* expands an entity into.                                                 *)
(*                                                                         *)
(* An address is a tagged tuple: given <<"at", n>>, hashed from the seed   *)
(* <<"derived", seed, key>>, by CREATE2 or CREATE, or from a private key.  *)
(* Parameters are a function on the keys that are set; a value that does   *)
(* not parse is Malformed.                                                 *)
(***************************************************************************)
EXTENDS CodePattern, Sizecal, FiniteSets, TLC

CONSTANTS Malformed,
          FanoutLimit,        \* practicalFanoutLimit
          Uint64,             \* 2^64
          AddressSpace,       \* 2^160
          CurveOrder          \* secp256k1Order

Unset == -1                   \* a nil balance
NoAddress == <<>>
NoCode == <<>>
NoParameters == <<>>
Arachnid == <<"at", 4>>       \* CanonicalCREATE2FactoryAddress

Account(addr, nonce, balance, code, slots) ==
    [addr |-> addr, nonce |-> nonce, balance |-> balance, code |-> code, slots |-> slots]

(* Literal code is a term; pattern code names its family and size, and is  *)
(* lazy when it differs from address to address.                           *)
Literal(c) == <<"literal", c>>
PatternCode(family, size) == <<"pattern", family, size>>

Set(e, field) ==
    CASE field = "balance" -> e.balance # Unset
      [] field = "nonce"   -> e.nonce # 0
      [] field = "code"    -> e.code # NoCode
      [] field = "approximate_size_bytes" -> e.size # 0
EntityFields == {"balance", "nonce", "code", "approximate_size_bytes"}

HonoredEntityFields(template) ==
    CASE template \in {"eoa", "raw"}    -> EntityFields
      [] template = "erc20"           -> {"balance", "nonce", "approximate_size_bytes"}
      [] template = "storage_pattern" -> {"balance", "nonce"}
      [] OTHER                        -> {}
CheckEntityFields(template, e) ==
    \A f \in EntityFields : Set(e, f) => f \in HonoredEntityFields(template)

UserVisibleNames ==
    {"erc20", "storage_pattern", "sequential_eoas", "sequential_pkey_eoas",
     "sequential_pkey_delegations", "create2_factory", "create2_deploys", "create_preimage_deploys"}

-----------------------------------------------------------------------------
(* Parameters.  Every template with a parser uses it both to validate and  *)
(* to expand.                                                              *)
Has(p, key) == key \in DOMAIN p
Get(p, key, default) == IF Has(p, key) THEN p[key] ELSE default
Parses(p, allowed, required) ==
    /\ DOMAIN p \subseteq allowed
    /\ required \subseteq DOMAIN p
    /\ \A k \in DOMAIN p : p[k] # Malformed
InFanout(count) == count \in 1..FanoutLimit

(* parseCodePatternCodeSize; the default is the pre-Amsterdam limit        *)
CodeSize(p) == Get(p, "code_size", PreAmsterdamMaxCodeSize)
CodeSizeOk(p) ==
    Has(p, "code_size") =>
        /\ CodePatternSupportsCodeSize(p["code_pattern"])
        /\ CodeSize(p) \in codePatternMinCodeSize(p["code_pattern"])..MaxPatternCodeSize

(* a pattern owns the code; without one every literal part is required     *)
CodeModeOk(p, literals) ==
    IF Has(p, "code_pattern")
    THEN /\ IsKnownCodePattern(p["code_pattern"])
         /\ DOMAIN p \cap literals = {}
         /\ CodeSizeOk(p)
    ELSE /\ ~Has(p, "code_size")
         /\ literals \subseteq DOMAIN p
         /\ \A k \in literals : p[k] # ""
RuntimeOf(p) ==
    IF Has(p, "code_pattern") THEN PatternCode(Family(p["code_pattern"]), CodeSize(p))
                              ELSE Literal(p["runtime"])
(* the hash of the initcode identifies its family and size                 *)
InitHashOf(p) ==
    IF Has(p, "code_pattern") THEN PatternCode(Family(p["code_pattern"]), CodeSize(p))
                              ELSE Literal(p["initcode"])

CountOk(p, key) == InFanout(p[key])
BalanceOk(p) == Has(p, "balance") => p["balance"] > 0
StartPkeyOk(p) == p["start_pkey"] \in 1..(CurveOrder - 1)

parseSequentialEOAsParams(p) ==
    Parses(p, {"count", "balance"}, {"count"}) /\ CountOk(p, "count") /\ BalanceOk(p)
parseSequentialPkeyEOAsParams(p) ==
    /\ Parses(p, {"start_pkey", "count", "balance"}, {"start_pkey", "count"})
    /\ CountOk(p, "count") /\ BalanceOk(p) /\ StartPkeyOk(p)
parseSequentialPkeyDelegationsParams(p) ==
    /\ Parses(p, {"start_pkey", "count", "balance", "code_pattern", "initcode", "factory", "salt_start", "code_size"},
              {"start_pkey", "count"})
    /\ CountOk(p, "count") /\ BalanceOk(p) /\ StartPkeyOk(p) /\ CodeModeOk(p, {"initcode"})
parseCreate2DeploysParams(p) ==
    /\ Parses(p, {"initcode", "salt_start", "salt_count", "runtime", "factory", "storage_init", "code_pattern", "code_size"},
              {"salt_count"})
    /\ CountOk(p, "salt_count") /\ CodeModeOk(p, {"initcode", "runtime"})
parseCreatePreimageDeploysParams(p) ==
    /\ Parses(p, {"sender", "start_nonce", "count", "runtime", "storage_init", "code_pattern", "code_size"},
              {"sender", "count"})
    /\ CountOk(p, "count") /\ CodeModeOk(p, {"runtime"})
parseStoragePatternParams(p) ==
    Parses(p, {"final"}, {"final"}) /\ p["final"] \in 0..FanoutLimit

(* explicit owners are a function, so a repeated address cannot occur;     *)
(* the repeated and the malformed list are Malformed                       *)
Owners(p) == Get(p, "owners", NoParameters)
Allowances(p) == Get(p, "allowances", NoParameters)
TotalOk(p, key, explicit) ==
    LET total == Get(p, key, 0) IN total > 0 => Cardinality(DOMAIN explicit) <= total
erc20Parameters(p) ==
    /\ Parses(p, {"symbol", "name", "decimals", "owners", "allowances", "total_owners", "total_allowances"},
              {"symbol", "name", "decimals"})
    /\ p["decimals"] = 18
    /\ TotalOk(p, "total_owners", Owners(p)) /\ TotalOk(p, "total_allowances", Allowances(p))

ValidateParameters(template, p) ==
    CASE template \in {"eoa", "raw", "create2_factory"} -> p = NoParameters
      [] template = "erc20"                       -> erc20Parameters(p)
      [] template = "storage_pattern"             -> parseStoragePatternParams(p)
      [] template = "sequential_eoas"             -> parseSequentialEOAsParams(p)
      [] template = "sequential_pkey_eoas"        -> parseSequentialPkeyEOAsParams(p)
      [] template = "sequential_pkey_delegations" -> parseSequentialPkeyDelegationsParams(p)
      [] template = "create2_deploys"             -> parseCreate2DeploysParams(p)
      [] template = "create_preimage_deploys"     -> parseCreatePreimageDeploysParams(p)

-----------------------------------------------------------------------------
(* Storage is a function from slots to values.                             *)
SynthesizeSlots(seed, addr, domain, count) ==
    [k \in {<<"synthetic", seed, addr, domain, i>> : i \in 1..count} |-> k]
SizedSlots(seed, addr, domain, size) == SynthesizeSlots(seed, addr, domain, SlotsForBytes(size))
storagePatternIter(final) ==
    [k \in {<<"slot", i>> : i \in 0..final} |-> IF k[2] = 0 THEN final + 1 ELSE k[2]]
OrZero(balance) == IF balance = Unset THEN 0 ELSE balance
FloorOne(nonce) == IF nonce = 0 THEN 1 ELSE nonce

(* erc20: name, symbol, explicit holders and allowances, then as many      *)
(* random ones as the totals, or else the size, leave room for             *)
erc20MetadataSlots == 3
RandomBalance == 1            \* any value in [1, 10^18]
erc20Owners(e) ==
    LET explicit == Cardinality(DOMAIN Owners(e.parameters))
        derived == SlotsForBytes(e.size) - erc20MetadataSlots
    IN  IF Has(e.parameters, "total_owners") THEN e.parameters["total_owners"]
        ELSE IF e.size > 0 /\ ~Has(e.parameters, "total_allowances") /\ derived > explicit THEN derived
        ELSE explicit
erc20Allowances(p) == Get(p, "total_allowances", Cardinality(DOMAIN Allowances(p)))
erc20Storage(seed, addr, e) ==
    LET owners == Owners(e.parameters)
        allowances == Allowances(e.parameters)
        random == {<<"holder", seed, addr, i>> : i \in 1..(erc20Owners(e) - Cardinality(DOMAIN owners))}
        approved == {<<"approved", seed, addr, i>> :
                        i \in 1..(erc20Allowances(e.parameters) - Cardinality(DOMAIN allowances))}
        supply == SumFunction(owners) + Cardinality(random) * RandomBalance
    IN  (<<"slot", 3>> :> e.parameters["name"]) @@ (<<"slot", 4>> :> e.parameters["symbol"]) @@
        [k \in {<<"balance", o>> : o \in DOMAIN owners} |-> owners[k[2]]] @@
        [k \in {<<"balance", o>> : o \in random} |-> RandomBalance] @@
        [k \in {<<"allowance", a>> : a \in DOMAIN allowances} |-> allowances[k[2]]] @@
        [k \in {<<"allowance", a>> : a \in approved} |-> RandomBalance] @@
        (IF supply = 0 THEN <<>> ELSE <<"slot", 2>> :> supply)

-----------------------------------------------------------------------------
(* Expand: the accounts of an entity that has passed validation, in order. *)
Offset(addr, i) == IF addr[1] = "at" THEN <<"at", addr[2] + i>> ELSE IF i = 0 THEN addr ELSE <<"after", addr, i>>
Salt(p, i) == (Get(p, "salt_start", 0) + i) % Uint64
Create2Address(p, i) == <<"create2", Get(p, "factory", Arachnid), Salt(p, i), InitHashOf(p)>>
CreateAddress(p, i) == <<"create", p["sender"], (Get(p, "start_nonce", 0) + i) % Uint64>>
Pkey(p, i) == <<"pkey", p["start_pkey"] + i>>

EffectiveCreate2FactoryAddress(e, resolved) ==
    IF e.address = NoAddress /\ e.name = "" THEN Arachnid ELSE resolved

(* the range checks that depend on where the range starts                  *)
ExpandOk(template, addr, e) ==
    CASE template = "raw" -> e.code # NoCode
      [] template = "sequential_eoas" ->
            addr[1] = "at" => addr[2] + e.parameters["count"] - 1 < AddressSpace
      [] template \in {"sequential_pkey_eoas", "sequential_pkey_delegations"} ->
            e.parameters["start_pkey"] + e.parameters["count"] - 1 < CurveOrder
      [] OTHER -> TRUE

Fan(count, account(_)) == [i \in 1..count |-> account(i - 1)]
Funds(p) == Get(p, "balance", 1)
StorageInit(p) == Get(p, "storage_init", NoParameters)

eoaExpand(seed, addr, e) ==
    <<Account(addr, e.nonce, OrZero(e.balance), e.code, SizedSlots(seed, addr, "eoa", e.size))>>
rawExpand(seed, addr, e) ==
    <<Account(addr, e.nonce, OrZero(e.balance), e.code, SizedSlots(seed, addr, "raw", e.size))>>
create2FactoryExpand(addr, e) ==
    <<Account(EffectiveCreate2FactoryAddress(e, addr), 1, 0, Literal("create2 factory"), <<>>)>>
storagePatternExpand(addr, e) ==
    <<Account(addr, FloorOne(e.nonce), OrZero(e.balance), NoCode, storagePatternIter(e.parameters["final"]))>>
erc20Expand(seed, addr, e) ==
    <<Account(addr, FloorOne(e.nonce), OrZero(e.balance), Literal("erc20"), erc20Storage(seed, addr, e))>>
sequentialEOAsExpand(addr, p) ==
    Fan(p["count"], LAMBDA i : Account(Offset(addr, i), 0, Funds(p), NoCode, <<>>))
sequentialPkeyEOAsExpand(p) ==
    Fan(p["count"], LAMBDA i : Account(Pkey(p, i), 0, Funds(p), NoCode, <<>>))
sequentialPkeyDelegationsExpand(p) ==
    Fan(p["count"], LAMBDA i : Account(Pkey(p, i), 1, Funds(p), <<"delegation", Create2Address(p, i)>>, <<>>))
create2DeploysExpand(p) ==
    Fan(p["salt_count"], LAMBDA i : Account(Create2Address(p, i), 1, 0, RuntimeOf(p), StorageInit(p)))
createPreimageDeploysExpand(p) ==
    Fan(p["count"], LAMBDA i : Account(CreateAddress(p, i), 1, 0, RuntimeOf(p), StorageInit(p)))

Expand(template, seed, addr, e) ==
    CASE template = "eoa"                     -> eoaExpand(seed, addr, e)
      [] template = "raw"                     -> rawExpand(seed, addr, e)
      [] template = "create2_factory"         -> create2FactoryExpand(addr, e)
      [] template = "storage_pattern"         -> storagePatternExpand(addr, e)
      [] template = "erc20"                   -> erc20Expand(seed, addr, e)
      [] template = "sequential_eoas"         -> sequentialEOAsExpand(addr, e.parameters)
      [] template = "sequential_pkey_eoas"    -> sequentialPkeyEOAsExpand(e.parameters)
      [] template = "sequential_pkey_delegations" -> sequentialPkeyDelegationsExpand(e.parameters)
      [] template = "create2_deploys"         -> create2DeploysExpand(e.parameters)
      [] template = "create_preimage_deploys" -> createPreimageDeploysExpand(e.parameters)
=============================================================================
