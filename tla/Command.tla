------------------------------ MODULE Command ------------------------------
(***************************************************************************)
(* main.go: the default command and `reproduce`, step by step, with the    *)
(* files they share: the user's spec file, the databases, the manifests    *)
(* and the content-addressed spec sidecars next to them.                   *)
(*                                                                         *)
(* The user edits the spec file and a disk damages a sidecar at any time;  *)
(* a command may be killed between any two steps.  A text stands for the   *)
(* bytes of a spec file and is its own sha256.  The clients' pipelines are *)
(* modelled elsewhere: here a client either leaves a complete database,    *)
(* whose state root is a function of the accounts and of the autofill, or  *)
(* part of one.                                                            *)
(***************************************************************************)
EXTENDS SpecBuild, AutofillPlan

CONSTANTS Texts, Document,         \* the texts, and what each parses to, or Malformed
          Dirs, Places,            \* --db values, and the directories manifests are in
          UsedDirs,                \* hold files of another origin, to begin with
          GethRoot,                \* gethDatadir: two levels up below a "geth" directory
          Inputs,                  \* the flags users pass
          MaxCommands, MaxUpsets,  \* bounds: commands, edits and damages
          Upsets,                  \* what a spec file or a sidecar may turn into
          CodeSizes, SampleAddresses,
          Gone                     \* a file that cannot be read

VARIABLES file,       \* the text of the user's spec file
          db,         \* per --db: the contents written to it, and whether the last write completed
          man,        \* per place: state-actor-manifest.json
          side,       \* per place: sidecars, hash to text
          proc,       \* the running command
          started, upsets,
          before      \* history: the files when the reproduction started, the disk's damage included

vars == <<file, db, man, side, proc, started, upsets, before>>

NoFile == <<"no path">>
UserFile == <<"user">>
Sidecar(place, hash) == <<"sidecar", place, hash>>
NoManifest == [none |-> TRUE]
NoContent == [none |-> TRUE]

ReadText(path) ==
    IF path = UserFile THEN file
    ELSE IF path[3] \in DOMAIN side[path[2]] THEN side[path[2]][path[3]] ELSE Gone

-----------------------------------------------------------------------------
Clients == {"geth", "nethermind", "besu", "reth", "erigon", "ethrex", "nimbus"}
ArchiveClients == {"geth", "reth", "erigon"}
ForkOrder == <<"cancun", "prague", "osaka">>      \* the forks before prague are alike
MaxForkForClient == "osaka"
FillProfiles == {"fresh", "migrated", "aged"}

ForkAtLeast(a, b) ==
    \E i, j \in DOMAIN ForkOrder : ForkOrder[i] = a /\ ForkOrder[j] = b /\ i >= j
chosenFork(f) == IF f.fork = "" THEN MaxForkForClient ELSE f.fork
BuildChainConfigForFork(fork) == ForkAtLeast(fork, "prague")

ValidateForClient(f) ==
    /\ f.client \in Clients
    /\ f.binary => f.client = "geth"
    /\ f.binary => f.storageModel # "mainnet" /\ f.accountModel # "mainnet"
    /\ f.client # "reth" => f.mdbx = "fresh"
    /\ f.fork # "" => ForkAtLeast(MaxForkForClient, f.fork)

(* -1 is no --target-size                                                  *)
HasTarget(f) == f.target # Unset
parseSize(target) == target # Malformed /\ target # 0
TargetSize(f) == IF HasTarget(f) THEN f.target ELSE 0

FlagsOk(f) ==
    /\ f.spec # NoFile \/ HasTarget(f)
    /\ f.mdbx \in FillProfiles
    /\ ValidateForClient(f)
    /\ HasTarget(f) => parseSize(f.target)
    /\ f.archive => f.client \in ArchiveClients
    /\ f.header # Malformed
    /\ BuildChainConfigForFork(chosenFork(f))

WallClock == <<"seed", 0>>
ResolveSeed(seed) == IF seed = WallClock THEN <<"clock", started>> ELSE seed
DatadirRoot(client, dir) == IF client = "geth" THEN GethRoot[dir] ELSE dir
Place(p) == DatadirRoot(p.flags.client, p.dir)

-----------------------------------------------------------------------------
Idle == [pc |-> "idle", cmd |-> "", outcome |-> ""]
NewRun(cmd, f, seedInput, dir, man0) ==
    [pc |-> "flags", cmd |-> cmd, outcome |-> "", flags |-> f, seedInput |-> seedInput, dir |-> dir,
     original |-> man0, text |-> Gone, preAlloc |-> <<>>, cost |-> 0, plan |-> NoAutoFill,
     content |-> NoContent, entry |-> NoFile]
Ends(outcome) == proc' = IF outcome \in {"failed", "killed", "ok"} THEN [Idle EXCEPT !.outcome = outcome]
                         ELSE [proc EXCEPT !.pc = "done", !.outcome = outcome]

Init ==
    /\ file \in Texts
    /\ \E used \in {{}, UsedDirs} :
          db = [d \in Dirs |-> [contents |-> IF d \in used THEN {NoContent} ELSE {}, whole |-> TRUE]]
    /\ man = [p \in Places |-> NoManifest]
    /\ side = [p \in Places |-> <<>>]
    /\ proc = Idle
    /\ started = 0 /\ upsets = 0
    /\ before = [db |-> db, man |-> man, side |-> side]

CanStart == proc.pc \in {"idle", "done"} /\ started < MaxCommands
dirExistsNonEmpty(dir) == db[dir].contents # {}

Generate(f, dir) ==
    /\ CanStart
    /\ f.spec # NoFile \/ HasTarget(f)
    /\ proc' = NewRun("generate", [f EXCEPT !.seed = ResolveSeed(@)], f.seed, dir, NoManifest)
    /\ started' = started + 1
    /\ UNCHANGED <<file, db, man, side, upsets, before>>

OrNormal(model) == IF model = "" THEN "normal" ELSE model
(* a plausible bug: replay the seed as it was typed                        *)
RestoresSeedInput(m, place) ==
    [m.flags EXCEPT !.profile = "mainnet", !.seed = ResolveSeed(m.seedInput),
                    !.storageModel = OrNormal(@), !.accountModel = OrNormal(@),
                    !.spec = IF m.spec = NoFile THEN NoFile ELSE Sidecar(place, m.spec)]
(* the flags of a manifest, as generate() will see them: resolved seed and *)
(* fork; the autofill profile is not in it and stays at its default        *)
RestoreFlags(m, place) ==
    [m.flags EXCEPT !.profile = "mainnet",
                    !.storageModel = OrNormal(@), !.accountModel = OrNormal(@),
                    !.spec = IF m.spec = NoFile THEN NoFile ELSE Sidecar(place, m.spec)]
Verify(m, place) ==
    m.spec # NoFile => m.spec \in DOMAIN side[place] /\ side[place][m.spec] = m.spec
(* a plausible bug: any directory but the original will do                 *)
OnlyAvoidsOriginal(m, place, dir) ==
    /\ ~(m.spec = NoFile /\ m.flags.spec # NoFile)
    /\ dir # m.dir
    /\ Verify(m, place)
ReproduceOk(m, place, dir) ==
    /\ ~(m.spec = NoFile /\ m.flags.spec # NoFile)
    /\ dir # m.dir
    /\ ~dirExistsNonEmpty(dir)
    /\ Verify(m, place)

Reproduce(place, dir) ==
    /\ CanStart
    /\ man[place] # NoManifest
    /\ LET m == man[place]
       IN  proc' = IF ReproduceOk(m, place, dir)
                   THEN NewRun("reproduce", RestoreFlags(m, place), m.flags.seed, dir, m)
                   ELSE [Idle EXCEPT !.outcome = "refused"]
    /\ started' = started + 1 /\ before' = [db |-> db, man |-> man, side |-> side]
    /\ UNCHANGED <<file, db, man, side, upsets>>

-----------------------------------------------------------------------------
(* generate(), from its flags to its exit                                  *)
At(pc) == proc.pc = pc
Goto(pc) == proc' = [proc EXCEPT !.pc = pc]
CheckFlags ==
    /\ At("flags")
    /\ IF FlagsOk(proc.flags) THEN Goto("spec") ELSE Ends("rejected")
    /\ UNCHANGED <<file, db, man, side, started, upsets, before>>

ReadSpec ==
    /\ At("spec")
    /\ LET f == proc.flags
           text == IF f.spec = NoFile THEN Gone ELSE ReadText(f.spec)
           doc == IF text = Gone THEN Malformed ELSE Document[text]
       IN  IF f.spec = NoFile THEN Goto("plan")
           ELSE IF doc = Malformed THEN Ends("rejected")
           ELSE IF ~Validate(doc) \/ ~Builds(doc, f.seed, TargetSize(f)) THEN Ends("rejected")
           ELSE proc' = [proc EXCEPT !.pc = "plan", !.text = text,
                                     !.preAlloc = Build(doc, f.seed, TargetSize(f)),
                                     !.cost = ProjectedCost(doc, TargetSize(f))]
    /\ UNCHANGED <<file, db, man, side, started, upsets, before>>

(* what the spec leaves of the target is filled; nothing left, nothing to  *)
(* fill                                                                    *)
topUp(target, cost) == IF cost < target THEN target - cost ELSE 0
PlanAutofill ==
    /\ At("plan")
    /\ LET f == proc.flags
           left == topUp(TargetSize(f), proc.cost)
           plan == IF /\ f.profile \in Profiles /\ f.storageModel \in Models /\ f.accountModel \in Models
                   THEN PlanForBudgetProfile(left, f.profile, f.storageModel) ELSE NoPlan
       IN  IF left = 0 THEN Goto("run")
           ELSE IF plan = NoPlan THEN Ends("rejected")
           ELSE proc' = [proc EXCEPT !.pc = "run", !.plan = plan]
    /\ UNCHANGED <<file, db, man, side, started, upsets, before>>

(* AddCanonicalSystemContracts: two stand for the five                     *)
SystemAddresses == {<<"at", n>> : n \in 0..1}
SystemContracts == {Account(a, 1, 0, Literal("system"), <<>>) : a \in SystemAddresses}

(* Config.Validate.  The accounts and the code of a spec are folded into   *)
(* the genesis maps, which hold the system contracts already; generator's  *)
(* binary trie path does not call it and does not look at a spec.          *)
materializePreAlloc(preAlloc) == \A i \in DOMAIN preAlloc : preAlloc[i].addr \notin SystemAddresses
ConfigAccounts(p) ==
    SystemContracts \cup (IF p.flags.binary THEN {} ELSE Range(p.preAlloc))
Validates(p) == p.flags.binary \/ materializePreAlloc(p.preAlloc)

(* where the binary trie's generator stops depends on its schedule         *)
Schedules(p) == IF p.flags.binary /\ HasTarget(p.flags) THEN {"early", "late"} ELSE {"any"}
StateRoot(p, schedule) ==
    [accounts |-> ConfigAccounts(p), schedule |-> schedule,
     fill |-> IF p.plan = NoAutoFill THEN <<>>
              ELSE <<p.flags.seed, p.plan, p.flags.accountModel = "mainnet">>]
Content(p, schedule) ==
    [client |-> p.flags.client, root |-> StateRoot(p, schedule), fork |-> chosenFork(p.flags), header |-> p.flags.header,
     archive |-> p.flags.archive, mdbx |-> p.flags.mdbx]

(* ethrex wants an empty directory.  openNethDBs, openBesuDB, reth's       *)
(* requireFreshDir and openNimbusDB look for files of their own kind, which*)
(* a run that failed part of the way has left as well.                     *)
RefusesOwnDatabase == {"nethermind", "besu", "reth", "nimbus"}
HoldsOwnDatabase(p) ==
    \E c \in db[p.dir].contents : c # NoContent /\ c.client = p.flags.client
Refuses(p) ==
    \/ p.flags.client = "ethrex" /\ dirExistsNonEmpty(p.dir)
    \/ p.flags.client \in RefusesOwnDatabase /\ HoldsOwnDatabase(p)

RunClient(schedule) ==
    /\ At("run") /\ schedule \in Schedules(proc)
    /\ IF ~Validates(proc) \/ Refuses(proc)
       THEN Ends("rejected") /\ UNCHANGED db
       ELSE /\ proc' = [proc EXCEPT !.pc = "sidecar", !.content = Content(proc, schedule)]
            /\ db' = [db EXCEPT ![proc.dir] = [contents |-> @.contents \cup {Content(proc, schedule)}, whole |-> TRUE]]
    /\ UNCHANGED <<file, man, side, started, upsets, before>>

(* an error, or the end of the process, part of the way                    *)
ClientFails(schedule) ==
    /\ At("run") /\ schedule \in Schedules(proc) /\ Validates(proc) /\ ~Refuses(proc)
    /\ Ends("failed")
    /\ db' = [db EXCEPT ![proc.dir] = [contents |-> @.contents \cup {Content(proc, schedule)}, whole |-> FALSE]]
    /\ UNCHANGED <<file, man, side, started, upsets, before>>

(* WriteSpecSidecar reads the spec again; a failure is a warning           *)
WriteSpecSidecar(ok) ==
    /\ At("sidecar")
    /\ LET f == proc.flags
           text == IF f.spec = NoFile THEN Gone ELSE ReadText(f.spec)
       IN  IF text = Gone \/ ~ok
           THEN Goto("manifest") /\ UNCHANGED side
           ELSE /\ proc' = [proc EXCEPT !.pc = "manifest", !.entry = text]
                /\ side' = [side EXCEPT ![Place(proc)] = (text :> text) @@ @]
    /\ UNCHANGED <<file, db, man, started, upsets, before>>

Exit ==
    IF proc.cmd = "generate" THEN "ok"
    ELSE IF proc.content.root = proc.original.root THEN "pass" ELSE "mismatch"

(* used, profile and content are history: what the run did, not what it    *)
(* recorded                                                                *)
ManifestOf(p) ==
    [flags |-> [p.flags EXCEPT !.fork = chosenFork(p.flags), !.profile = "", !.spec = IF @ = NoFile THEN NoFile ELSE UserFile],
     seedInput |-> p.seedInput, dir |-> p.dir, spec |-> p.entry, root |-> p.content.root,
     used |-> p.text, profile |-> p.flags.profile, content |-> p.content]
Write(ok) ==
    /\ At("manifest")
    /\ man' = IF ok THEN [man EXCEPT ![Place(proc)] = ManifestOf(proc)] ELSE man
    /\ Ends(Exit)
    /\ UNCHANGED <<file, db, side, started, upsets, before>>

Killed ==
    /\ proc.pc \notin {"idle", "done"}
    /\ Ends("killed")
    /\ UNCHANGED <<file, db, man, side, started, upsets, before>>

-----------------------------------------------------------------------------
Upset == upsets < MaxUpsets /\ upsets' = upsets + 1
EditSpec(text) ==
    /\ Upset /\ text # file /\ file' = text
    /\ UNCHANGED <<db, man, side, proc, started, before>>
DamageSidecar(place, hash, text) ==
    /\ Upset /\ hash \in DOMAIN side[place] /\ text # hash
    /\ side' = [side EXCEPT ![place][hash] = text]
    /\ before' = IF hash \in DOMAIN before.side[place]
                 THEN [before EXCEPT !.side[place][hash] = text] ELSE before
    /\ UNCHANGED <<file, db, man, proc, started>>

Next ==
    \/ \E f \in Inputs, d \in Dirs : Generate(f, d)
    \/ \E p \in Places, d \in Dirs : Reproduce(p, d)
    \/ CheckFlags \/ ReadSpec \/ PlanAutofill
    \/ \E s \in {"early", "late", "any"} : RunClient(s) \/ ClientFails(s)
    \/ \E ok \in BOOLEAN : WriteSpecSidecar(ok) \/ Write(ok)
    \/ Killed
    \/ \E t \in Upsets : EditSpec(t)
    \/ \E p \in Places, h \in Texts, t \in Upsets : DamageSidecar(p, h, t)

Spec == Init /\ [][Next]_vars

-----------------------------------------------------------------------------
(* What may make a reproduction differ: the spec file changed while the    *)
(* original ran, so that the sidecar is not what it used; its profile was  *)
(* not the default; the binary trie with a target; the sidecar changed     *)
(* after it was verified.                                                  *)
Excused(m) ==
    \/ m.used # Gone /\ m.used # m.spec
    \/ m.profile \notin {"", "mainnet"}
    \/ m.flags.binary /\ HasTarget(m.flags)
    \/ m.spec # NoFile /\ proc.text # Gone /\ proc.text # m.spec
    \/ m.spec # NoFile /\ ~Verify(m, proc.flags.spec[2])

(* A reproduction that gets past its own checks (main.go:595-669) is       *)
(* never rejected by the pipeline that accepted the original and never     *)
(* ends in MISMATCH, and what it leaves agrees with the original in the    *)
(* state, the fork and the genesis header, but for the reasons above.      *)
ReproduceAgrees ==
    proc.cmd = "reproduce" /\ ~Excused(proc.original) =>
        /\ proc.outcome \notin {"rejected", "mismatch"}
        /\ proc.outcome = "pass" => proc.content = proc.original.content

(* "Never clobber the original datadir" (main.go:617), as far as the code  *)
(* sees to it: a reproduction changes no directory that held a database,   *)
(* complete or not, when it started; no manifest and no sidecar but at its *)
(* own datadir root, and there no sidecar that was whole.  That root, and  *)
(* the original's manifest with it, is the original's own only when both   *)
(* are geth databases below one datadir: the check compares --db alone.    *)
OriginalIntact ==
    proc.cmd = "reproduce" =>
        LET own == Place(proc)
            originals == DatadirRoot(proc.original.flags.client, proc.original.dir)
        IN  /\ \A d \in Dirs : before.db[d].contents # {} => db[d] = before.db[d]
            /\ \A p \in Places \ {own} : man[p] = before.man[p] /\ side[p] = before.side[p]
            /\ \A h \in DOMAIN before.side[own] :
                  h \in DOMAIN side[own] /\ side[own][h] \in {before.side[own][h], h}
            /\ own = originals =>
                  proc.flags.client = "geth" /\ own \notin {proc.dir, proc.original.dir}

-----------------------------------------------------------------------------
PrefixCost(s, k) == MapThenSumSet(LAMBDA i : BytesPerAccount + (s[i].size \div BytesPerSlot) * BytesPerSlot, 1..k)
LongestFitting(s, target) ==
    IF target = 0 THEN Len(s) ELSE Max({k \in 0..Len(s) : PrefixCost(s, k) <= target})
Written == proc.cmd # "" /\ proc.content # NoContent /\ ~proc.flags.binary
Kept == LET s == Document[proc.text] IN SubSeq(s, 1, LongestFitting(s, TargetSize(proc.flags)))
State == proc.content.root.accounts

AccountsOf(s, seed, i) == Range(Expand(pickTemplate(s[i]), seed, ResolveAddress(seed, s[i], i), s[i]))
(* what an account costs as ProjectedCost counts: itself and its slots     *)
BytesOf(accounts) ==
    MapThenSumSet(LAMBDA a : BytesPerAccount + Cardinality(DOMAIN a.slots) * BytesPerSlot, accounts)
PlannedBytes(plan) ==
    IF plan = NoAutoFill THEN 0
    ELSE (plan.eoas + plan.contracts + plan.giants) * BytesPerAccount + plan.giantSlots * BytesPerSlot +
         IF plan.mainnet THEN ((plan.contracts * MeanSlotsMilli) \div 1000) * BytesPerSlot
                                   ELSE plan.contracts * MeanContractCode + plan.storage

(* the number of contracts is rounded to the nearest                       *)
Rounding(plan) ==
    IF plan = NoAutoFill \/ plan.mainnet \/ plan.contracts = 0 THEN 0 ELSE MeanContractCode \div 2

(* approximate_size_bytes is ignored when a total is given, and explicit   *)
(* owners and allowances are never dropped for it                          *)
StorageFits(e, a) ==
    LET explicit == Cardinality(DOMAIN Owners(e.parameters)) + Cardinality(DOMAIN Allowances(e.parameters))
    IN  \/ {"total_owners", "total_allowances"} \cap DOMAIN e.parameters # {}
        \/ Cardinality(DOMAIN a.slots) <= SlotsForBytes(e.size) + explicit

(* What the entities of a prefix write, and by how much those with         *)
(* parameters exceed their projection, which does not read them.           *)
SpecBytes(kept) ==
    MapThenSumSet(LAMBDA i : BytesOf(AccountsOf(kept, proc.flags.seed, i)), DOMAIN kept)
Overrun(kept) ==
    MapThenSumSet(
        LAMBDA i : Max({0, BytesOf(AccountsOf(kept, proc.flags.seed, i))
                              - (PrefixCost(kept, i) - PrefixCost(kept, i - 1))}),
        {i \in DOMAIN kept : kept[i].parameters # NoParameters})

(* When a client has written a spec's state (main.go:250-318): the longest *)
(* prefix of the entities that fits the target is all there, one account   *)
(* per address next to the system contracts; a deployment through the      *)
(* canonical CREATE2 factory finds that factory; storage synthesised for   *)
(* an entity stays within its approximate size.  Spec and autofill together*)
(* exceed the target by no more than the rounding of the contracts' code   *)
(* and what entities with parameters write beyond their projection, which  *)
(* "fails open" for them (build.go:158-173).  Code of the spec is not      *)
(* counted, nor does the projection count it.                              *)
SpecInState ==
    /\ Written /\ proc.text # Gone =>
        LET kept == Kept
            planted == UNION {AccountsOf(kept, proc.flags.seed, i) : i \in DOMAIN kept}
        IN  /\ State = planted \cup SystemContracts
            /\ Cardinality({a.addr : a \in State}) =
                  Cardinality(SystemAddresses) +
                  MapThenSumSet(LAMBDA i : Cardinality(AccountsOf(kept, proc.flags.seed, i)), DOMAIN kept)
            /\ (\E i \in DOMAIN kept : UsesArachnid(kept[i])) =>
                  \E a \in State : a.addr = Arachnid /\ a.code = Literal("create2 factory")
            /\ \A i \in DOMAIN kept : kept[i].size > 0 =>
                  \A a \in AccountsOf(kept, proc.flags.seed, i) : StorageFits(kept[i], a)
    /\ Written /\ HasTarget(proc.flags) =>
        LET kept == IF proc.text = Gone THEN <<>> ELSE Kept
        IN  SpecBytes(kept) + PlannedBytes(proc.plan)
                <= proc.flags.target + Rounding(proc.plan) + Overrun(kept)

-----------------------------------------------------------------------------
DeploysItself(family, size) ==
    codePatternMinCodeSize(family) <= size =>
        \A addr \in SampleAddresses :
            Execute(codePatternInitcodeFor(family, size), addr) = codePatternRuntimeBuilder(family, size, addr)
Deployments == {<<n, size, DeploysItself(n, size)>> : n \in SizedPatterns, size \in CodeSizes}

(* Code planted for a pattern (code_pattern.go) is byte for byte what the  *)
(* pattern's initcode would have deployed at that address, and a CREATE2   *)
(* address commits to that very initcode: a state planted without running  *)
(* the EVM is one the EVM could have produced.                             *)
PlantedIsDeployed ==
    Written => \A a \in State : a.code # NoCode /\ a.code[1] = "pattern" =>
        /\ <<a.code[2], a.code[3], TRUE>> \in Deployments
        /\ a.addr[1] = "create2" => a.addr[4] = a.code

-----------------------------------------------------------------------------
(* "user-declared state must never silently disappear from the generated   *)
(* prestate" (internal/specbuild/build.go:74): when a client has written   *)
(* its database, every account of the spec that was built is in it.        *)
NeverDisappears ==
    proc.cmd # "" /\ proc.content # NoContent => Range(proc.preAlloc) \subseteq State
=============================================================================
