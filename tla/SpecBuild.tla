----------------------------- MODULE SpecBuild -----------------------------
(***************************************************************************)
(* From a spec document to the accounts a writer plants: the schema rules  *)
(* of internal/spec and internal/specbuild's Build.  A spec is a sequence  *)
(* of entities.                                                            *)
(***************************************************************************)
EXTENDS Templates

CONSTANT Oversize             \* code longer than spec.MaxCodeSize

Entity == [kind |-> "contract", name |-> "", address |-> NoAddress, balance |-> Unset, nonce |-> 0,
           code |-> NoCode, template |-> "", parameters |-> NoParameters, size |-> 0]

(* Spec.Validate                                                           *)
EntityValid(e) ==
    /\ \/ /\ e.kind = "contract"
          /\ (e.template # "") # (e.code # NoCode)
          /\ e.template # "" => e.template \in UserVisibleNames
          /\ e.template = "" => e.parameters = NoParameters
       \/ e.kind = "eoa" /\ e.template = "" /\ e.parameters = NoParameters
    /\ e.code # Oversize
Validate(s) ==
    /\ s # <<>>
    /\ \A i \in DOMAIN s : EntityValid(s[i])
    /\ \A i, j \in DOMAIN s : s[i].address = s[j].address /\ s[i].address # NoAddress => i = j

-----------------------------------------------------------------------------
(* The n-th unnamed entity hashes "anon-n", which is also a legal name.    *)
AnonName == <<"anon-0", "anon-1", "anon-2", "anon-3">>
ResolveAddress(seed, e, index) ==
    IF e.address # NoAddress THEN e.address
    ELSE <<"derived", seed, IF e.name # "" THEN e.name ELSE AnonName[index]>>

(* Projected cost of one entity: parameters are not looked at.             *)
EntityCost(e) == (BytesPerAccount + SlotsForBytes(e.size) * BytesPerSlot) % Uint64

(* the walk ProjectedCost and truncateForTargetSize share: how many        *)
(* entities fit, and what they cost; a target of 0 is no target            *)
Walk(s, target) ==
    FoldLeft(LAMBDA acc, e :
               LET next == (acc.cost + EntityCost(e)) % Uint64
               IN  IF acc.full \/ (target > 0 /\ next > target) THEN [acc EXCEPT !.full = TRUE]
                   ELSE [acc EXCEPT !.cost = next, !.kept = @ + 1],
            [cost |-> 0, kept |-> 0, full |-> FALSE], s)
ProjectedCost(s, target) == Walk(s, target).cost
truncateForTargetSize(s, target) == SubSeq(s, 1, Walk(s, target).kept)

(* a create2_deploys through the canonical factory needs that factory      *)
UsesArachnid(e) ==
    e.template = "create2_deploys" /\ Get(e.parameters, "factory", Arachnid) = Arachnid
IsArachnid(seed, e, i) ==
    /\ e.template = "create2_factory"
    /\ EffectiveCreate2FactoryAddress(e, ResolveAddress(seed, e, i)) = Arachnid
enforceArachnidFactoryRequirement(s, seed) ==
    (\E i \in DOMAIN s : UsesArachnid(s[i])) => \E i \in DOMAIN s : IsArachnid(seed, s[i], i)

pickTemplate(e) ==
    IF e.kind = "eoa" THEN "eoa" ELSE IF e.template # "" THEN e.template ELSE "raw"

(* Build: an error in any entity, or two accounts at one address, is an    *)
(* error of the whole spec                                                 *)
EntityBuilds(seed, e, i) ==
    /\ CheckEntityFields(pickTemplate(e), e)
    /\ ValidateParameters(pickTemplate(e), e.parameters)
    /\ ExpandOk(pickTemplate(e), ResolveAddress(seed, e, i), e)
ExpandAll(seed, s) ==
    FlattenSeq([i \in DOMAIN s |-> Expand(pickTemplate(s[i]), seed, ResolveAddress(seed, s[i], i), s[i])])
DistinctAddresses(accounts) ==
    \A i, j \in DOMAIN accounts : accounts[i].addr = accounts[j].addr => i = j

(* a plausible bug: look for the factory in the spec as written            *)
ChecksWholeSpec(s, seed, target) ==
    LET kept == truncateForTargetSize(s, target)
    IN  /\ s # <<>>
        /\ enforceArachnidFactoryRequirement(s, seed)
        /\ \A i \in DOMAIN kept : EntityBuilds(seed, kept[i], i)
        /\ DistinctAddresses(ExpandAll(seed, kept))
Builds(s, seed, target) ==
    LET kept == truncateForTargetSize(s, target)
    IN  /\ s # <<>>
        /\ enforceArachnidFactoryRequirement(kept, seed)
        /\ \A i \in DOMAIN kept : EntityBuilds(seed, kept[i], i)
        /\ DistinctAddresses(ExpandAll(seed, kept))
Build(s, seed, target) == ExpandAll(seed, truncateForTargetSize(s, target))
=============================================================================
