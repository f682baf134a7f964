---------------------------- MODULE AutofillPlan ----------------------------
(***************************************************************************)
(* internal/autofill: the entities planned for a budget of bytes.  The     *)
(* ratios are in tenths of the budget; the power law of the giants keeps   *)
(* its shape with smaller constants.                                       *)
(***************************************************************************)
EXTENDS Sizecal, FiniteSetsExt

CONSTANTS MinContractCode, MeanContractCode,
          AccountsPerBytecode,          \* MainnetAccountsPerDistinctBytecode
          GiantMinSlots, MeanSlotsMilli, GiantAccounts, StorageAccounts

Profiles == {"", "mainnet", "accounts"}   \* ParseProfile
Models == {"", "normal", "mainnet"}       \* ParseStorageModel, ParseAccountModel

ratios(profile) ==
    IF profile = "accounts" THEN [account |-> 10, code |-> 0, storage |-> 0]
                            ELSE [account |-> 2, code |-> 1, storage |-> 7]

giantSlots(n, i) ==
    (GiantMinSlots * 2 * n * n) \div (2 * n * n - (2 * i - 1) * (n - 1))
giantSlotSum(n) == MapThenSumSet(LAMBDA i : giantSlots(n, i), 1..n)

(* the search for a number of giants in proportion to all contracts; it is *)
(* cut off after rounds steps, and drawn always refers to the last n       *)
GiantsFitting(c, budget) ==
    LET n == (2 * c * GiantAccounts + StorageAccounts) \div (2 * StorageAccounts)
    IN  Max({k \in 0..n : k = 0 \/ giantSlotSum(k) <= budget})
Drawn(budget, n) == ((budget - giantSlotSum(n)) * 1000) \div MeanSlotsMilli
RECURSIVE Search(_, _, _)
Search(c, budget, rounds) ==
    LET n == GiantsFitting(c, budget)
        next == Drawn(budget, n) + n
    IN  IF next = c \/ rounds = 1 THEN [drawn |-> next - n, giants |-> n]
        ELSE Search(next, budget, rounds - 1)
solveMainnetContracts(budget) == Search((budget * 1000) \div MeanSlotsMilli, budget, 8)

NoPlan == [error |-> TRUE]
NoAutoFill == [none |-> TRUE]
PlanForBudgetProfile(topUp, profile, model) ==
    LET r == ratios(profile)
        bAcct == (topUp * r.account) \div 10
        bCode == (topUp * r.code) \div 10
        bStorage == (topUp * r.storage) \div 10
        solved == IF model = "mainnet" /\ bStorage >= BytesPerSlot
                  THEN solveMainnetContracts(bStorage \div BytesPerSlot)
                  ELSE IF bCode >= MinContractCode /\ bStorage >= BytesPerSlot
                  THEN [drawn |-> (bCode + MeanContractCode \div 2) \div MeanContractCode, giants |-> 0]
                  ELSE [drawn |-> 0, giants |-> 0]
        contracts == solved.drawn + solved.giants
        used == contracts * BytesPerAccount
        eoas == IF bAcct > used THEN (bAcct - used) \div BytesPerAccount ELSE 0
    IN  IF topUp < BytesPerAccount \/ eoas + contracts = 0 THEN NoPlan
        ELSE [eoas |-> eoas, contracts |-> solved.drawn, giants |-> solved.giants,
              giantSlots |-> giantSlotSum(solved.giants),
              bytecodes |-> Max({contracts \div AccountsPerBytecode, 1}),
              storage |-> IF model = "mainnet" \/ solved.drawn = 0 THEN 0 ELSE bStorage,
              mainnet |-> model = "mainnet"]
=============================================================================
