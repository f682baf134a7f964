--------------------------- MODULE BinaryGenerator --------------------------
(***************************************************************************)
(* generateStreamingBinary (generator/generator.go).  Phase 1 writes the   *)
(* entries of genesis accounts, EOAs and contracts to the temp DB through  *)
(* a batch; contracts come from a producer goroutine, and every account is *)
(* handed to a goroutine that writes its code.  Phase 2 (BinaryPipeline)   *)
(* computes the root while the code writer goes on; the root is set once   *)
(* both are done.                                                          *)
(*                                                                         *)
(* An account is an address, the keys of its entries and its code.  Draws  *)
(* are what the seeded generator returns, in order; a draw that hits a     *)
(* genesis address is drawn again.                                         *)
(***************************************************************************)
EXTENDS BinaryPipeline

CONSTANTS Genesis,                   \* the accounts of GenesisAccounts
          EOADraws, ContractDraws,   \* enough draws for the plan, collisions included
          NumEOAs, NumContracts,     \* AutoFill
          NoCode,
          BatchEntries,              \* entries that fill tempBatch (64 MB)
          ContractCap, SnapCap,      \* channels (16, 64)
          CanFail                    \* may a database write fail

Account(addr, keys, code, drawn) ==
    [addr |-> addr, keys |-> keys, code |-> code, drawn |-> drawn]
NoAccount == Account(0, <<>>, NoCode, FALSE)

genesisAddrs == {a.addr : a \in Genesis}

\* for genesisAddrs[acc.address] { acc = draw again }
Redrawn(draws, n) ==
    SubSeq(SelectSeq(draws, LAMBDA a : a.addr \notin genesisAddrs), 1, n)
EOAs == Redrawn(EOADraws, NumEOAs)
Contracts == Redrawn(ContractDraws, NumContracts)

\* The basic data of an account is an entry of its own.  Addresses are the
\* keys of a map, and keys are hashes of addresses.
ASSUME GeneratorAssumption ==
    /\ {BatchEntries, ContractCap, SnapCap} \subseteq Nat \ {0}
    /\ CanFail \in BOOLEAN
    /\ IsFiniteSet(Genesis)
    /\ EOAs \in Seq(Range(EOADraws)) /\ Contracts \in Seq(Range(ContractDraws))
    /\ \A a \in Genesis \cup Range(EOADraws) \cup Range(ContractDraws) :
          a.keys \in Seq(Nat \X Nat) /\ a.keys # <<>>
    /\ \A a, b \in Genesis : a # b => Range(a.keys) \cap Range(b.keys) = {}

VARIABLES
    main, acct,                  \* step; account written and not yet sent
    genesisLeft, eoasLeft,       \* preamble still to do
    tempDB, tempBatch, written,  \* written: preambleEntries + contractEntries
    producer, drawsLeft, contractCh, done,
    snapCh, snapClosed, snap, codeSeen, snapErr,
    durable, rootSet, result     \* codes on disk; SetStateRoot done

phase1Vars == <<genesisLeft, eoasLeft, tempDB, tempBatch, written>>
producerVars == <<producer, drawsLeft>>
snapVars == <<snap, codeSeen, snapErr>>
outcome == <<durable, rootSet, result>>
genVars == <<main, acct, phase1Vars, producerVars, contractCh, done, snapCh,
             snapClosed, snapVars, outcome>>
allVars == <<vars, genVars>>

GenInit ==
    /\ Init
    /\ main = "preamble" /\ acct = NoAccount
    /\ genesisLeft = Genesis /\ eoasLeft = EOAs
    /\ tempDB = <<>> /\ tempBatch = <<>> /\ written = 0
    /\ producer = "idle" /\ drawsLeft = Contracts
    /\ contractCh = <<>> /\ done = FALSE
    /\ snapCh = <<>> /\ snapClosed = FALSE
    /\ snap = "recv" /\ codeSeen = {} /\ snapErr = FALSE
    /\ durable = {} /\ rootSet = FALSE /\ result = "running"

-----------------------------------------------------------------------------
(* The temp DB: a later entry replaces one with the same key.              *)
Put(db, es) ==
    LET at(k) == {i \in DOMAIN es : es[i][1] = k}
    IN  [k \in DOMAIN db \cup {es[i][1] : i \in DOMAIN es} |->
            IF at(k) = {} THEN db[k] ELSE es[Max(at(k))][2]]
KeyBelow(k, o) == k[1] < o[1] \/ (k[1] = o[1] /\ k[2] < o[2])
Sorted(db) ==
    LET below(k) == {o \in DOMAIN db : KeyBelow(o, k)}
        key(i) == CHOOSE k \in DOMAIN db : Cardinality(below(k)) = i - 1
    IN  [i \in 1..Cardinality(DOMAIN db) |-> <<key(i), db[key(i)]>>]
Owner(a) == <<a.addr, a.drawn>>
EntriesOf(a) == [i \in DOMAIN a.keys |-> <<a.keys[i], Owner(a)>>]

Fails == CanFail /\ main' = "unwind" /\ result' = "error"

\* collectAccountEntries, then writeEntries, which writes the batch out
\* whenever it is full.
writeEntries(a) ==
    LET es == tempBatch \o EntriesOf(a)
        full == (Len(es) \div BatchEntries) * BatchEntries
    IN  \/ /\ tempDB' = Put(tempDB, SubSeq(es, 1, full))
           /\ tempBatch' = SubSeq(es, full + 1, Len(es))
           /\ written' = written + Len(a.keys)
           /\ acct' = a
           /\ UNCHANGED <<main, result>>
        \/ /\ full > 0 /\ Fails
           /\ UNCHANGED <<tempDB, tempBatch, written, acct>>

\* 1a and 1b: genesis accounts in the order of a Go map, then EOAs.
Preamble ==
    /\ main = "preamble" /\ acct = NoAccount
    /\ \/ \E a \in genesisLeft :
             /\ writeEntries(a) /\ genesisLeft' = genesisLeft \ {a}
             /\ UNCHANGED eoasLeft
       \/ /\ genesisLeft = {} /\ eoasLeft # <<>>
          /\ writeEntries(Head(eoasLeft)) /\ eoasLeft' = Tail(eoasLeft)
          /\ UNCHANGED genesisLeft
    /\ UNCHANGED <<vars, producerVars, contractCh, done, snapCh, snapClosed,
                   snapVars, durable, rootSet>>

\* The raw-byte cap of Phase 1, tested after each contract.
RawCapReached == target > 0 /\ written >= target
CapHit == main = "contracts" /\ RawCapReached

\* snapCh <- snapshotWork{acc}; at the cap close(done) and leave the loop.
SendSnap ==
    /\ acct # NoAccount /\ Len(snapCh) < SnapCap
    /\ snapCh' = Append(snapCh, acct.code)
    /\ acct' = NoAccount
    /\ IF CapHit THEN main' = "drain" /\ done' = TRUE ELSE UNCHANGED <<main, done>>
    /\ UNCHANGED <<vars, phase1Vars, producerVars, contractCh, snapClosed,
                   snapVars, outcome>>

StartContracts ==
    /\ main = "preamble" /\ acct = NoAccount
    /\ genesisLeft = {} /\ eoasLeft = <<>>
    /\ main' = "contracts" /\ producer' = "draw"
    /\ UNCHANGED <<vars, acct, phase1Vars, drawsLeft, contractCh, done, snapCh,
                   snapClosed, snapVars, outcome>>

\* The producer: select { case contractCh <- contract: case <-done: return },
\* and close(contractCh) when it ends.
Produce ==
    /\ producer = "draw"
    /\ \/ /\ drawsLeft # <<>> /\ Len(contractCh) < ContractCap
          /\ contractCh' = Append(contractCh, Head(drawsLeft))
          /\ drawsLeft' = Tail(drawsLeft)
          /\ UNCHANGED producer
       \/ /\ drawsLeft = <<>> \/ done
          /\ producer' = "exit"
          /\ UNCHANGED <<contractCh, drawsLeft>>
    /\ UNCHANGED <<vars, main, acct, phase1Vars, done, snapCh, snapClosed,
                   snapVars, outcome>>

\* for contract := range contractCh
ReceiveContract ==
    /\ main = "contracts" /\ acct = NoAccount /\ contractCh # <<>>
    /\ writeEntries(Head(contractCh))
    /\ contractCh' = Tail(contractCh)
    /\ UNCHANGED <<vars, genesisLeft, eoasLeft, producerVars, done, snapCh,
                   snapClosed, snapVars, durable, rootSet>>

Drain ==
    /\ main = "drain" /\ contractCh # <<>>
    /\ contractCh' = Tail(contractCh)
    /\ UNCHANGED <<vars, main, acct, phase1Vars, producerVars, done, snapCh,
                   snapClosed, snapVars, outcome>>

ContractsEnd ==
    /\ main \in {"contracts", "drain"} /\ acct = NoAccount
    /\ contractCh = <<>> /\ producer = "exit"
    /\ main' = "flush"
    /\ UNCHANGED <<vars, acct, phase1Vars, producerVars, contractCh, done, snapCh,
                   snapClosed, snapVars, outcome>>

\* The rest of the batch, Compact, and the start of Phase 2.
SkipLastBatch == tempDB
LastBatch == Put(tempDB, tempBatch)
StartPhase2 ==
    /\ main = "flush"
    /\ \/ /\ tempDB' = LastBatch /\ tempBatch' = <<>>
          /\ entries' = Sorted(tempDB') /\ reader' = "next"
          /\ main' = "phase2" /\ UNCHANGED result
       \/ Fails /\ UNCHANGED <<tempDB, tempBatch, entries, reader>>
    /\ UNCHANGED <<iterErr, pos, cur, seqNum, sem, workCh, workClosed, workerVars,
                   resultCh, resultClosed, reseqVars, builderCh, builderClosed, buildVars,
                   sizes, canceled, errs, verdict>>
    /\ UNCHANGED <<acct, genesisLeft, eoasLeft, written, producerVars, contractCh,
                   done, snapCh, snapClosed, snapVars, durable, rootSet>>

-----------------------------------------------------------------------------
(* The code writer: a code is put once; after a failure it only drains.    *)
NoDrain == "exit"
DrainAfterError == "drain"
WriteCode ==
    /\ snap = "recv" /\ snapCh # <<>>
    /\ LET code == Head(snapCh)
       IN  /\ codeSeen' = codeSeen \cup {code}
           /\ \/ /\ codes' = codes \cup (IF code \in codeSeen THEN {} ELSE {code} \ {NoCode})
                 /\ UNCHANGED <<snap, snapErr>>
              \/ /\ CanFail /\ code \notin codeSeen \cup {NoCode}
                 /\ snapErr' = TRUE /\ snap' = DrainAfterError
                 /\ UNCHANGED codes
    /\ snapCh' = Tail(snapCh)
    /\ UNCHANGED <<readerVars, sem, workCh, workClosed, workerVars, resultCh,
                   resultClosed, reseqVars, builderCh, builderClosed, buildVars,
                   target, ratio, lastReport, nextIdx, readLogical, calLogical,
                   canceled, errs, verdict>>
    /\ UNCHANGED <<main, acct, phase1Vars, producerVars, contractCh, done,
                   snapClosed, outcome>>

DrainSnap ==
    /\ snap = "drain" /\ snapCh # <<>>
    /\ snapCh' = Tail(snapCh)
    /\ UNCHANGED <<vars, main, acct, phase1Vars, producerVars, contractCh, done,
                   snapClosed, snapVars, outcome>>

SnapExit ==
    /\ snap \in {"recv", "drain"} /\ snapCh = <<>> /\ snapClosed
    /\ snap' = "exit"
    /\ UNCHANGED <<vars, main, acct, phase1Vars, producerVars, contractCh, done,
                   snapCh, snapClosed, codeSeen, snapErr, outcome>>

-----------------------------------------------------------------------------
\* closeSnap on the way out, with or without an error.
CloseSnap ==
    /\ \/ main = "phase2" /\ reader = "returned"
       \/ main = "unwind"
    /\ snapClosed' = TRUE
    /\ main' = IF main = "phase2" /\ verdict = "ok" THEN "join" ELSE "unwindJoin"
    /\ result' = IF main' = "join" THEN result ELSE "error"
    /\ UNCHANGED <<vars, acct, phase1Vars, producerVars, contractCh, done, snapCh,
                   snapVars, durable, rootSet>>

\* snapWg.Wait, snapErr, writer.Flush
NoWait == TRUE
CodeWriterDone == snap = "exit"
JoinCodeWriter ==
    /\ main = "join" /\ CodeWriterDone
    /\ \/ /\ ~snapErr
          /\ durable' = codes /\ main' = "setRoot" /\ UNCHANGED result
       \/ /\ snapErr \/ CanFail
          /\ main' = "unwindJoin" /\ result' = "error" /\ UNCHANGED durable
    /\ UNCHANGED <<vars, acct, phase1Vars, producerVars, contractCh, done, snapCh,
                   snapClosed, snapVars, rootSet>>

\* writer.SetStateRoot drains the writer's batch once more.
SetStateRoot ==
    /\ main = "setRoot"
    /\ main' = "unwindJoin"
    /\ \/ durable' = codes /\ rootSet' = TRUE /\ result' = "ok"
       \/ CanFail /\ result' = "error" /\ UNCHANGED <<durable, rootSet>>
    /\ UNCHANGED <<vars, acct, phase1Vars, producerVars, contractCh, done, snapCh,
                   snapClosed, snapVars>>

\* The deferred wait, which turns a code error into the result.
Return ==
    /\ main = "unwindJoin" /\ snap = "exit"
    /\ main' = "returned"
    /\ result' = IF snapErr THEN "error" ELSE result
    /\ UNCHANGED <<vars, acct, phase1Vars, producerVars, contractCh, done, snapCh,
                   snapClosed, snapVars, durable, rootSet>>

MainStep ==
    \/ Preamble \/ SendSnap \/ StartContracts \/ ReceiveContract \/ Drain
    \/ ContractsEnd \/ StartPhase2 \/ CloseSnap \/ JoinCodeWriter \/ SetStateRoot
    \/ Return
SnapStep == WriteCode \/ DrainSnap \/ SnapExit
Phase2Step == Next /\ UNCHANGED genVars
GenNext == MainStep \/ Produce \/ SnapStep \/ Phase2Step

\* The scheduler runs every goroutine; select picks any ready case.
GenFairness ==
    /\ WF_allVars(MainStep) /\ WF_allVars(Produce) /\ WF_allVars(SnapStep)
    /\ WF_allVars(ReaderStep /\ UNCHANGED genVars)
    /\ WF_allVars(CloseResultCh /\ UNCHANGED genVars)
    /\ WF_allVars((Collect \/ Emit) /\ UNCHANGED genVars)
    /\ WF_allVars(BuilderStep /\ UNCHANGED genVars)
    /\ \A w \in Workers : WF_allVars(WorkerStep(w) /\ UNCHANGED genVars)

GenSpec == GenInit /\ [][GenNext]_allVars /\ GenFairness

-----------------------------------------------------------------------------
\* The accounts a run with target t consumes: all of the preamble, and
\* contracts up to the one that reaches the raw-byte cap.
Size(as) == Cardinality(UNION {{i} \X DOMAIN as[i].keys : i \in DOMAIN as})
Drawn == EOAs \o Contracts
SizeUpto(d) == Size([a \in Genesis |-> a]) + Size(SubSeq(Drawn, 1, d))
Kept ==
    [t \in Targets |->
        {i \in DOMAIN Contracts : i = 1 \/ t = 0 \/ SizeUpto(Len(EOAs) + i - 1) < t}]
ExpectedDraws == [t \in Targets |-> Len(EOAs) + Cardinality(Kept[t])]
ExpectedAccounts ==
    [t \in Targets |-> Genesis \cup {Drawn[i] : i \in 1..ExpectedDraws[t]}]

\* What they leave in the temp DB: for each key, the last account drawn
\* that has it, else the genesis account that has it.
StateOf(gs, d) ==
    LET at(k) == {i \in 1..d : k \in Range(Drawn[i].keys)}
    IN  [k \in UNION {Range(a.keys) : a \in gs \cup {Drawn[i] : i \in 1..d}} |->
            Owner(IF at(k) = {} THEN CHOOSE a \in gs : k \in Range(a.keys)
                  ELSE Drawn[Max(at(k))])]
ExpectedEntries == [t \in Targets |-> Sorted(StateOf(Genesis, ExpectedDraws[t]))]

\* The temp DB that Phase 2 reads holds exactly the entries of the accounts
\* the seed and the target determine, the last partial batch included and a
\* later draw of an address replacing an earlier one, however producer, code
\* writer and main interleave; so that without a target a successful run's
\* root is a function of seed and genesis, unless Phase 2 lost a read.
RootCoversState ==
    /\ main = "phase2" => entries = ExpectedEntries[target]
    /\ rootSet /\ target = 0 /\ ~iterErr => fed = Grouped(ExpectedEntries[0])

\* The root is only set when the code of every consumed account is on disk:
\* the code writer runs beside Phase 2 and may be the last to finish or fail.
CodeBeforeRoot ==
    rootSet => {a.code : a \in ExpectedAccounts[target]} \ {NoCode} \subseteq durable

\* generateStreamingBinary returns, whoever fails or panics and however
\* small the channels are.
GeneratorTerminates == <>(main = "returned")
=============================================================================
