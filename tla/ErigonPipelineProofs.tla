----------------------- MODULE ErigonPipelineProofs ------------------------
(***************************************************************************)
(* Proofs about writeSnapshots of client/erigon for any number of items,   *)
(* workers and slots, any rows per item, batch size and channel capacity:  *)
(* nothing is sent on a closed channel, a domain that has its accessors is *)
(* whole, and a nil error means that every row is in its files.            *)
(***************************************************************************)
EXTENDS ErigonPipeline, FiniteSetTheorems, TLAPS

Row == AllItems \X (1 .. MaxRows)

\* The items are waiting, in the channel or with a producer.
Waiting(i) == i >= nextItem \/ i \in Range(itemCh)
Pending(r) == Waiting(r[1]) \/ \E p \in Producers : item[p] = r[1] /\ row[p] <= r[2]
PendingRows(d) == {r \in RowsIn(d) : Pending(r)}

\* A row that was sent is in a batch, in a channel or in its store.
InFlight(r, d) ==
    \/ \E p \in Producers : r \in Range(buf[p][d])
    \/ \E b \in Range(chan[d]) : r \in Range(b)
    \/ r \in inStore[d]

ControlTypes ==
    /\ main \in {"send", "drain", "flush", "close", "join", "fold", "wait", "returned"}
    /\ worker \in [Workers -> {"run", "flush", "done"}]
    /\ writer \in [Channels -> {"run", "done"}]
    /\ itemsClosed \in BOOLEAN /\ chanClosed \in BOOLEAN
    /\ encodeErr \in BOOLEAN /\ domainErr \in BOOLEAN /\ pipelineErr \in BOOLEAN
    /\ emitErr \in BOOLEAN /\ outcome \in {"none", "ok", "err"}
    /\ emit \in [Domains -> {"off", "run", "check", "done"}]
    /\ kv \in [Domains -> SUBSET Row] /\ indexed \in [Domains -> BOOLEAN]

DataTypes ==
    /\ nextItem \in Nat \ {0} /\ itemCh \in Seq(AllItems)
    /\ item \in [Producers -> AllItems \cup {0}] /\ row \in [Producers -> Nat \ {0}]
    /\ buf \in [Producers -> [Channels -> Seq(Row)]]
    /\ chan \in [Channels -> Seq(Seq(Row))]
    /\ counts \in [Channels -> Nat] /\ inStore \in [Channels -> SUBSET Row]
    /\ \A p \in Producers, d \in Channels : Range(buf[p][d]) \subseteq RowsIn(d)
    /\ \A d \in Channels : \A b \in Range(chan[d]) : Range(b) \subseteq RowsIn(d)
    /\ \A d \in Channels : inStore[d] \subseteq RowsIn(d)

Distinct(s) == \A m, n \in 1 .. Len(s) : m # n => s[m] # s[n]

\* No item is in two places.
Once ==
    /\ \A p, q \in Producers : p # q /\ item[p] = item[q] => item[p] = 0
    /\ \A p \in Producers : item[p] # 0 => ~Waiting(item[p])
    /\ Distinct(itemCh) /\ \A i \in Range(itemCh) : i < nextItem

\* No row is lost.
NoneLost == \A d \in Channels : \A r \in RowsIn(d) : Pending(r) \/ InFlight(r, d)

DataInv == DataTypes /\ Once /\ NoneLost

\* The goroutines end one after the other, each with empty hands unless it
\* has reported an error.
Clean == ~encodeErr /\ ~domainErr /\ ~pipelineErr
Drained == {"flush", "close", "join", "fold", "wait", "returned"}
Closed == {"join", "fold", "wait", "returned"}
Ended ==
    /\ itemsClosed => nextItem > Entities \/ pipelineErr
    /\ \A w \in Workers : worker[w] # "run" =>
          encodeErr \/ (itemsClosed /\ itemCh = <<>> /\ item[w] = 0)
    /\ \A w \in Workers : worker[w] = "done" => encodeErr \/ Flushed(w)
    /\ main # "send" => itemsClosed /\ \A w \in Workers : worker[w] = "done"
    /\ main \in Drained => pipelineErr \/ (nextItem > Entities + Slots /\ item[Main] = 0)
    /\ main \in Drained \ {"flush"} => pipelineErr \/ Flushed(Main)
    /\ chanClosed <=> main \in Closed
    /\ \A d \in Channels : writer[d] = "done" => domainErr \/ (chanClosed /\ chan[d] = <<>>)

\* The writers were joined without an error.
Settled == main \in {"fold", "wait", "returned"} /\ Clean
  /\ \A d \in Channels : writer[d] = "done"
Emitting ==
    /\ main \in {"fold", "wait"} \/ outcome = "ok" \/ (\E d \in Domains : emit[d] # "off")
         => Settled
    /\ main = "returned" <=> outcome # "none"
    /\ main = "wait" \/ outcome = "ok" => folded = RowsIn("commitIn")
    /\ outcome = "ok" => ~emitErr /\ EmitWait
    /\ \A d \in Domains : kv[d] \subseteq RowsIn(d)
    /\ \A d \in Domains : indexed[d] => emit[d] = "done"
    /\ \A d \in Domains : emit[d] = "done" => emitErr \/ indexed[d]

\* The rows sent are counted, each once, and no domain is indexed short of any.
Counting ==
    \A d \in Channels : counts[d] + Cardinality(PendingRows(d)) = Cardinality(RowsIn(d))

IndInv == ControlTypes /\ DataInv /\ Ended /\ Emitting

-----------------------------------------------------------------------------
(* Sequences, rows and channels *)

\* The empty sequence has no elements.
LEMMA NoElements == ASSUME NEW S, NEW s \in Seq(S), Len(s) = 0 PROVE Range(s) = {}
<1>1. DOMAIN s = 1 .. 0
  OBVIOUS
<1>2. \A i \in DOMAIN s : FALSE
  BY <1>1
<1> QED
  BY <1>2 DEF Range

\* Appending adds one element.
LEMMA AppendAdds ==
    ASSUME NEW S, NEW s \in Seq(S), NEW x \in S
    PROVE  /\ Append(s, x) \in Seq(S) /\ Range(Append(s, x)) = Range(s) \cup {x}
           /\ Distinct(s) /\ x \notin Range(s) => Distinct(Append(s, x))
<1>1. /\ Append(s, x) \in Seq(S) /\ Len(s) \in Nat /\ Len(Append(s, x)) = Len(s) + 1
      /\ \A n \in 1 .. Len(s) : Append(s, x)[n] = s[n] /\ Append(s, x)[Len(s) + 1] = x
  OBVIOUS
<1>2. Range(s) = {s[n] : n \in 1 .. Len(s)}
      /\ Range(Append(s, x)) = {Append(s, x)[n] : n \in 1 .. Len(s) + 1}
  BY <1>1 DEF Range
<1>3. Append(s, x)[Len(s) + 1] = x
  OBVIOUS
<1>4. Range(Append(s, x)) = Range(s) \cup {x}
  BY <1>1, <1>2, <1>3
<1>5. ASSUME Distinct(s), x \notin Range(s) PROVE Distinct(Append(s, x))
  BY <1>1, <1>2, <1>3, <1>5 DEF Distinct
<1> QED
  BY <1>1, <1>4, <1>5

\* A sequence is its head and its tail.
LEMMA HeadAndTail ==
    ASSUME NEW S, NEW s \in Seq(S), s # <<>>
    PROVE  /\ Head(s) \in S /\ Tail(s) \in Seq(S) /\ Range(s) = {Head(s)} \cup Range(Tail(s))
           /\ Distinct(s) => Distinct(Tail(s)) /\ Head(s) \notin Range(Tail(s))
<1>1. /\ Tail(s) \in Seq(S) /\ Head(s) = s[1] /\ Len(s) \in Nat \ {0} /\ Len(Tail(s)) = Len(s) - 1
      /\ \A n \in 1 .. Len(s) - 1 : Tail(s)[n] = s[n + 1]
  OBVIOUS
<1>2. Range(s) = {s[n] : n \in 1 .. Len(s)}
        /\ Range(Tail(s)) = {Tail(s)[n] : n \in 1 .. Len(s) - 1}
  <2>1. DOMAIN s = 1 .. Len(s) /\ DOMAIN Tail(s) = 1 .. Len(s) - 1
    BY <1>1
  <2> QED
    BY Zenon, <2>1 DEF Range
<1>3. Range(s) = {Head(s)} \cup Range(Tail(s))
  <2>1. ASSUME NEW n \in 1 .. Len(s), n # 1 PROVE s[n] \in Range(Tail(s))
    <3>1. n - 1 \in 1 .. Len(s) - 1 /\ Tail(s)[n - 1] = s[n]
      BY <1>1, <2>1
    <3> QED
      BY Zenon, <1>2, <3>1
  <2>2. ASSUME NEW n \in 1 .. Len(s) - 1 PROVE Tail(s)[n] \in Range(s)
    <3>1. n + 1 \in 1 .. Len(s) /\ Tail(s)[n] = s[n + 1]
      BY <1>1, <2>2
    <3> QED
      BY <1>2, <3>1
  <2>3. Head(s) \in Range(s)
    BY <1>1, <1>2
  <2> QED
    BY <1>1, <1>2, <2>1, <2>2, <2>3
<1>4. ASSUME Distinct(s) PROVE Distinct(Tail(s)) /\ Head(s) \notin Range(Tail(s))
  BY <1>1, <1>2, <1>4 DEF Distinct
<1> QED
  BY <1>1, <1>3, <1>4

\* The channels and the items.
LEMMA ChannelFacts ==
    /\ Channels = {"accounts", "storage", "code", "commitIn"}
    /\ Domains = {"accounts", "storage", "code"}
<1>1. Channels = {DomainOrder[k] : k \in 1 .. 4}
  BY DEF Channels, Range, DomainOrder
<1>2. DomainOrder[1] = "accounts" /\ DomainOrder[2] = "storage"
      /\ DomainOrder[3] = "code" /\ DomainOrder[4] = "commitIn"
  BY DEF DomainOrder
<1>3. 1 .. 4 = {1, 2, 3, 4}
  OBVIOUS
<1> QED
  BY <1>1, <1>2, <1>3 DEF Domains

\* The items are numbered from 1 (0 is "no item"), and the main goroutine is a
\* producer beside the workers.
LEMMA ItemFacts ==
    /\ AllItems = 1 .. Entities + Slots /\ Entities + Slots \in Nat /\ 0 \notin AllItems
    /\ AllItems \subseteq Nat \ {0} /\ Main \in Producers /\ Main \notin Workers
    /\ Workers \subseteq Producers
    /\ \A i \in AllItems : RowsOf[i] \in Seq(Channels) /\ Len(RowsOf[i]) \in Nat
         /\ Len(RowsOf[i]) <= MaxRows
    /\ MaxRows \in Nat
<1>1. AllItems = 1 .. Entities + Slots /\ Entities + Slots \in Nat
  BY ErigonAssumption DEF AllItems
<1>2. 0 \notin AllItems /\ AllItems \subseteq Nat \ {0}
  BY <1>1
<1>3. \A i \in AllItems : RowsOf[i] \in Seq(Channels) /\ Len(RowsOf[i]) <= MaxRows
  BY <1>1, ErigonAssumption
<1>4. \A i \in AllItems : Len(RowsOf[i]) \in Nat
  BY <1>3
<1>5. MaxRows \in Nat
  BY DEF MaxRows
<1> QED
  BY <1>1, <1>2, <1>3, <1>4, <1>5, ErigonAssumption DEF Producers

\* A row of a domain is an item and the place of the row in it.
LEMMA RowParts ==
    ASSUME NEW d, NEW r \in RowsIn(d)
    PROVE  /\ r \in Row /\ r = <<r[1], r[2]>> /\ r[1] \in AllItems /\ r[2] \in Nat \ {0}
           /\ r[2] <= Len(RowsOf[r[1]]) /\ RowsOf[r[1]][r[2]] = d
BY DEF RowsIn, Row, MaxRows

\* Every place in an item is a row of the domain it names.
LEMMA RowAt ==
    ASSUME NEW i \in AllItems, NEW k \in Nat \ {0}, k <= Len(RowsOf[i])
    PROVE  RowsOf[i][k] \in Channels /\ <<i, k>> \in RowsIn(RowsOf[i][k])
<1>1. k \in 1 .. MaxRows /\ k \in 1 .. Len(RowsOf[i])
  <2>1. Len(RowsOf[i]) \in Nat /\ Len(RowsOf[i]) <= MaxRows /\ MaxRows \in Nat
    BY ItemFacts
  <2> QED
    BY <2>1
<1>2. RowsOf[i][k] \in Channels
  BY <1>1, ItemFacts
<1>3. <<i, k>> \in AllItems \X (1 .. MaxRows)
  BY <1>1
<1> QED
  BY <1>2, <1>3 DEF RowsIn

-----------------------------------------------------------------------------
(* The steps of the data: who holds which item and where its rows are *)

data == <<nextItem, itemCh, item, row, buf, chan, counts, inStore>>

\* Batches move towards the stores.
MovesOn ==
    /\ \A d \in Channels : \A r \in RowsIn(d) : InFlight(r, d) => InFlight(r, d)'
    /\ buf' \in [Producers -> [Channels -> Seq(Row)]] /\ chan' \in [Channels -> Seq(Seq(Row))]
    /\ \A p \in Producers, d \in Channels : Range(buf'[p][d]) \subseteq RowsIn(d)
    /\ \A d \in Channels : \A b \in Range(chan'[d]) : Range(b) \subseteq RowsIn(d)

\* What a step counts: nothing, or the one row that is no longer pending.
Counts ==
    \A c \in Channels :
       \/ counts'[c] = counts[c] /\ PendingRows(c)' = PendingRows(c)
       \/ \E r \in PendingRows(c) :
             counts'[c] = counts[c] + 1 /\ PendingRows(c)' = PendingRows(c) \ {r}
DataMoves == DataInv' /\ Counts

\* A flush moves a batch, which may have got one more row, into the channel.
LEMMA ShipMoves ==
    ASSUME DataTypes, NEW p \in Producers, NEW d \in Channels, NEW batch \in Seq(Row),
           Range(buf[p][d]) \subseteq Range(batch), Range(batch) \subseteq RowsIn(d),
           Ship(p, d, batch), UNCHANGED inStore
    PROVE  MovesOn /\ \A r \in Range(batch) : InFlight(r, d)'
<1> USE DEF DataTypes
<1>1. /\ chan'[d] = Append(chan[d], batch) /\ \A c \in Channels : c # d => chan'[c] = chan[c]
      /\ chan' \in [Channels -> Seq(Seq(Row))]
  BY AppendAdds DEF Ship
<1>2. Range(chan'[d]) = Range(chan[d]) \cup {batch}
  <2>1. chan[d] \in Seq(Seq(Row))
    OBVIOUS
  <2> QED
    BY <1>1, <2>1, AppendAdds
<1>3. /\ buf' \in [Producers -> [Channels -> Seq(Row)]] /\ buf'[p][d] = <<>>
      /\ \A q \in Producers, c \in Channels : q # p \/ c # d => buf'[q][c] = buf[q][c]
  BY DEF Ship
<1>4. Range(buf'[p][d]) = {}
  <2>1. buf'[p][d] \in Seq(Row) /\ Len(buf'[p][d]) = 0
    BY <1>3
  <2> QED
    BY <2>1, NoElements
<1>5. \A r \in Range(batch) : InFlight(r, d)'
  BY <1>2 DEF InFlight
<1>6. \A c \in Channels : \A r \in RowsIn(c) : InFlight(r, c) => InFlight(r, c)'
  <2> SUFFICES ASSUME NEW c \in Channels, NEW r \in RowsIn(c), InFlight(r, c)
               PROVE  InFlight(r, c)'
    OBVIOUS
  <2>1. CASE r \in inStore[c]
    BY <2>1 DEF InFlight
  <2>2. CASE \E b \in Range(chan[c]) : r \in Range(b)
    <3>1. Range(chan[c]) \subseteq Range(chan'[c])
      BY Zenon, <1>1, <1>2
    <3> QED
      BY <2>2, <3>1 DEF InFlight
  <2>3. ASSUME NEW q \in Producers, r \in Range(buf[q][c]) PROVE InFlight(r, c)'
    <3>1. CASE q = p /\ c = d
      BY <1>5, <2>3, <3>1
    <3>2. CASE q # p \/ c # d
      BY <1>3, <2>3, <3>2 DEF InFlight
    <3> QED
      BY <3>1, <3>2
  <2> QED
    BY <2>1, <2>2, <2>3 DEF InFlight
<1>7. \A q \in Producers, c \in Channels : Range(buf'[q][c]) \subseteq RowsIn(c)
  BY Zenon, <1>3, <1>4
<1>8. \A c \in Channels : \A b \in Range(chan'[c]) : Range(b) \subseteq RowsIn(c)
  BY Zenon, <1>1, <1>2
<1> QED
  BY <1>1, <1>3, <1>5, <1>6, <1>7, <1>8 DEF MovesOn

\* send puts a row on its way.
LEMMA BufferedMoves ==
    ASSUME DataTypes, NEW p \in Producers, NEW d \in Channels, NEW r \in RowsIn(d),
           Buffered(p, d, r), UNCHANGED inStore
    PROVE  MovesOn /\ InFlight(r, d)'
<1> USE DEF DataTypes
<1> DEFINE batch == Append(buf[p][d], r)
<1>1. r \in Row /\ buf[p][d] \in Seq(Row)
  BY RowParts
<1>2. batch \in Seq(Row) /\ Range(batch) = Range(buf[p][d]) \cup {r}
  BY <1>1, AppendAdds
<1> HIDE DEF batch
<1>3. CASE Len(batch) >= BatchSize
  <2>1. Ship(p, d, batch)
    BY <1>3 DEF Buffered, batch
  <2> QED
    BY Zenon, <1>2, <2>1, ShipMoves
<1>4. CASE ~(Len(batch) >= BatchSize)
  <2>1. chan' = chan /\ buf' = [buf EXCEPT ![p][d] = batch]
    BY <1>4 DEF Buffered, batch
  <2>2. /\ buf' \in [Producers -> [Channels -> Seq(Row)]] /\ buf'[p][d] = batch
        /\ \A q \in Producers, c \in Channels : q # p \/ c # d => buf'[q][c] = buf[q][c]
    BY <1>2, <2>1
  <2>3. \A q \in Producers, c \in Channels :
           Range(buf[q][c]) \subseteq Range(buf'[q][c]) /\ Range(buf'[q][c]) \subseteq RowsIn(c)
    BY Zenon, <1>2, <2>2
  <2>4. InFlight(r, d)'
    BY <1>2, <2>2 DEF InFlight
  <2> QED
    BY Zenon, <2>1, <2>2, <2>3, <2>4 DEF MovesOn, InFlight
<1> QED
  BY <1>3, <1>4

\* A step that counts no row and drops none.
LEMMA QuietStep ==
    ASSUME DataInv, counts' = counts,
           \A c \in Channels : \A s \in RowsIn(c) :
              (Pending(s)' <=> Pending(s)) /\ (InFlight(s, c) => InFlight(s, c)')
    PROVE  NoneLost' /\ Counts
<1>1. NoneLost'
  BY DEF DataInv, NoneLost
<1>2. \A c \in Channels : PendingRows(c)' = PendingRows(c)
  BY DEF PendingRows
<1> QED
  BY <1>1, <1>2 DEF Counts

\* A producer sends a row and counts it.
LEMMA SendCounted ==
    ASSUME DataInv, NEW p \in Producers, NEW d \in Channels, NEW r \in RowsIn(d),
           item[p] = r[1], row[p] = r[2], Buffered(p, d, r),
           row' = [row EXCEPT ![p] = @ + 1], counts' = [counts EXCEPT ![d] = @ + 1],
           UNCHANGED <<nextItem, itemCh, item, inStore>>
    PROVE  DataMoves
<1> USE DEF DataInv, DataTypes
<1>1. r = <<r[1], r[2]>> /\ r[1] \in AllItems /\ r[1] # 0 /\ r[2] \in Nat
  BY RowParts, ItemFacts
<1>2. MovesOn /\ InFlight(r, d)'
  BY BufferedMoves
<1>3. /\ row' \in [Producers -> Nat \ {0}] /\ row'[p] = r[2] + 1
      /\ \A q \in Producers : q # p => row'[q] = row[q]
  BY <1>1
<1>4. /\ counts' \in [Channels -> Nat] /\ counts'[d] = counts[d] + 1
      /\ \A c \in Channels : c # d => counts'[c] = counts[c]
  OBVIOUS
<1>5. DataTypes'
  BY <1>2, <1>3, <1>4 DEF MovesOn
<1>6. Once'
  BY DEF Once, Waiting
<1>7. Pending(r) /\ ~Pending(r)'
  <2>1. ~Waiting(r[1]) /\ ~Waiting(r[1])'
    BY <1>1 DEF Once, Waiting
  <2>2. \A q \in Producers : q # p => item[q] # r[1]
    BY <1>1 DEF Once
  <2>3. ~(row'[p] <= r[2]) /\ row[p] <= r[2]
    BY <1>1, <1>3
  <2> QED
    BY Zenon, <2>1, <2>2, <2>3 DEF Pending
<1>8. ASSUME NEW c \in Channels, NEW s \in RowsIn(c), s # r PROVE Pending(s)' <=> Pending(s)
  <2>1. s = <<s[1], s[2]>> /\ s[2] \in Nat
    BY RowParts
  <2>2. Waiting(s[1])' <=> Waiting(s[1])
    BY DEF Waiting
  <2>3. item[p] = s[1] => s[2] # r[2]
    BY Zenon, <1>1, <1>8, <2>1
  <2>4. item[p] = s[1] => (row'[p] <= s[2] <=> row[p] <= s[2])
    BY <1>1, <1>3, <2>1, <2>3
  <2>5. \A q \in Producers : item[q] = s[1] => (row'[q] <= s[2] <=> row[q] <= s[2])
    BY <1>3, <2>4
  <2> QED
    BY <2>2, <2>5 DEF Pending
<1>9. \A c \in Channels : c # d => r \notin RowsIn(c)
  <2>1. RowsOf[r[1]][r[2]] = d
    BY RowParts
  <2>2. \A c \in Channels : r \in RowsIn(c) => RowsOf[r[1]][r[2]] = c
    BY RowParts
  <2> QED
    BY <2>1, <2>2
<1>10. NoneLost'
  <2> SUFFICES ASSUME NEW c \in Channels, NEW s \in RowsIn(c) PROVE Pending(s)' \/ InFlight(s, c)'
    BY DEF NoneLost
  <2>1. CASE s = r
    BY <1>2, <1>9, <2>1
  <2>2. CASE s # r
    BY <1>2, <1>8, <2>2 DEF NoneLost, MovesOn
  <2> QED
    BY <2>1, <2>2
<1>11. \A c \in Channels : c # d => PendingRows(c)' = PendingRows(c)
  BY <1>8, <1>9 DEF PendingRows
<1>12. PendingRows(d)' = PendingRows(d) \ {r} /\ r \in PendingRows(d)
  BY <1>7, <1>8 DEF PendingRows
<1>13. Counts
  BY Zenon, <1>4, <1>11, <1>12 DEF Counts
<1> QED
  BY <1>5, <1>6, <1>10, <1>13 DEF DataMoves

\* Sending a row leaves the rows of the other items as they were.
LEMMA SendData ==
    ASSUME DataInv, NEW p \in Producers, SendRow(p), UNCHANGED <<nextItem, itemCh>>
    PROVE  DataMoves
<1>1. item[p] \in AllItems /\ row[p] \in Nat \ {0} /\ row[p] <= Len(RowsOf[item[p]])
  BY DEF SendRow, Unsent, DataInv, DataTypes
<1>2. RowDomain(p) \in Channels /\ <<item[p], row[p]>> \in RowsIn(RowDomain(p))
  BY <1>1, RowAt DEF RowDomain
<1>3. PICK r \in RowsIn(RowDomain(p)) : r = <<item[p], row[p]>>
  BY <1>2
<1>4. item[p] = r[1] /\ row[p] = r[2] /\ Buffered(p, RowDomain(p), r)
  BY <1>3 DEF SendRow
<1>5. /\ row' = [row EXCEPT ![p] = @ + 1] /\ counts' = [counts EXCEPT ![RowDomain(p)] = @ + 1]
      /\ UNCHANGED <<nextItem, itemCh, item, inStore>>
  BY DEF SendRow
<1> QED
  BY Zenon, <1>2, <1>4, <1>5, SendCounted

\* A producer lets go of an item whose rows are all sent.
LEMMA ReleaseData ==
    ASSUME DataInv, NEW p \in Producers, Sent(p), Begin(p, 0),
           UNCHANGED <<nextItem, itemCh, buf, chan, counts, inStore>>
    PROVE  DataMoves
<1> USE DEF DataInv, DataTypes
<1>1. /\ item' \in [Producers -> AllItems \cup {0}] /\ row' \in [Producers -> Nat \ {0}]
      /\ item'[p] = 0
      /\ \A q \in Producers : q # p => item'[q] = item[q] /\ row'[q] = row[q]
  BY DEF Begin
<1>2. 0 \notin AllItems
  BY ItemFacts
<1>3. ASSUME NEW c \in Channels, NEW s \in RowsIn(c) PROVE Pending(s)' <=> Pending(s)
  <2>1. s[1] \in AllItems /\ s[2] \in Nat /\ s[2] <= Len(RowsOf[s[1]])
    BY RowParts
  <2>2. item[p] = s[1] => ~(row[p] <= s[2])
    <3>1. row[p] \in Nat /\ (item[p] = s[1] => row[p] > Len(RowsOf[s[1]]))
      BY DEF Sent
    <3>2. Len(RowsOf[s[1]]) \in Nat
      BY <2>1, ItemFacts
    <3> QED
      BY <2>1, <3>1, <3>2
  <2> QED
    BY Zenon, <1>1, <1>2, <2>1, <2>2 DEF Pending, Waiting
<1>4. \A c \in Channels : \A s \in RowsIn(c) : InFlight(s, c) => InFlight(s, c)'
  BY DEF InFlight
<1>5. NoneLost' /\ Counts
  BY <1>3, <1>4, QuietStep
<1>6. Once'
  BY Zenon, <1>1 DEF Once, Waiting
<1>7. DataTypes'
  BY <1>1
<1> QED
  BY <1>5, <1>6, <1>7 DEF DataMoves

\* A producer takes an item that waited, and nothing else stops waiting.
LEMMA TakeData ==
    ASSUME DataInv, NEW p \in Producers, NEW i \in AllItems, item[p] = 0, Begin(p, i), Waiting(i),
           \A j \in AllItems : Waiting(j)' <=> Waiting(j) /\ j # i,
           nextItem' \in Nat \ {0}, itemCh' \in Seq(AllItems), Distinct(itemCh'),
           \A j \in Range(itemCh') : j < nextItem',
           UNCHANGED <<buf, chan, counts, inStore>>
    PROVE  DataMoves
<1> USE DEF DataInv, DataTypes
<1>1. /\ item' \in [Producers -> AllItems \cup {0}] /\ row' \in [Producers -> Nat \ {0}]
      /\ item'[p] = i /\ row'[p] = 1
      /\ \A q \in Producers : q # p => item'[q] = item[q] /\ row'[q] = row[q]
  BY DEF Begin
<1>2. 0 \notin AllItems
  BY ItemFacts
<1>3. ASSUME NEW c \in Channels, NEW s \in RowsIn(c) PROVE Pending(s)' <=> Pending(s)
  <2>1. s[1] \in AllItems /\ s[2] \in Nat /\ 1 <= s[2]
    BY RowParts
  <2> QED
    BY Zenon, <1>1, <1>2, <2>1 DEF Pending
<1>4. \A c \in Channels : \A s \in RowsIn(c) : InFlight(s, c) => InFlight(s, c)'
  BY DEF InFlight
<1>5. NoneLost' /\ Counts
  BY <1>3, <1>4, QuietStep
<1>6. Once'
  <2>1. ASSUME NEW q \in Producers, q # p PROVE item'[q] # i
    <3>1. item[q] = i => ~Waiting(i)
      BY <1>2 DEF Once
    <3> QED
      BY <1>1, <2>1, <3>1
  <2>2. ASSUME NEW q \in Producers PROVE (item[q] # 0 => ~Waiting(item[q]))'
    <3>1. CASE q = p
      BY <1>1, <3>1
    <3>2. CASE q # p
      <4>1. item'[q] = item[q] /\ (item[q] # 0 => item[q] \in AllItems /\ ~Waiting(item[q]))
        BY <1>1, <3>2 DEF Once
      <4> QED
        BY <4>1
    <3> QED
      BY <3>1, <3>2
  <2>3. ASSUME NEW q \in Producers, NEW u \in Producers, q # u, item'[q] = item'[u]
        PROVE  item'[q] = 0
    <3>1. q # p /\ u # p
      BY <1>1, <2>1, <2>3
    <3> QED
      BY <1>1, <2>3, <3>1 DEF Once
  <2> QED
    BY <2>2, <2>3 DEF Once
<1>7. DataTypes'
  BY <1>1
<1> QED
  BY <1>5, <1>6, <1>7 DEF DataMoves

\* flushAll finds a domain to flush.
LEMMA NextFlushed ==
    ASSUME NEW p \in Producers, ~Flushed(p) PROVE NextToFlush(p) \in Channels
<1> DEFINE Full(k) == buf[p][DomainOrder[k]] # <<>>
           First(k) == Full(k) /\ \A j \in 1 .. k - 1 : ~Full(j)
<1>1. Channels = {DomainOrder[k] : k \in 1 .. 4}
  BY DEF Channels, Range, DomainOrder
<1>2. \E k \in 1 .. 4 : Full(k)
  BY <1>1 DEF Flushed
<1>3. \E k \in 1 .. 4 : First(k)
  <2> HIDE DEF Full
  <2>1. Full(1) \/ Full(2) \/ Full(3) \/ Full(4)
    BY <1>2
  <2>2. CASE Full(1)
    BY <2>2
  <2>3. CASE ~Full(1) /\ Full(2)
    BY <2>3
  <2>4. CASE ~Full(1) /\ ~Full(2) /\ Full(3)
    BY <2>4
  <2>5. CASE ~Full(1) /\ ~Full(2) /\ ~Full(3) /\ Full(4)
    BY <2>5
  <2> QED
    BY <2>1, <2>2, <2>3, <2>4, <2>5
<1>4. (CHOOSE k \in 1 .. 4 : First(k)) \in 1 .. 4
  <2> HIDE DEF First
  <2> QED
    BY <1>3
<1>5. NextToFlush(p) = DomainOrder[CHOOSE k \in 1 .. 4 : First(k)]
  BY DEF NextToFlush
<1> HIDE DEF First
<1> QED
  BY Zenon, <1>1, <1>4, <1>5

\* flushAll hands a batch to the channel.
LEMMA FlushData ==
    ASSUME DataInv, NEW p \in Producers, FlushOne(p),
           UNCHANGED <<nextItem, itemCh, item, row, counts, inStore>>
    PROVE  DataMoves
<1> USE DEF DataInv, DataTypes
<1>1. PICK d \in Channels : Ship(p, d, buf[p][d])
  BY NextFlushed DEF FlushOne
<1>2. buf[p][d] \in Seq(Row) /\ Range(buf[p][d]) \subseteq RowsIn(d)
  OBVIOUS
<1>3. MovesOn
  BY <1>1, <1>2, ShipMoves
<1>4. \A c \in Channels : \A s \in RowsIn(c) : Pending(s)' <=> Pending(s)
  BY DEF Pending, Waiting
<1>5. NoneLost' /\ Counts
  BY <1>3, <1>4, QuietStep DEF MovesOn
<1>6. Once'
  BY DEF Once, Waiting
<1>7. DataTypes'
  BY <1>3 DEF MovesOn
<1> QED
  BY <1>5, <1>6, <1>7 DEF DataMoves

\* A writer stores a batch.
LEMMA StoreData ==
    ASSUME DataInv, NEW d \in Channels, WriterDrains(d) PROVE DataMoves
<1> USE DEF DataInv, DataTypes
<1> DEFINE batch == Head(chan[d])
<1>1. /\ chan[d] \in Seq(Seq(Row)) /\ chan[d] # <<>>
      /\ UNCHANGED <<nextItem, itemCh, item, row, buf, counts>>
      /\ inStore' = [inStore EXCEPT ![d] = @ \cup Range(batch)]
      /\ chan' = [chan EXCEPT ![d] = Tail(@)]
  BY DEF WriterDrains, entities
<1>2. batch \in Seq(Row) /\ Tail(chan[d]) \in Seq(Seq(Row))
      /\ Range(chan[d]) = {batch} \cup Range(Tail(chan[d]))
  BY <1>1, HeadAndTail
<1> HIDE DEF batch
<1>3. /\ chan' \in [Channels -> Seq(Seq(Row))] /\ chan'[d] = Tail(chan[d])
      /\ \A c \in Channels : c # d => chan'[c] = chan[c]
  BY <1>1, <1>2
<1>4. Range(batch) \subseteq RowsIn(d) /\ RowsIn(d) \subseteq Row
  BY Zenon, <1>2, RowParts
<1>5. /\ inStore' \in [Channels -> SUBSET Row] /\ inStore'[d] = inStore[d] \cup Range(batch)
      /\ \A c \in Channels : c # d => inStore'[c] = inStore[c]
  BY <1>1, <1>4
<1>6. DataTypes'
  BY <1>1, <1>2, <1>3, <1>4, <1>5
<1>7. ASSUME NEW c \in Channels, NEW s \in RowsIn(c), InFlight(s, c) PROVE InFlight(s, c)'
  BY <1>1, <1>2, <1>3, <1>5, <1>7 DEF InFlight
<1>8. \A c \in Channels : \A s \in RowsIn(c) : Pending(s)' <=> Pending(s)
  BY <1>1 DEF Pending, Waiting
<1>9. NoneLost' /\ Counts
  BY <1>1, <1>7, <1>8, QuietStep
<1>10. Once'
  BY <1>1 DEF Once, Waiting
<1> QED
  BY <1>6, <1>9, <1>10 DEF DataMoves

\* The main goroutine sends an item to the workers.
LEMMA FeedData ==
    ASSUME DataInv, nextItem \in AllItems, itemCh' = Append(itemCh, nextItem),
           nextItem' = nextItem + 1,
           UNCHANGED <<item, row, buf, chan, counts, inStore>>
    PROVE  DataMoves
<1> USE DEF DataInv, DataTypes
<1>1. nextItem \notin Range(itemCh)
  BY DEF Once
<1>2. itemCh' \in Seq(AllItems) /\ Range(itemCh') = Range(itemCh) \cup {nextItem}
        /\ Distinct(itemCh')
  BY <1>1, AppendAdds DEF Once
<1>3. \A i \in AllItems : Waiting(i)' <=> Waiting(i)
  BY <1>2, ItemFacts DEF Waiting
<1>4. \A i \in Range(itemCh') : i < nextItem'
  <2>1. \A i \in Range(itemCh) : i \in Nat /\ i < nextItem
    BY ItemFacts DEF Once, Range
  <2> QED
    BY <1>2, <2>1
<1>5. \A c \in Channels : \A s \in RowsIn(c) :
         (Pending(s)' <=> Pending(s)) /\ (InFlight(s, c) => InFlight(s, c)')
  BY <1>3, RowParts DEF Pending, InFlight
<1>6. NoneLost' /\ Counts
  BY <1>5, QuietStep
<1>7. Once'
  BY Zenon, <1>2, <1>3, <1>4 DEF Once
<1>8. DataTypes'
  BY <1>2
<1> QED
  BY <1>6, <1>7, <1>8 DEF DataMoves

\* A worker receives an item.
LEMMA ReceiveData ==
    ASSUME DataInv, NEW w \in Workers, WorkerReceives(w) PROVE DataMoves
<1> USE DEF DataInv, DataTypes
<1>1. /\ itemCh # <<>> /\ item[w] = 0 /\ Begin(w, Head(itemCh)) /\ itemCh' = Tail(itemCh)
      /\ UNCHANGED <<nextItem, buf, chan, counts, inStore>>
  BY DEF WorkerReceives
<1>2. /\ Head(itemCh) \in AllItems /\ itemCh' \in Seq(AllItems) /\ Distinct(itemCh')
      /\ Range(itemCh) = {Head(itemCh)} \cup Range(itemCh')
      /\ Head(itemCh) \notin Range(itemCh')
  BY <1>1, HeadAndTail DEF Once
<1>3. Waiting(Head(itemCh)) /\ \A i \in Range(itemCh') : i < nextItem'
  BY <1>1, <1>2 DEF Waiting, Once
<1>4. \A i \in AllItems : Waiting(i)' <=> Waiting(i) /\ i # Head(itemCh)
  <2>1. Head(itemCh) < nextItem
    BY <1>2 DEF Once
  <2> QED
    BY <1>1, <1>2, <2>1, ItemFacts DEF Waiting
<1> QED
  BY Zenon, <1>1, <1>2, <1>3, <1>4, ItemFacts, TakeData

\* The main goroutine takes a slot of the spec.
LEMMA DrainData ==
    ASSUME DataInv, item[Main] = 0, nextItem <= Entities + Slots, Begin(Main, nextItem),
           nextItem' = nextItem + 1,
           UNCHANGED <<itemCh, buf, chan, counts, inStore>>
    PROVE  DataMoves
<1> USE DEF DataInv, DataTypes
<1>1. nextItem \in AllItems /\ Main \in Producers
  BY ItemFacts
<1>2. \A i \in Range(itemCh) : i \in Nat /\ i < nextItem
  <2>1. Range(itemCh) \subseteq AllItems
    BY DEF Range
  <2> QED
    BY <2>1, ItemFacts DEF Once
<1>3. \A i \in AllItems : Waiting(i)' <=> Waiting(i) /\ i # nextItem
  BY <1>1, <1>2, ItemFacts DEF Waiting
<1>4. Waiting(nextItem)
  BY <1>1 DEF Waiting
<1>5. /\ nextItem' \in Nat \ {0} /\ itemCh' \in Seq(AllItems) /\ Distinct(itemCh')
      /\ \A i \in Range(itemCh') : i < nextItem'
  BY <1>2 DEF Once
<1> QED
  BY Zenon, <1>1, <1>3, <1>4, <1>5, TakeData

\* Everything else leaves the items and their rows where they are.
LEMMA SameData == ASSUME DataInv, UNCHANGED data PROVE DataMoves
<1> USE DEF DataInv, data
<1>1. \A c \in Channels : \A s \in RowsIn(c) :
         (Pending(s)' <=> Pending(s)) /\ (InFlight(s, c) => InFlight(s, c)')
  BY DEF Pending, Waiting, InFlight
<1>2. NoneLost' /\ Counts
  BY <1>1, QuietStep
<1>3. Once'
  BY DEF Once, Waiting
<1>4. DataTypes'
  BY DEF DataTypes
<1> QED
  BY <1>2, <1>3, <1>4 DEF DataMoves

-----------------------------------------------------------------------------
(* The invariant *)

\* No step loses, repeats or miscounts a row.
LEMMA DataStep == IndInv /\ [ErigonNext]_erigonVars => DataMoves
<1> SUFFICES ASSUME IndInv, [ErigonNext]_erigonVars PROVE DataMoves
  OBVIOUS
<1> USE DEF IndInv, entities, rows, data
<1>a. Main \in Producers /\ Workers \subseteq Producers
  BY ItemFacts
<1>1. CASE MainSends
  <2>1. CASE itemCh' = itemCh /\ nextItem' = nextItem
    BY <1>1, <2>1, SameData DEF MainSends
  <2>2. CASE itemCh' = Append(itemCh, nextItem) /\ nextItem' = nextItem + 1
    <3>1. nextItem \in AllItems
      BY <1>1, ItemFacts, ErigonAssumption DEF MainSends, DataInv, DataTypes
    <3>2. UNCHANGED <<item, row, buf, chan, counts, inStore>>
      BY <1>1 DEF MainSends
    <3> QED
      BY <2>2, <3>1, <3>2, FeedData
  <2> QED
    BY <1>1, <2>1, <2>2 DEF MainSends
<1>2. CASE MainClosesEntities
  BY <1>2, SameData DEF MainClosesEntities
<1>3. CASE MainJoinsEncoders
  BY <1>3, SameData DEF MainJoinsEncoders, EncodeWait
<1>4. CASE MainDrains
  <2>1. CASE SendRow(Main) /\ UNCHANGED nextItem
    BY <1>4, <1>a, <2>1, SendData DEF MainDrains
  <2>2. CASE Sent(Main) /\ Begin(Main, 0) /\ UNCHANGED <<nextItem, buf, chan, counts, inStore>>
    BY <1>4, <1>a, <2>2, ReleaseData DEF MainDrains
  <2>3. CASE /\ item[Main] = 0 /\ nextItem <= Entities + Slots /\ Begin(Main, nextItem)
             /\ nextItem' = nextItem + 1
             /\ UNCHANGED <<buf, chan, counts, inStore>>
    BY <1>4, <2>3, DrainData DEF MainDrains
  <2>4. CASE UNCHANGED <<nextItem, rows>>
    BY <1>4, <2>4, SameData DEF MainDrains
  <2> QED
    BY <1>4, <2>1, <2>2, <2>3, <2>4 DEF MainDrains
<1>5. CASE MainFlushes
  <2>1. CASE FlushOne(Main)
    BY <1>5, <1>a, <2>1, FlushData DEF MainFlushes
  <2>2. CASE UNCHANGED <<buf, chan>>
    BY <1>5, <2>2, SameData DEF MainFlushes
  <2> QED
    BY <1>5, <2>1, <2>2 DEF MainFlushes
<1>6. CASE MainClosesChannels
  BY <1>6, SameData DEF MainClosesChannels
<1>7. CASE MainJoinsWriters
  BY <1>7, SameData DEF MainJoinsWriters, Return, Surfaced
<1>8. CASE MainFolds
  BY <1>8, SameData DEF MainFolds, Return
<1>9. CASE MainFinishes
  BY <1>9, SameData DEF MainFinishes, Return, EmitWait
<1>10. ASSUME NEW w \in Workers, WorkerEncodes(w) PROVE DataMoves
  <2>1. CASE SendRow(w)
    BY <1>10, <1>a, <2>1, SendData DEF WorkerEncodes
  <2>2. CASE Sent(w) /\ Begin(w, 0) /\ UNCHANGED <<buf, chan, counts, inStore>>
    BY <1>10, <1>a, <2>2, ReleaseData DEF WorkerEncodes
  <2> QED
    BY <1>10, <2>1, <2>2 DEF WorkerEncodes
<1>11. ASSUME NEW w \in Workers, WorkerReceives(w) PROVE DataMoves
  BY <1>11, ReceiveData
<1>12. ASSUME NEW w \in Workers, WorkerSeesClose(w) PROVE DataMoves
  BY <1>12, SameData DEF WorkerSeesClose
<1>13. ASSUME NEW w \in Workers, WorkerFlushes(w) PROVE DataMoves
  <2>1. CASE FlushOne(w)
    BY <1>13, <1>a, <2>1, FlushData DEF WorkerFlushes
  <2>2. CASE UNCHANGED <<buf, chan>>
    BY <1>13, <2>2, SameData DEF WorkerFlushes
  <2> QED
    BY <1>13, <2>1, <2>2 DEF WorkerFlushes
<1>14. ASSUME NEW w \in Workers, WorkerFails(w) PROVE DataMoves
  BY <1>14, SameData DEF WorkerFails
<1>15. ASSUME NEW d \in Channels, WriterDrains(d) PROVE DataMoves
  BY <1>15, StoreData
<1>16. ASSUME NEW d \in Channels, WriterSeesClose(d) PROVE DataMoves
  BY <1>16, SameData DEF WriterSeesClose
<1>17. ASSUME NEW d \in Channels, WriterFails(d) PROVE DataMoves
  BY SMTT(30), <1>17, SameData DEF WriterFails
<1>18. ASSUME NEW d \in Domains, EmitterStep(d) PROVE DataMoves
  BY <1>18, SameData DEF EmitterStep, EmitterReads, EmitterIndexes, EmitterFails,
      KeyCountMatches
<1>19. CASE CallerCancels
  BY <1>19, SameData DEF CallerCancels
<1>20. CASE UNCHANGED erigonVars
  BY <1>20, SameData DEF erigonVars
<1> QED
  BY <1>1, <1>2, <1>3, <1>4, <1>5, <1>6, <1>7, <1>8, <1>9, <1>10, <1>11, <1>12, <1>13,
     <1>14, <1>15, <1>16, <1>17, <1>18, <1>19, <1>20
  DEF ErigonNext, ErigonRuns, MainStep, WorkerStep, WriterStep, EmitterStep

\* The control state keeps its type.
LEMMA ControlStep == IndInv /\ [ErigonNext]_erigonVars => ControlTypes'
<1> SUFFICES ASSUME IndInv, [ErigonNext]_erigonVars PROVE ControlTypes'
  OBVIOUS
<1> USE DEF IndInv, ControlTypes, entities, rows, errs, out
<1>1. CASE MainSends
  BY Zenon, <1>1 DEF MainSends
<1>2. CASE MainClosesEntities
  BY <1>2 DEF MainClosesEntities
<1>3. CASE MainJoinsEncoders
  BY <1>3 DEF MainJoinsEncoders, EncodeWait
<1>4. CASE MainDrains
  BY Zenon, <1>4 DEF MainDrains, SendRow, Begin
<1>5. CASE MainFlushes
  BY Zenon, <1>5 DEF MainFlushes, FlushOne, Ship
<1>6. CASE MainClosesChannels
  BY <1>6 DEF MainClosesChannels
<1>7. CASE MainJoinsWriters
  BY <1>7 DEF MainJoinsWriters, Return, Surfaced
<1>8. CASE MainFolds
  BY <1>8 DEF MainFolds, Return
<1>9. CASE MainFinishes
  BY <1>9 DEF MainFinishes, Return, EmitWait
<1>10. ASSUME NEW w \in Workers, WorkerEncodes(w) PROVE ControlTypes'
  BY <1>10 DEF WorkerEncodes, SendRow, Begin
<1>11. ASSUME NEW w \in Workers, WorkerReceives(w) PROVE ControlTypes'
  BY <1>11 DEF WorkerReceives, Begin
<1>12. ASSUME NEW w \in Workers, WorkerSeesClose(w) PROVE ControlTypes'
  BY <1>12 DEF WorkerSeesClose
<1>13. ASSUME NEW w \in Workers, WorkerFlushes(w) PROVE ControlTypes'
  BY <1>13 DEF WorkerFlushes, FlushOne, Ship
<1>14. ASSUME NEW w \in Workers, WorkerFails(w) PROVE ControlTypes'
  BY <1>14 DEF WorkerFails
<1>15. ASSUME NEW d \in Channels, WriterStep(d) PROVE ControlTypes'
  <2>1. CASE WriterDrains(d)
    BY <2>1 DEF WriterDrains
  <2>2. CASE WriterSeesClose(d)
    BY ZenonT(30), <2>2 DEF WriterSeesClose
  <2>3. CASE WriterFails(d)
    BY Zenon, <2>3 DEF WriterFails
  <2> QED
    BY <1>15, <2>1, <2>2, <2>3 DEF WriterStep
<1>16. ASSUME NEW d \in Domains, EmitterReads(d) PROVE ControlTypes'
  <2>1. inStore[d] \subseteq Row
    BY ChannelFacts DEF DataInv, DataTypes
  <2>2. kv' \in [Domains -> SUBSET Row]
    BY <1>16, <2>1 DEF EmitterReads
  <2> QED
    BY <1>16, <2>2 DEF EmitterReads
<1>17. ASSUME NEW d \in Domains, EmitterIndexes(d) PROVE ControlTypes'
  BY <1>17 DEF EmitterIndexes, KeyCountMatches
<1>18. ASSUME NEW d \in Domains, EmitterFails(d) PROVE ControlTypes'
  BY <1>18 DEF EmitterFails
<1>19. CASE CallerCancels
  BY <1>19 DEF CallerCancels
<1>20. CASE UNCHANGED erigonVars
  BY <1>20 DEF erigonVars
<1> QED
  BY Zenon, <1>1, <1>2, <1>3, <1>4, <1>5, <1>6, <1>7, <1>8, <1>9, <1>10, <1>11, <1>12, <1>13,
     <1>14, <1>15, <1>16, <1>17, <1>18, <1>19, <1>20
  DEF ErigonNext, ErigonRuns, MainStep, WorkerStep, WriterStep, EmitterStep

\* A sender touches no batch but its own.
LEMMA OthersKeep ==
    ASSUME DataTypes, NEW p \in Producers,
           FlushOne(p) \/ (\E d, r : Buffered(p, d, r)) \/ UNCHANGED buf
    PROVE  \A q \in Producers : q # p => buf'[q] = buf[q]
<1> USE DEF DataTypes
<1>1. ASSUME NEW d, NEW b, Ship(p, d, b) PROVE \A q \in Producers : q # p => buf'[q] = buf[q]
  BY <1>1 DEF Ship
<1>2. CASE FlushOne(p)
  BY <1>1, <1>2 DEF FlushOne
<1>3. ASSUME NEW d, NEW r, Buffered(p, d, r) PROVE \A q \in Producers : q # p => buf'[q] = buf[q]
  BY <1>1, <1>3 DEF Buffered
<1> QED
  BY <1>2, <1>3

\* No goroutine ends with work in its hands, unless it reports an error.
LEMMA EndedStep == IndInv /\ [ErigonNext]_erigonVars => Ended'
<1> SUFFICES ASSUME IndInv, [ErigonNext]_erigonVars PROVE Ended'
  OBVIOUS
<1> USE DEF IndInv, ControlTypes, Ended, Drained, Closed, Flushed, entities, rows, errs, out
<1>a. Main \in Producers /\ Main \notin Workers /\ Workers \subseteq Producers
      /\ item \in [Producers -> AllItems \cup {0}] /\ nextItem \in Nat
      /\ Entities \in Nat /\ Slots \in Nat
      /\ buf \in [Producers -> [Channels -> Seq(Row)]]
  BY SMTT(30), ItemFacts, ErigonAssumption DEF DataInv, DataTypes
<1>1. CASE MainSends
  BY SMTT(30), <1>1, <1>a DEF MainSends
<1>2. CASE MainClosesEntities
  BY SMTT(30), <1>2, <1>a DEF MainClosesEntities
<1>3. CASE MainJoinsEncoders
  BY SMTT(30), <1>3, <1>a DEF MainJoinsEncoders, EncodeWait
<1>4. CASE MainDrains
  <2>1. /\ main = "drain" /\ main' \in {"drain", "close", "flush"}
        /\ UNCHANGED <<itemCh, itemsClosed, worker, writer, chanClosed, encodeErr, domainErr>>
    BY Zenon, <1>4 DEF MainDrains, SendRow
  <2>2. \A w \in Workers : item'[w] = item[w] /\ buf'[w] = buf[w]
    BY ZenonT(30), <1>4, <1>a, OthersKeep DEF MainDrains, SendRow, Begin, DataInv
  <2>3. nextItem' \in Nat /\ nextItem <= nextItem' /\ (pipelineErr => pipelineErr')
    <3>1. nextItem' \in {nextItem, nextItem + 1}
      BY <1>4 DEF MainDrains
    <3>2. pipelineErr => pipelineErr'
      BY Zenon, <1>4 DEF MainDrains
    <3>3. nextItem \in Nat
      BY <1>a
    <3>4. nextItem' \in Nat /\ nextItem <= nextItem'
      BY SMTT(30), <3>1, <3>3
    <3> QED
      BY Zenon, <3>2, <3>4
  <2>4. main' = "close" => pipelineErr'
    BY <1>4 DEF MainDrains
  <2>5. main' = "flush" => nextItem' > Entities + Slots /\ item'[Main] = 0
    BY ZenonT(30), <1>4, <1>a DEF MainDrains
  <2> QED
    BY <1>a, <2>1, <2>2, <2>3, <2>4, <2>5
<1>5. CASE MainFlushes
  <2>1. /\ main = "flush" /\ main' \in {"flush", "close"} /\ (pipelineErr => pipelineErr')
        /\ UNCHANGED <<entities, item, worker, writer, chanClosed, encodeErr, domainErr>>
    BY Zenon, <1>5 DEF MainFlushes
  <2>2. \A w \in Workers : buf'[w] = buf[w]
    BY Zenon, <1>5, <1>a, OthersKeep DEF MainFlushes, DataInv
  <2>3. main' = "close" => pipelineErr' \/ (Flushed(Main) /\ buf' = buf)
    BY Zenon, <1>5 DEF MainFlushes
  <2> QED
    BY <1>a, <2>1, <2>2, <2>3
<1>6. CASE MainClosesChannels
  BY SMTT(30), <1>6, <1>a DEF MainClosesChannels
<1>7. CASE MainJoinsWriters
  <2>1. /\ main = "join" /\ main' \in {"fold", "returned"}
        /\ UNCHANGED <<entities, rows, encodeErr, domainErr, pipelineErr>>
    BY Zenon, <1>7 DEF MainJoinsWriters, Return
  <2> QED
    BY <1>a, <2>1
<1>8. CASE MainFolds
  BY Zenon, <1>8, <1>a DEF MainFolds, Return
<1>9. CASE MainFinishes
  <2>1. /\ main = "wait" /\ main' = "returned"
        /\ UNCHANGED <<entities, rows, encodeErr, domainErr, pipelineErr>>
    BY ZenonT(30), <1>9 DEF MainFinishes, Return
  <2> QED
    BY <1>a, <2>1
<1>10. ASSUME NEW w \in Workers, WorkerEncodes(w) PROVE Ended'
  <2>1. /\ worker[w] = "run" /\ main = "send"
        /\ UNCHANGED <<main, entities, worker, writer, chanClosed, encodeErr, domainErr,
             pipelineErr>>
    BY Zenon, <1>10 DEF WorkerEncodes, SendRow
  <2>2. \A p \in Producers : p # w => item'[p] = item[p] /\ buf'[p] = buf[p]
    <3>1. \A p \in Producers : p # w => buf'[p] = buf[p]
      BY Zenon, <1>10, <1>a, OthersKeep DEF WorkerEncodes, SendRow, DataInv
    <3>2. \A p \in Producers : p # w => item'[p] = item[p]
      BY Zenon, <1>10, <1>a DEF WorkerEncodes, SendRow, Begin
    <3> QED
      BY Zenon, <3>1, <3>2
  <2>3. \A v \in Workers : worker[v] # "run" => v # w /\ item'[v] = item[v] /\ buf'[v] = buf[v]
    BY Zenon, <2>1, <2>2 DEF Producers
  <2>4. ~chanClosed /\ \A d \in Channels : writer[d] = "done" => domainErr
    BY <2>1
  <2>5. \A v \in Workers : worker'[v] = "done" => encodeErr' \/ Flushed(v)'
    BY <2>1, <2>3
  <2>6. \A v \in Workers : worker'[v] # "run" =>
           encodeErr' \/ (itemsClosed' /\ itemCh' = <<>> /\ item'[v] = 0)
    BY SMTT(30), <2>1, <2>3
  <2> QED
    BY SMTT(30), <2>1, <2>4, <2>5, <2>6
<1>11. ASSUME NEW w \in Workers, WorkerReceives(w) PROVE Ended'
  BY SMTT(30), <1>11, <1>a DEF WorkerReceives, Begin
<1>12. ASSUME NEW w \in Workers, WorkerSeesClose(w) PROVE Ended'
  BY SMTT(30), <1>12, <1>a DEF WorkerSeesClose
<1>13. ASSUME NEW w \in Workers, WorkerFlushes(w) PROVE Ended'
  <2>1. /\ worker[w] = "flush" /\ main = "send"
        /\ UNCHANGED <<main, entities, item, writer, chanClosed, encodeErr, domainErr,
             pipelineErr>>
    BY Zenon, <1>13 DEF WorkerFlushes
  <2>2. \A p \in Producers : p # w => buf'[p] = buf[p]
    BY ZenonT(30), <1>13, <1>a, OthersKeep DEF WorkerFlushes, DataInv
  <2>3. /\ \A v \in Workers : v # w => worker'[v] = worker[v]
        /\ worker'[w] \in {"flush", "done"} /\ (worker'[w] = "done" => Flushed(w) /\ buf' = buf)
    BY SMTT(30), <1>13 DEF WorkerFlushes
  <2> QED
    BY <1>a, <2>1, <2>2, <2>3
<1>14. ASSUME NEW w \in Workers, WorkerFails(w) PROVE Ended'
  BY Zenon, <1>14, <1>a DEF WorkerFails
<1>15. ASSUME NEW d \in Channels, WriterDrains(d) PROVE Ended'
  BY SMTT(30), <1>15, <1>a DEF WriterDrains
<1>16. ASSUME NEW d \in Channels, WriterSeesClose(d) PROVE Ended'
  BY SMTT(30), <1>16, <1>a DEF WriterSeesClose
<1>17. ASSUME NEW d \in Channels, WriterFails(d) PROVE Ended'
  BY SMTT(30), <1>17, <1>a DEF WriterFails
<1>18. ASSUME NEW d \in Domains, EmitterReads(d) PROVE Ended'
  BY SMTT(30), <1>18, <1>a DEF EmitterReads
<1>19. ASSUME NEW d \in Domains, EmitterIndexes(d) PROVE Ended'
  BY SMTT(30), <1>19, <1>a DEF EmitterIndexes, KeyCountMatches
<1>20. ASSUME NEW d \in Domains, EmitterFails(d) PROVE Ended'
  BY SMTT(30), <1>20, <1>a DEF EmitterFails
<1>21. CASE CallerCancels
  BY SMTT(30), <1>21, <1>a DEF CallerCancels
<1>22. CASE UNCHANGED erigonVars
  BY <1>22 DEF erigonVars
<1> QED
  BY ZenonT(30), <1>1, <1>2, <1>3, <1>4, <1>5, <1>6, <1>7, <1>8, <1>9, <1>10, <1>11, <1>12, <1>13,
     <1>14, <1>15, <1>16, <1>17, <1>18, <1>19, <1>20, <1>21, <1>22
  DEF ErigonNext, ErigonRuns, MainStep, WorkerStep, WriterStep, EmitterStep

\* Once the writers were joined without an error, every row is in its store
\* and none is pending.
LEMMA SettledFacts ==
    ASSUME IndInv, Settled, NEW d \in Channels
    PROVE  inStore[d] = RowsIn(d) /\ PendingRows(d) = {}
<1> USE DEF IndInv, DataInv, Settled, Clean, Closed, Ended, Drained
<1>1. /\ itemCh = <<>> \/ Workers = {}
      /\ \A p \in Producers : item[p] = 0 /\ buf[p][d] = <<>>
  BY DEF Producers, Flushed
<1>2. itemCh = <<>> /\ chan[d] = <<>>
  BY <1>1, PoolAssumption
<1>3. (\A x \in Range(itemCh) : FALSE) /\ (\A x \in Range(chan[d]) : FALSE)
  <2>1. itemCh \in Seq(AllItems) /\ Len(itemCh) = 0 /\ chan[d] \in Seq(Seq(Row))
          /\ Len(chan[d]) = 0
    BY <1>2 DEF DataTypes
  <2> QED
    BY <2>1, NoElements
<1>4. \A p \in Producers : \A x \in Range(buf[p][d]) : FALSE
  <2>1. \A p \in Producers : buf[p][d] \in Seq(Row) /\ Len(buf[p][d]) = 0
    BY <1>1 DEF DataTypes
  <2> QED
    BY <2>1, NoElements
<1>5. nextItem > Entities + Slots
  OBVIOUS
<1>6. \A r \in RowsIn(d) : ~Pending(r)
  <2> SUFFICES ASSUME NEW r \in RowsIn(d) PROVE ~Pending(r)
    OBVIOUS
  <2>1. r[1] \in AllItems /\ r[1] # 0 /\ r[1] < nextItem
    BY <1>5, RowParts, ItemFacts DEF DataTypes
  <2> QED
    BY <1>1, <1>3, <2>1, ItemFacts DEF Pending, Waiting, DataTypes
<1>7. inStore[d] = RowsIn(d)
  BY Zenon, <1>3, <1>4, <1>6 DEF NoneLost, InFlight, DataTypes
<1>8. PendingRows(d) = {}
  BY Zenon, <1>6 DEF PendingRows
<1> QED
  BY <1>7, <1>8

\* No emitter starts before the stores are final, and none indexes a file that is not whole.
LEMMA EmittingStep == IndInv /\ [ErigonNext]_erigonVars => Emitting'
<1> SUFFICES ASSUME IndInv, [ErigonNext]_erigonVars PROVE Emitting'
  OBVIOUS
<1> USE DEF IndInv, ControlTypes, Ended, Emitting, Settled, Closed, Clean, EmitWait, entities,
    rows, errs, out
<1>a. Domains \subseteq Channels
  BY Zenon, ChannelFacts
<1>1. CASE MainSends
  BY ZenonT(30), <1>1, <1>a DEF MainSends
<1>2. CASE MainClosesEntities
  BY SMTT(30), <1>2, <1>a DEF MainClosesEntities
<1>3. CASE MainJoinsEncoders
  BY <1>3, <1>a DEF MainJoinsEncoders, EncodeWait
<1>4. CASE MainDrains
  BY Zenon, <1>4, <1>a DEF MainDrains, SendRow, Begin
<1>5. CASE MainFlushes
  BY SMTT(30), <1>5, <1>a DEF MainFlushes, FlushOne, Ship
<1>6. CASE MainClosesChannels
  BY <1>6, <1>a DEF MainClosesChannels
<1>7. CASE MainJoinsWriters
  <2>1. main = "join" /\ \A e \in Domains : emit[e] = "off" /\ ~indexed[e]
    BY <1>7 DEF MainJoinsWriters
  <2>2. UNCHANGED <<rows, encodeErr, domainErr, pipelineErr, kv, indexed, emitErr, folded>>
    BY Zenon, <1>7 DEF MainJoinsWriters, Return
  <2>3. CASE main' = "returned" /\ outcome' = "err" /\ UNCHANGED emit
    BY ZenonT(30), <2>1, <2>2, <2>3
  <2>4. CASE /\ ~Surfaced /\ main' = "fold" /\ emit' = [e \in Domains |-> "run"]
             /\ UNCHANGED outcome
    <3>1. Settled'
      BY <1>7, <2>2, <2>4 DEF Surfaced, MainJoinsWriters
    <3> QED
      BY ZenonT(30), <2>1, <2>2, <2>4, <3>1
  <2> QED
    BY ZenonT(30), <1>7, <2>3, <2>4 DEF MainJoinsWriters, Return
<1>8. CASE MainFolds
  <2>1. main = "fold" /\ Settled /\ outcome = "none"
    BY <1>8 DEF MainFolds
  <2>2. inStore["commitIn"] = RowsIn("commitIn")
    BY Zenon, <2>1, SettledFacts, ChannelFacts
  <2>3. UNCHANGED <<rows, encodeErr, domainErr, pipelineErr, kv, indexed, emitErr, emit>>
    BY ZenonT(30), <1>8 DEF MainFolds, Return
  <2>4. CASE main' = "wait" /\ folded' = inStore["commitIn"] /\ UNCHANGED outcome
    BY SMTT(30), <2>1, <2>2, <2>3, <2>4
  <2>5. CASE main' = "returned" /\ outcome' = "err" /\ UNCHANGED folded
    BY SMTT(30), <2>1, <2>3, <2>5
  <2> QED
    BY ZenonT(30), <1>8, <2>4, <2>5 DEF MainFolds, Return
<1>9. CASE MainFinishes
  <2>1. main = "wait" /\ Settled /\ EmitWait /\ folded = RowsIn("commitIn")
    BY <1>9 DEF MainFinishes
  <2>2. /\ UNCHANGED <<rows, encodeErr, domainErr, pipelineErr, kv, indexed, emitErr, emit,
             folded>>
        /\ main' = "returned" /\ (outcome' = "err" \/ (outcome' = "ok" /\ ~emitErr))
    BY Zenon, <1>9 DEF MainFinishes, Return
  <2> QED
    BY <2>1, <2>2
<1>10. ASSUME NEW w \in Workers, WorkerStep(w) PROVE Emitting'
  BY ZenonT(30), <1>10, <1>a DEF WorkerStep, WorkerEncodes, WorkerReceives, WorkerSeesClose,
      WorkerFlushes, WorkerFails, SendRow, Begin, FlushOne, Ship
<1>11. ASSUME NEW d \in Channels, WriterStep(d) PROVE Emitting'
  BY <1>11, <1>a DEF WriterStep, WriterDrains, WriterSeesClose, WriterFails
<1>12. ASSUME NEW d \in Domains, EmitterReads(d) PROVE Emitting'
  <2>1. Settled /\ emit[d] = "run" /\ ~indexed[d] /\ outcome # "ok"
    BY Zenon, <1>12 DEF EmitterReads
  <2>2. inStore[d] \subseteq RowsIn(d)
    BY SMTT(30), <1>a DEF DataInv, DataTypes
  <2>3. /\ kv'[d] \subseteq RowsIn(d) /\ emit'[d] = "check"
        /\ \A e \in Domains : e # d => kv'[e] = kv[e] /\ emit'[e] = emit[e]
    BY SMTT(30), <1>12, <2>2 DEF EmitterReads
  <2>4. UNCHANGED <<main, rows, encodeErr, domainErr, pipelineErr, indexed, emitErr, folded,
          outcome>>
    BY SMTT(30), <1>12 DEF EmitterReads
  <2> QED
    BY Zenon, <2>1, <2>3, <2>4
<1>13. ASSUME NEW d \in Domains, EmitterIndexes(d) PROVE Emitting'
  <2>1. Settled /\ emit[d] = "check" /\ outcome # "ok"
    BY SMTT(30), <1>13 DEF EmitterIndexes
  <2>2. /\ indexed'[d] /\ emit'[d] = "done"
        /\ \A e \in Domains : e # d => indexed'[e] = indexed[e] /\ emit'[e] = emit[e]
    BY SMTT(30), <1>13 DEF EmitterIndexes
  <2>3. UNCHANGED <<main, rows, encodeErr, domainErr, pipelineErr, kv, emitErr, folded, outcome>>
    BY SMTT(30), <1>13 DEF EmitterIndexes
  <2> QED
    BY SMTT(30), <2>1, <2>2, <2>3
<1>14. ASSUME NEW d \in Domains, EmitterFails(d) PROVE Emitting'
  BY SMTT(30), <1>14, <1>a DEF EmitterFails
<1>15. CASE CallerCancels
  BY SMTT(30), <1>15, <1>a DEF CallerCancels
<1>16. CASE UNCHANGED erigonVars
  BY <1>16 DEF erigonVars
<1> QED
  BY Zenon, <1>1, <1>2, <1>3, <1>4, <1>5, <1>6, <1>7, <1>8, <1>9, <1>10, <1>11, <1>12, <1>13,
     <1>14, <1>15, <1>16
  DEF ErigonNext, ErigonRuns, MainStep, WorkerStep, WriterStep, EmitterStep

\* The initial state satisfies the invariant.
LEMMA InitInv == ErigonInit => IndInv
<1> SUFFICES ASSUME ErigonInit PROVE IndInv
  OBVIOUS
<1> USE DEF ErigonInit
<1>1. ControlTypes
  BY Zenon DEF ControlTypes
<1>2. Ended
  BY DEF Ended, Drained, Closed
<1>3. Emitting
  BY DEF Emitting
<1>4. DataInv
  <2>1. /\ nextItem = 1 /\ itemCh \in Seq(AllItems) /\ Len(itemCh) = 0
        /\ item \in [Producers -> AllItems \cup {0}] /\ row \in [Producers -> Nat \ {0}]
    OBVIOUS
  <2>2. buf \in [Producers -> [Channels -> Seq(Row)]] /\ chan \in [Channels -> Seq(Seq(Row))]
    OBVIOUS
  <2>3. counts \in [Channels -> Nat] /\ inStore \in [Channels -> SUBSET Row]
    OBVIOUS
  <2>4. \A p \in Producers, d \in Channels : Range(buf[p][d]) = {}
    <3>1. \A p \in Producers, d \in Channels : buf[p][d] \in Seq(Row) /\ Len(buf[p][d]) = 0
      OBVIOUS
    <3> QED
      BY Zenon, <3>1, NoElements
  <2>5. \A d \in Channels : Range(chan[d]) = {}
    <3>1. \A d \in Channels : chan[d] \in Seq(Seq(Row)) /\ Len(chan[d]) = 0
      OBVIOUS
    <3> QED
      BY Zenon, <3>1, NoElements
  <2>6. Range(itemCh) = {} /\ Distinct(itemCh)
    <3>1. 1 .. Len(itemCh) = {}
      BY <2>1
    <3>2. Range(itemCh) = {}
      BY Zenon, <2>1, NoElements
    <3> QED
      BY <3>1, <3>2 DEF Distinct
  <2>7. DataTypes
    BY <2>1, <2>2, <2>3, <2>4, <2>5 DEF DataTypes
  <2>8. Once
    BY <2>6 DEF Once
  <2>9. \A d \in Channels : \A r \in RowsIn(d) : Pending(r)
    BY RowParts, ItemFacts DEF Pending, Waiting
  <2> QED
    BY <2>7, <2>8, <2>9 DEF DataInv, NoneLost
<1> QED
  BY <1>1, <1>2, <1>3, <1>4 DEF IndInv

\* The invariant holds in every reachable state.
LEMMA Inductive == ErigonSpec => []IndInv
<1>1. IndInv /\ [ErigonNext]_erigonVars => IndInv'
  BY ControlStep, DataStep, EndedStep, EmittingStep DEF IndInv, DataMoves
<1> QED
  BY <1>1, InitInv, PTL DEF ErigonSpec

\* Channels are closed only after the last worker has returned.
THEOREM ErigonNoSendAfterClose == ErigonSpec => []NoSendAfterClose
<1>1. IndInv => NoSendAfterClose
  BY Zenon DEF IndInv, Ended, Closed, NoSendAfterClose
<1> QED
  BY <1>1, Inductive, PTL

-----------------------------------------------------------------------------
(* Counting *)


\* The rows of a domain are finitely many.
LEMMA FiniteRows == ASSUME NEW d PROVE IsFiniteSet(RowsIn(d)) /\ Cardinality(RowsIn(d)) \in Nat
<1>1. IsFiniteSet(AllItems)
  BY ErigonAssumption, FS_Interval DEF AllItems
<1>2. IsFiniteSet(1 .. MaxRows)
  <2>1. 1 \in Int /\ MaxRows \in Int
    BY DEF MaxRows
  <2> QED
    BY <2>1, FS_Interval
<1>3. IsFiniteSet(AllItems \X (1 .. MaxRows))
  BY Zenon, <1>1, <1>2, FS_Product
<1>4. RowsIn(d) \subseteq AllItems \X (1 .. MaxRows)
  BY DEF RowsIn
<1> QED
  BY <1>3, <1>4, FS_Subset, FS_CardinalityType

\* The rows pending are finitely many too.
LEMMA FinitePending ==
    ASSUME NEW d PROVE IsFiniteSet(PendingRows(d)) /\ Cardinality(PendingRows(d)) \in Nat
BY FiniteRows, FS_Subset, FS_CardinalityType DEF PendingRows

\* At first every row is pending and none is counted.
LEMMA InitCounting == ErigonInit => Counting
<1> SUFFICES ASSUME ErigonInit PROVE Counting
  OBVIOUS
<1>1. ASSUME NEW d \in Channels PROVE PendingRows(d) = RowsIn(d) /\ counts[d] = 0
  BY SMTT(30), RowParts, ItemFacts DEF ErigonInit, PendingRows, Pending, Waiting
<1> QED
  BY <1>1, FiniteRows DEF Counting

\* The count and the rows pending move together.
LEMMA CountingStep == IndInv /\ Counting /\ [ErigonNext]_erigonVars => Counting'
<1> SUFFICES ASSUME IndInv, Counting, [ErigonNext]_erigonVars, NEW d \in Channels
             PROVE  (counts[d] + Cardinality(PendingRows(d)) = Cardinality(RowsIn(d)))'
  BY DEF Counting
<1>1. Counts
  BY DataStep DEF DataMoves
<1>2. counts[d] \in Nat /\ counts[d] + Cardinality(PendingRows(d)) = Cardinality(RowsIn(d))
  BY DEF IndInv, DataInv, DataTypes, Counting
<1>3. CASE counts'[d] = counts[d] /\ PendingRows(d)' = PendingRows(d)
  BY <1>2, <1>3
<1>4. ASSUME NEW r \in PendingRows(d), counts'[d] = counts[d] + 1,
             PendingRows(d)' = PendingRows(d) \ {r}
      PROVE  (counts[d] + Cardinality(PendingRows(d)) = Cardinality(RowsIn(d)))'
  <2>1. Cardinality(PendingRows(d)) \in Nat
        /\ Cardinality(PendingRows(d) \ {r}) = Cardinality(PendingRows(d)) - 1
    BY SMTT(30), FinitePending, FS_RemoveElement
  <2> QED
    BY <1>2, <1>4, <2>1
<1> QED
  BY <1>1, <1>3, <1>4 DEF Counts

\* An emitter indexes only a whole domain: all rows were counted before.
LEMMA IndexedStep ==
    IndInv /\ Counting /\ IndexedIsWhole /\ [ErigonNext]_erigonVars => IndexedIsWhole'
<1> SUFFICES ASSUME IndInv, Counting, IndexedIsWhole, [ErigonNext]_erigonVars,
                    NEW d \in Domains, indexed'[d]
             PROVE  kv'[d] = RowsIn(d)
  BY DEF IndexedIsWhole
<1>1. d \in Channels
  BY ChannelFacts
<1>2. CASE indexed[d]
  <2>1. emit[d] = "done" /\ kv[d] = RowsIn(d)
    BY <1>2 DEF IndInv, Emitting, IndexedIsWhole
  <2>2. kv'[d] = kv[d]
    BY Zenon, <2>1 DEF IndInv, ControlTypes, ErigonNext, ErigonRuns, MainStep, WorkerStep,
        WriterStep, EmitterStep,
        MainSends, MainClosesEntities, MainJoinsEncoders, MainDrains, MainFlushes,
        MainClosesChannels, MainJoinsWriters, MainFolds, MainFinishes, Return,
        WorkerEncodes, WorkerReceives,
        WorkerSeesClose, WorkerFlushes, WorkerFails, WriterDrains, WriterSeesClose, WriterFails,
        EmitterReads, EmitterIndexes, EmitterFails, CallerCancels, erigonVars, out
  <2> QED
    BY <2>1, <2>2
<1>3. CASE ~indexed[d]
  <2>1. EmitterIndexes(d)
    BY Zenon, <1>3 DEF IndInv, ControlTypes, ErigonNext, ErigonRuns, MainStep, WorkerStep,
        WriterStep, EmitterStep,
        MainSends, MainClosesEntities, MainJoinsEncoders, MainDrains, MainFlushes,
        MainClosesChannels, MainJoinsWriters, MainFolds, MainFinishes, Return,
        WorkerEncodes, WorkerReceives,
        WorkerSeesClose, WorkerFlushes, WorkerFails, WriterDrains, WriterSeesClose, WriterFails,
        EmitterReads, EmitterIndexes, EmitterFails, CallerCancels, erigonVars, out
  <2>2. Settled /\ kv[d] \subseteq RowsIn(d)
    BY Zenon, <2>1 DEF EmitterIndexes, IndInv, Emitting
  <2>3. counts[d] = Cardinality(RowsIn(d))
    <3>1. PendingRows(d) = {}
      BY Zenon, <1>1, <2>2, SettledFacts
    <3>2. counts[d] \in Nat /\ counts[d] + Cardinality(PendingRows(d)) = Cardinality(RowsIn(d))
      BY <1>1 DEF Counting, IndInv, DataInv, DataTypes
    <3> QED
      BY <3>1, <3>2, FS_EmptySet
  <2>4. kv[d] = RowsIn(d)
    BY <2>1, <2>2, <2>3, FiniteRows, FS_Subset DEF EmitterIndexes, KeyCountMatches
  <2> QED
    BY <2>1, <2>4 DEF EmitterIndexes
<1> QED
  BY <1>2, <1>3

\* A domain that has its accessors is whole: the emitters start when the stores
\* are final, and the count they compare with is then that of all rows.
THEOREM ErigonIndexed == ErigonSpec => []IndexedIsWhole
<1>1. ErigonInit => IndexedIsWhole
  BY DEF ErigonInit, IndexedIsWhole
<1> QED
  BY <1>1, InitCounting, CountingStep, IndexedStep, Inductive, PTL DEF ErigonSpec

\* A nil error of writeSnapshots means that every row of every item is in the
\* files of its domain and every commitment input was folded.
THEOREM ErigonComplete == ErigonSpec => []NilMeansAllWritten
<1>1. IndInv /\ IndexedIsWhole => NilMeansAllWritten
  BY DEF IndInv, Emitting, EmitWait, IndexedIsWhole, NilMeansAllWritten
<1> QED
  BY <1>1, ErigonIndexed, Inductive, PTL
=============================================================================
