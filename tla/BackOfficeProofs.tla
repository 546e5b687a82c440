---- MODULE BackOfficeProofs ----
(***************************************************************************)
(* Theorems about MCBackOffice, for all values of its constants.  `part`   *)
(* never changes, so that a step of the whole is a step of the part that   *)
(* is awake; what the steps of a part keep is proved in ExchangeProofs,    *)
(* OfficeProofs and DeskProofs, but for the prices and the stream of a job.*)
(***************************************************************************)
EXTENDS MCBackOffice, ExchangeProofs, OfficeProofs, DeskProofs

-----------------------------------------------------------------------------
(***************************************************************************)
(* Prices.  v1 = pushed, v2 = recorded, v3 = price, v4 = apply,            *)
(* v5 = blurred.  NewestPriceWins is not inductive: between the row and    *)
(* the price of a delivery the branch sells at the newest of the other     *)
(* pushes, and that delivery, the only one there, is the newest.           *)
(***************************************************************************)
Writing == {w \in Workers : v4[w].at = "price"}

Newest(p, S) == /\ p \in {0} \cup S
                /\ \A q \in S : q <= p

PricesInv ==
    /\ Pushes!TypeOK
    /\ ~v5 =>
         /\ Writing = {} => Newest(v3, Pushes!Rows \ Missing)
         /\ \A w \in Writing :
               /\ Writing = {w}
               /\ Newest(v4[w].push, Pushes!Rows)
               /\ v4[w].push # 0
               /\ Newest(v3, (Pushes!Rows \ {v4[w].push}) \ Missing)

\* The newest of a set of pushes is what its maximum is.
LEMMA NewestIsMax ==
    ASSUME NEW S \in SUBSET Nat, NEW p, Newest(p, S)
    PROVE  p = Pushes!Max({0} \cup S)
<1> DEFINE T == {0} \cup S
           m == CHOOSE x \in T : \A y \in T : x >= y
<1>1. p \in T /\ \A y \in T : p >= y
  BY DEF Newest
<1>2. m \in T /\ \A y \in T : m >= y
  BY <1>1
<1>0. T \subseteq Nat
  OBVIOUS
<1> HIDE DEF m
<1>3. p \in Nat /\ m \in Nat
  BY <1>0, <1>1, <1>2
<1>4. p >= m /\ m >= p
  BY <1>1, <1>2
<1>5. p = m
  BY <1>3, <1>4
<1> QED BY <1>5 DEF Pushes!Max, m

\* A branch that has recorded nothing sells at no price.
LEMMA PricesInit == Pushes!Init => PricesInv
<1> SUFFICES ASSUME Pushes!Init PROVE PricesInv
  OBVIOUS
<1>1. v1 = 0 /\ v2 = <<>> /\ v3 = 0 /\ v4 = [w \in Workers |-> Pushes!idle] /\ v5 = FALSE
  BY DEF Pushes!Init
<1>2. Pushes!TypeOK
  <2>1. v1 \in 0 .. MaxPushes
    BY <1>1, ExchangeAssumption
  <2>2. v4 \in [Workers -> {Pushes!idle} \cup [at : {"record", "price"}, push : 1 .. v1]]
    BY <1>1 DEF Pushes!idle
  <2> QED BY <1>1, <2>1, <2>2 DEF Pushes!TypeOK
<1>3. Writing = {}
  BY <1>1 DEF Writing, Pushes!idle
<1>4. Pushes!Rows = {}
  BY <1>1 DEF Pushes!Rows
<1> QED BY <1>1, <1>2, <1>3, <1>4 DEF PricesInv, Newest

\* Recording a push adds it to the rows.
LEMMA RowsAppend ==
    ASSUME NEW T, v2 \in Seq(T), NEW p \in T, v2' = Append(v2, p)
    PROVE  (Pushes!Rows)' = Pushes!Rows \cup {p}
<1>1. DOMAIN v2' = DOMAIN v2 \cup {Len(v2) + 1}
  OBVIOUS
<1>2. v2'[Len(v2) + 1] = p /\ \A i \in DOMAIN v2 : v2'[i] = v2[i]
  OBVIOUS
<1> QED BY <1>1, <1>2 DEF Pushes!Rows

LEMMA PricesType == Pushes!TypeOK /\ Pushes!Next => (Pushes!TypeOK)'
<1> SUFFICES ASSUME Pushes!TypeOK, Pushes!Next PROVE (Pushes!TypeOK)'
  OBVIOUS
<1> USE ExchangeAssumption
<1>0. /\ v1 \in Nat /\ v3 \in 0 .. v1
      /\ v2 \in Seq(1 .. v1)
      /\ v4 \in [Workers -> {Pushes!idle} \cup [at : {"record", "price"}, push : 1 .. v1]]
  BY DEF Pushes!TypeOK
<1>1. CASE Pushes!CreatePricePush
  <2>1. v1' = v1 + 1 /\ v1' \in 0 .. MaxPushes
    BY <1>0, <1>1 DEF Pushes!CreatePricePush
  <2>2. v2' \in Seq(1 .. v1') /\ v3' \in 0 .. v1'
    <3>1. 1 .. v1 \subseteq 1 .. v1' /\ 0 .. v1 \subseteq 0 .. v1'
      BY <1>0, <2>1
    <3> QED BY <1>0, <1>1, <3>1 DEF Pushes!CreatePricePush
  <2>3. v4' \in [Workers -> {Pushes!idle} \cup [at : {"record", "price"}, push : 1 .. v1']]
    BY <1>0, <1>1, <2>1 DEF Pushes!CreatePricePush
  <2> QED BY <1>1, <2>1, <2>2, <2>3 DEF Pushes!CreatePricePush, Pushes!TypeOK
<1>2. ASSUME NEW w \in Workers, NEW p \in 1 .. v1, Pushes!ApplyCheck(w, p)
      PROVE  (Pushes!TypeOK)'
  BY <1>0, <1>2 DEF Pushes!ApplyCheck, Pushes!TypeOK
<1>3. ASSUME NEW w \in Workers, Pushes!ApplyRecord(w) PROVE (Pushes!TypeOK)'
  <2>1. CASE v4[w].push \in Pushes!Rows
    BY <1>0, <1>3, <2>1 DEF Pushes!ApplyRecord, Pushes!TypeOK, Pushes!idle
  <2>2. CASE v4[w].push \notin Pushes!Rows
    <3> DEFINE p == v4[w].push
    <3>0. v4[w].at = "record"
      BY <1>3 DEF Pushes!ApplyRecord
    <3>1. /\ v2' = Append(v2, p) /\ UNCHANGED <<v1, v3>>
          /\ v4' = [v4 EXCEPT ![w].at = "price"]
      BY <1>3, <2>2 DEF Pushes!ApplyRecord
    <3>2. p \in 1 .. v1
      BY <1>0, <1>3 DEF Pushes!ApplyRecord, Pushes!idle
    <3>3. v2' \in Seq(1 .. v1)
      BY <1>0, <3>1, <3>2
    <3>4. \A i, j \in DOMAIN v2' : v2'[i] = v2'[j] => i = j
      <4>1. \A i \in DOMAIN v2 : v2[i] # p
        BY <2>2 DEF Pushes!Rows
      <4> QED BY <1>0, <3>1, <4>1 DEF Pushes!TypeOK
    <3>5. v4' \in [Workers -> {Pushes!idle} \cup [at : {"record", "price"}, push : 1 .. v1]]
      <4>1. [v4[w] EXCEPT !.at = "price"] \in [at : {"record", "price"}, push : 1 .. v1]
        <5>1. v4[w] # Pushes!idle
          BY <3>0 DEF Pushes!idle
        <5>2. v4[w] \in [at : {"record", "price"}, push : 1 .. v1]
          BY <1>0, <5>1
        <5> QED BY <5>2
      <4> QED BY <1>0, <3>1, <4>1
    <3> QED BY <3>1, <3>3, <3>4, <3>5 DEF Pushes!TypeOK
  <2> QED BY <2>1, <2>2
<1>4. ASSUME NEW w \in Workers, Pushes!ApplyPrice(w) PROVE (Pushes!TypeOK)'
  BY <1>0, <1>4 DEF Pushes!ApplyPrice, Pushes!TypeOK, Pushes!idle
<1>5. ASSUME NEW w \in Workers, Pushes!ApplyDies(w) PROVE (Pushes!TypeOK)'
  BY <1>0, <1>5 DEF Pushes!ApplyDies, Pushes!TypeOK, Pushes!idle
<1> QED BY <1>1, <1>2, <1>3, <1>4, <1>5 DEF Pushes!Next

LEMMA PricesStep == PricesInv /\ Pushes!Next => PricesInv'
<1> SUFFICES ASSUME PricesInv, Pushes!Next PROVE PricesInv'
  OBVIOUS
<1> DEFINE R == Pushes!Rows
<1>0. /\ v1 \in Nat /\ v2 \in Seq(1 .. v1) /\ v3 \in 0 .. v1
      /\ v4 \in [Workers -> {Pushes!idle} \cup [at : {"record", "price"}, push : 1 .. v1]]
  BY ExchangeAssumption DEF PricesInv, Pushes!TypeOK
<1>t. (Pushes!TypeOK)'
  BY PricesType DEF PricesInv
<1>r. R \subseteq 1 .. v1
  BY <1>0 DEF Pushes!Rows
<1>1. CASE Pushes!CreatePricePush
  BY <1>1, <1>t DEF PricesInv, Pushes!CreatePricePush, Writing, Newest, Pushes!Rows
<1>2. ASSUME NEW w \in Workers, NEW p \in 1 .. v1, Pushes!ApplyCheck(w, p)
      PROVE  PricesInv'
  <2>1. /\ UNCHANGED <<v1, v2, v3, v5>>
        /\ v4' = [v4 EXCEPT ![w] = [at |-> "record", push |-> p]]
        /\ v4[w].at = "idle"
    BY <1>2 DEF Pushes!ApplyCheck
  <2>2. Writing' = Writing /\ (\A v \in Writing : v4'[v] = v4[v])
    BY <1>0, <2>1 DEF Writing
  <2>3. (Pushes!Rows)' = Pushes!Rows
    BY <2>1 DEF Pushes!Rows
  <2> QED BY <1>t, <2>1, <2>2, <2>3 DEF PricesInv, Newest
<1>3. ASSUME NEW w \in Workers, Pushes!ApplyRecord(w) PROVE PricesInv'
  <2> DEFINE p == v4[w].push
  <2>0. v4[w].at = "record" /\ p \in 1 .. v1
    BY <1>0, <1>3 DEF Pushes!ApplyRecord, Pushes!idle
  <2>1. CASE p \in R
    <3>1. UNCHANGED <<v1, v2, v3, v5>> /\ v4' = [v4 EXCEPT ![w] = Pushes!idle]
      BY <1>3, <2>1 DEF Pushes!ApplyRecord
    <3>2. Writing' = Writing /\ (\A v \in Writing : v4'[v] = v4[v])
      BY <1>0, <2>0, <3>1 DEF Writing, Pushes!idle
    <3>3. (Pushes!Rows)' = Pushes!Rows
      BY <3>1 DEF Pushes!Rows
    <3> QED BY <1>t, <3>1, <3>2, <3>3 DEF PricesInv, Newest
  <2>2. CASE p \notin R
    <3>1. /\ UNCHANGED <<v1, v3>> /\ v2' = Append(v2, p)
          /\ v4' = [v4 EXCEPT ![w].at = "price"]
          /\ v5' = (v5 \/ (\E q \in R : q > p) \/ \E v \in Workers : v4[v].at = "price")
      BY <1>3, <2>2 DEF Pushes!ApplyRecord
    <3>2. (Pushes!Rows)' = R \cup {p}
      BY <1>0, <2>0, <3>1, RowsAppend
    <3>3. SUFFICES ASSUME ~v5, Writing = {}, \A q \in R : q <= p
                   PROVE  PricesInv'
      <4>1. CASE v5'
        BY <1>t, <4>1 DEF PricesInv
      <4>2. CASE ~v5'
        <5>1. Writing = {}
          BY <3>1, <4>2 DEF Writing
        <5>2. \A q \in R : ~(q > p)
          BY <3>1, <4>2
        <5>3. \A q \in 1 .. v1 : ~(q > p) => q <= p
          BY <1>0, <2>0
        <5> QED BY <1>r, <3>1, <4>2, <5>1, <5>2, <5>3
      <4> QED BY <4>1, <4>2
    <3>4. Writing' = {w} /\ v4'[w].push = p
      BY <1>0, <3>1, <3>3 DEF Writing
    <3>5. Newest(p, R \cup {p}) /\ p # 0
      BY <2>0, <3>3 DEF Newest
    <3>6. Newest(v3, R \ Missing) /\ (R \cup {p}) \ {p} = R
      BY <2>2, <3>3 DEF PricesInv
    <3> HIDE DEF p, R
    <3> QED BY <1>t, <3>1, <3>2, <3>4, <3>5, <3>6 DEF PricesInv, Newest
  <2> QED BY <2>1, <2>2
<1>4. ASSUME NEW w \in Workers, Pushes!ApplyPrice(w) PROVE PricesInv'
  <2> DEFINE p == v4[w].push
  <2>1. /\ w \in Writing /\ UNCHANGED <<v1, v2, v5>>
        /\ v3' = IF p \in Missing THEN v3 ELSE p
        /\ v4' = [v4 EXCEPT ![w] = Pushes!idle]
    BY <1>4 DEF Pushes!ApplyPrice, Writing
  <2>2. SUFFICES ASSUME ~v5 PROVE PricesInv'
    BY <1>t, <2>1 DEF PricesInv
  <2>3. /\ Writing = {w} /\ Newest(p, R) /\ p # 0
        /\ Newest(v3, (R \ {p}) \ Missing)
    BY <2>1, <2>2 DEF PricesInv
  <2>4. Writing' = {}
    BY <1>0, <2>1, <2>3 DEF Writing, Pushes!idle
  <2>5. (Pushes!Rows)' = R
    BY <2>1 DEF Pushes!Rows
  <2>6. Newest(v3', R \ Missing)
    <3>1. CASE p \in Missing
      BY <2>1, <2>3, <3>1 DEF Newest
    <3>2. CASE p \notin Missing
      BY <2>1, <2>3, <3>2 DEF Newest
    <3> QED BY <3>1, <3>2
  <2> HIDE DEF R
  <2> QED BY <1>t, <2>4, <2>5, <2>6 DEF PricesInv
<1>5. ASSUME NEW w \in Workers, Pushes!ApplyDies(w) PROVE PricesInv'
  <2>1. /\ UNCHANGED <<v1, v2, v3>>
        /\ v5' = (v5 \/ v4[w].at = "price")
        /\ v4' = [v4 EXCEPT ![w] = Pushes!idle]
    BY <1>5 DEF Pushes!ApplyDies
  <2>2. SUFFICES ASSUME ~v5, v4[w].at # "price" PROVE PricesInv'
    BY <1>t, <2>1 DEF PricesInv
  <2>3. Writing' = Writing /\ (\A v \in Writing : v4'[v] = v4[v])
    BY <1>0, <2>1, <2>2 DEF Writing, Pushes!idle
  <2>4. (Pushes!Rows)' = Pushes!Rows
    BY <2>1 DEF Pushes!Rows
  <2> QED BY <1>t, <2>1, <2>2, <2>3, <2>4 DEF PricesInv, Newest
<1> QED BY <1>1, <1>2, <1>3, <1>4, <1>5 DEF Pushes!Next

LEMMA PricesSame == ASSUME PricesInv, UNCHANGED allVars PROVE PricesInv'
BY DEF allVars, PricesInv, Pushes!TypeOK, Pushes!Rows, Writing, Newest

LEMMA PricesMean == PricesInv => Pushes!NewestPriceWins
<1> SUFFICES ASSUME PricesInv, ~v5, \A w \in Workers : v4[w].at # "price"
             PROVE  v3 = Pushes!Max({0} \cup (Pushes!Rows \ Missing))
  BY DEF Pushes!NewestPriceWins
<1>1. Newest(v3, Pushes!Rows \ Missing)
  BY DEF PricesInv, Writing
<1>2. Pushes!Rows \subseteq Nat
  BY ExchangeAssumption DEF PricesInv, Pushes!TypeOK, Pushes!Rows
<1> QED BY <1>1, <1>2, NewestIsMax

-----------------------------------------------------------------------------
(***************************************************************************)
(* The stream of a job.  v1 = status, v2 = emitted, v3 = watcher,          *)
(* v4 = seen, v5 = queue.                                                  *)
(***************************************************************************)
StreamInv == v5 \in Seq(Int) /\ v2 \in Int /\ Stream!NoWatcherStranded

\* An event offered to a subscriber leaves something in its queue.
LEMMA OfferedWakes ==
    ASSUME v5 \in Seq(Int), NEW n \in Int
    PROVE  /\ Stream!Offered(n) \in Seq(Int)
           /\ Stream!Subscribed => Stream!Offered(n) # <<>>
<1>1. Append(v5, n) \in Seq(Int) /\ Append(v5, n) # <<>>
  <2>1. Append(v5, n) \in Seq(Int)
    OBVIOUS
  <2>2. Len(Append(v5, n)) = Len(v5) + 1 /\ Len(v5) \in Nat
    OBVIOUS
  <2>3. Len(Append(v5, n)) # 0
    BY <2>2
  <2>4. Len(<<>>) = 0
    OBVIOUS
  <2>5. Append(v5, n) # <<>>
    BY <2>3, <2>4
  <2> QED BY <2>1, <2>5
<1>2. Stream!Subscribed /\ ~(Len(v5) < QueueCap) => v5 # <<>>
  BY ExchangeAssumption
<1> QED BY <1>1, <1>2 DEF Stream!Offered

LEMMA StreamStep == StreamInv /\ Stream!Next => StreamInv'
<1> SUFFICES ASSUME StreamInv, Stream!Next PROVE StreamInv'
  OBVIOUS
<1> USE DEF StreamInv, Stream!NoWatcherStranded, Stream!Ended
<1>1. CASE Stream!Emit
  BY <1>1, OfferedWakes DEF Stream!Emit
<1>2. ASSUME NEW o, Stream!Ends(o) PROVE StreamInv'
  BY <1>2, OfferedWakes DEF Stream!Ends, Stream!Subscribed
<1>3. CASE Stream!EndsTwice
  <2>1. Stream!Offered(v2 + 1) \in Seq(Int) /\ v2' = v2 + 2
    BY <1>3, OfferedWakes DEF Stream!EndsTwice
  <2>2. /\ Append(Stream!Offered(v2 + 1), v2 + 2) \in Seq(Int)
        /\ Append(Stream!Offered(v2 + 1), v2 + 2) # <<>>
    BY <2>1
  <2>3. Stream!Subscribed => Stream!Offered(v2 + 1) # <<>>
    BY OfferedWakes
  <2>4. v5' \in Seq(Int) /\ (Stream!Subscribed => v5' # <<>>)
    BY <1>3, <2>1, <2>2, <2>3 DEF Stream!EndsTwice
  <2>5. v2' \in Int /\ v3' = v3
    BY <1>3, <2>1 DEF Stream!EndsTwice
  <2> QED BY <2>4, <2>5 DEF Stream!Subscribed
<1>4. CASE Stream!Connect \/ Stream!Replay
  BY <1>4 DEF Stream!Connect, Stream!Replay
<1>5. CASE Stream!Replayed
  BY <1>5 DEF Stream!Replayed
<1>7. CASE Stream!Disconnect \/ Stream!Restart
  <2>1. v5' = <<>> /\ v3' = "off" /\ v2' = v2
    BY <1>7 DEF Stream!Disconnect, Stream!Restart
  <2> QED BY <2>1
<1>6. CASE Stream!Deliver
  BY <1>6 DEF Stream!Deliver
<1> QED BY <1>1, <1>2, <1>3, <1>4, <1>5, <1>6, <1>7 DEF Stream!Next

LEMMA StreamInit == Stream!Init => StreamInv
BY DEF Stream!Init, StreamInv, Stream!NoWatcherStranded

LEMMA StreamSame == ASSUME StreamInv, UNCHANGED allVars PROVE StreamInv'
BY DEF allVars, StreamInv, Stream!NoWatcherStranded, Stream!Ended

LEMMA StreamMeans == StreamInv => Stream!NoWatcherStranded
BY DEF StreamInv

-----------------------------------------------------------------------------
(***************************************************************************)
(* Between deliveries a branch sells at the newest price it has recorded,  *)
(* however often the pushes are delivered, unless one came late, overtook  *)
(* another or died half way (apply_price_push).                            *)
(***************************************************************************)
THEOREM NewestPrice == Spec => []NewestPriceWins
<1> DEFINE I == part = "prices" => PricesInv
<1>1. Init => I
  BY PricesInit DEF Init
<1>2. I /\ [Next]_allVars => I'
  <2> SUFFICES ASSUME I, [Next]_allVars, part' = "prices" PROVE PricesInv'
    OBVIOUS
  <2>1. CASE Next
    BY <2>1, PricesStep DEF Next
  <2>2. CASE UNCHANGED allVars
    BY <2>2, PricesSame DEF allVars
  <2> QED BY <2>1, <2>2
<1>3. I => NewestPriceWins
  BY PricesMean DEF NewestPriceWins
<1> QED BY <1>1, <1>2, <1>3, PTL DEF Spec, allVars

(***************************************************************************)
(* A stream that waits for an ended job has an event to wake it, whatever  *)
(* its full queue dropped and whenever it connected (stream route of       *)
(* bills.py, jobs.py).  A queue that holds one event is enough.            *)
(***************************************************************************)
THEOREM WatcherIsTold == Spec => []NoWatcherStranded
<1> DEFINE I == part = "stream" => StreamInv
<1>1. Init => I
  BY StreamInit DEF Init
<1>2. I /\ [Next]_allVars => I'
  <2> SUFFICES ASSUME I, [Next]_allVars, part' = "stream" PROVE StreamInv'
    OBVIOUS
  <2>1. CASE Next
    BY <2>1, StreamStep DEF Next
  <2>2. CASE UNCHANGED allVars
    BY <2>2, StreamSame DEF allVars
  <2> QED BY <2>1, <2>2
<1>3. I => NoWatcherStranded
  BY StreamMeans DEF NoWatcherStranded
<1> QED BY <1>1, <1>2, <1>3, PTL DEF Spec, allVars

(***************************************************************************)
(* A pairing code gives out one token, unless two registrations read it    *)
(* before either had used it (register_branch): expiry, refusals, lost     *)
(* replies and revocations notwithstanding.                                *)
(***************************************************************************)
THEOREM OneToken == Spec => []OneTokenPerCode
<1> DEFINE I == part = "outbox" => CodesInv
<1>1. Init => I
  BY CodesInit DEF Init
<1>2. I /\ [Next]_allVars => I'
  <2> SUFFICES ASSUME I, [Next]_allVars, part' = "outbox" PROVE CodesInv'
    OBVIOUS
  <2>1. CASE Next
    BY <2>1, CodesStep DEF Next
  <2>2. CASE UNCHANGED allVars
    BY <2>2, CodesSame DEF allVars
  <2> QED BY <2>1, <2>2
<1>3. I => OneTokenPerCode
  BY CodesMean DEF OneTokenPerCode
<1> QED BY <1>1, <1>2, <1>3, PTL DEF Spec, allVars

(***************************************************************************)
(* When a branch's outbox shows a day as sent, head office has its last    *)
(* figures, through retries, lost answers, deaths and flushes at once,     *)
(* unless new figures were queued while old ones were on the wire or being *)
(* queued (queue_sync_outbox, flush_sync_outbox, receive_branch_summary);  *)
(* and the owner's dashboard then adds up the active branches.             *)
(***************************************************************************)
THEOREM SummariesArrive == Spec => []SentIsDelivered
<1> DEFINE I == part = "outbox" => SyncInv
<1>1. Init => I
  BY SyncInit DEF Init
<1>2. I /\ [Next]_allVars => I'
  <2> SUFFICES ASSUME I, [Next]_allVars, part' = "outbox" PROVE SyncInv'
    OBVIOUS
  <2>1. CASE Next
    BY <2>1, SyncStep DEF Next
  <2>2. CASE UNCHANGED allVars
    BY <2>2, SyncSame DEF allVars
  <2> QED BY <2>1, <2>2
<1>3. I => SentIsDelivered
  BY SyncMeans DEF SentIsDelivered
<1> QED BY <1>1, <1>2, <1>3, PTL DEF Spec, allVars

(***************************************************************************)
(* However often overlapping files are imported, an importer holds every   *)
(* invoice once, with its items and drawer row, and there is one customer, *)
(* unless two imports met on an invoice, one looked for the customer while *)
(* another was about to insert him, or a sale was cut off between its      *)
(* statements (pos_import, ezi_import).                                    *)
(***************************************************************************)
THEOREM FilesAreWhole == Spec => []ImportedOnceAndWhole
<1> DEFINE I == part = "files" => FilesInv
<1>1. Init => I
  BY FilesInit DEF Init
<1>2. I /\ [Next]_allVars => I'
  <2> SUFFICES ASSUME I, [Next]_allVars, part' = "files" PROVE FilesInv'
    OBVIOUS
  <2>1. CASE Next
    BY <2>1, FilesStep DEF Next
  <2>2. CASE UNCHANGED allVars
    BY <2>2, FilesStay DEF allVars
  <2> QED BY <2>1, <2>2
<1>3. I => ImportedOnceAndWhole
  BY FilesMean DEF ImportedOnceAndWhole
<1> QED BY <1>1, <1>2, <1>3, PTL DEF Spec, allVars

(***************************************************************************)
(* A bill's pieces are in the stock exactly while it is a live confirmed   *)
(* bill, for any groups of providers, batches and replies, however jobs,   *)
(* edits, repeated confirmations, deletions and restarts meet, but after a *)
(* job stored lines in a confirmed bill or changed that status             *)
(* (bills.confirm_bill).                                                   *)
(***************************************************************************)
THEOREM BillInStock == Spec => []StockFollowsBill
<1> DEFINE I == part = "intake" => IntakeInv
<1>1. Init => I
  BY IntakeInit DEF Init
<1>2. I /\ [Next]_allVars => I'
  <2> SUFFICES ASSUME I, [Next]_allVars, part' = "intake" PROVE IntakeInv'
    OBVIOUS
  <2>1. CASE Next
    BY <2>1, IntakeStep DEF Next
  <2>2. CASE UNCHANGED allVars
    BY <2>2, IntakeSame DEF allVars
  <2> QED BY <2>1, <2>2
<1>3. I => StockFollowsBill
  BY IntakeMeans DEF StockFollowsBill
<1> QED BY <1>1, <1>2, <1>3, PTL DEF Spec, allVars

(***************************************************************************)
(* A stored line carries the number of the picture it was read from, for   *)
(* any groups of providers, batches and replies, however a batch is shared *)
(* out, the bill edited and pages added, unless a job began to number its  *)
(* pages while another was at it (bills.upload_async, bills.add_pages).    *)
(***************************************************************************)
THEOREM PagesAreShown == Spec => []ItemsShowTheirPage
<1> DEFINE I == part = "intake" => PagesInv
<1>1. Init => I
  BY PagesInit DEF Init
<1>2. I /\ [Next]_allVars => I'
  <2> SUFFICES ASSUME I, [Next]_allVars, part' = "intake" PROVE PagesInv'
    OBVIOUS
  <2>1. CASE Next
    BY <2>1, PagesStep DEF Next
  <2>2. CASE UNCHANGED allVars
    BY <2>2, PagesSame DEF allVars
  <2> QED BY <2>1, <2>2
<1>3. I => ItemsShowTheirPage
  BY PagesMean DEF ItemsShowTheirPage
<1> QED BY <1>1, <1>2, <1>3, PTL DEF Spec, allVars

(***************************************************************************)
(* app/salary.py: a record posts one expense of its full cost, a draft     *)
(* never needs saving again, and what left the drawer for a paid record is *)
(* that cost, for any staff, salaries, advances and number of requests     *)
(* under way, except where two requests of an employee overlapped, one     *)
(* stopped half way, or a row was changed afterwards.                      *)
(***************************************************************************)
THEOREM PaidOnce == Spec => []PayrollCountedOnce
<1> DEFINE I == part = "payroll" => PayInv
<1>1. Init => I
  BY PayInit DEF Init
<1>2. I /\ [Next]_allVars => I'
  <2> SUFFICES ASSUME I, [Next]_allVars, part' = "payroll" PROVE PayInv'
    OBVIOUS
  <2>1. CASE Next
    BY <2>1, PayNext DEF Next
  <2>2. CASE UNCHANGED allVars
    BY <2>2, PaySame DEF allVars
  <2> QED BY <2>1, <2>2
<1>3. I => PayrollCountedOnce
  BY PayCounted DEF PayrollCountedOnce
<1> QED BY <1>1, <1>2, <1>3, PTL DEF Spec, allVars

(***************************************************************************)
(* app/routers/extensions.py: what the owner approved is carried out once  *)
(* and as the row says, what he rejected never, what was approved as an    *)
(* expense left the drawer, and proposals do not pile up, for any number   *)
(* of requests, unless two worked on an action at once, two proposals      *)
(* overlapped or the process died in between.                              *)
(***************************************************************************)
THEOREM CarriedOutOnce == Spec => []ApprovedOnce
<1> DEFINE I == part \in {"answers", "proposals"} => AskInv
<1>1. Init => I
  BY AskStart DEF Init
<1>2. I /\ [Next]_allVars => I'
  <2> SUFFICES ASSUME I, [Next]_allVars, part' \in {"answers", "proposals"} PROVE AskInv'
    OBVIOUS
  <2>1. CASE Next
    BY <2>1, AsksNext DEF Next
  <2>2. CASE UNCHANGED allVars
    BY <2>2, AskSame DEF allVars
  <2> QED BY <2>1, <2>2
<1>3. I => ApprovedOnce
  BY AskMeansBoth DEF ApprovedOnce
<1> QED BY <1>1, <1>2, <1>3, PTL DEF Spec, allVars

LEMMA CashAlways == Spec => [](part = "cash" => CashInv)
<1> DEFINE I == part = "cash" => CashInv
<1>1. Init => I
  BY CashInit DEF Init
<1>2. I /\ [Next]_allVars => I'
  <2> SUFFICES ASSUME I, [Next]_allVars, part' = "cash" PROVE CashInv'
    OBVIOUS
  <2>1. CASE Next
    BY <2>1, CashNext DEF Next
  <2>2. CASE UNCHANGED allVars
    BY <2>2, CashSame DEF allVars
  <2> QED BY <2>1, <2>2
<1> QED BY <1>1, <1>2, PTL DEF Spec, allVars

(***************************************************************************)
(* app/shop.py: whenever no request is under way, each kind's drawer rows  *)
(* add up to the expenses, advances, deposits and settled credit they were *)
(* booked for, and a month's recurring bill is posted once, for any        *)
(* amount, float, number of rows, shifts and requests under way, except    *)
(* where two generations overlapped or a request stopped half way.         *)
(***************************************************************************)
THEOREM CashReconciles == Spec => []BooksReconcile
<1>1. (part = "cash" => CashInv) => BooksReconcile
  BY CashBooks DEF BooksReconcile
<1> QED BY <1>1, CashAlways, PTL

(***************************************************************************)
(* app/shop.py: a shift counted honestly, whose rows begin with its own    *)
(* opening and hold no other opening or count, closes without variance;    *)
(* and the difference the day's close reports is exactly the advances,     *)
(* deposits and settled credit its formula leaves out.                     *)
(***************************************************************************)
THEOREM HonestCount == Spec => []HonestCountBalances
<1>1. (part = "cash" => CashInv) => HonestCountBalances
  BY CashHonest DEF HonestCountBalances
<1> QED BY <1>1, CashAlways, PTL

(***************************************************************************)
(* Restores lose no committed write and no license, for any requests and   *)
(* limits of a part, whatever writes and deaths come between, but where    *)
(* something named by `mishap` or `slipped` went wrong (bills.py and       *)
(* maintenance.py; reapply_license_settings).                              *)
(***************************************************************************)
THEOREM NothingLost == Spec => []RestoreLosesNothing
<1> DEFINE I == part \in {"vault", "second", "pruning", "snapshots"} => VaultInv
<1>1. Init => I
  BY VaultStart DEF Init
<1>2. I /\ [Next]_allVars => I'
  <2> SUFFICES ASSUME I, [Next]_allVars, part' \in {"vault", "second", "pruning", "snapshots"} PROVE VaultInv'
    OBVIOUS
  <2>1. CASE Next
    BY <2>1, VaultStep DEF Next
  <2>2. CASE UNCHANGED allVars
    BY <2>2, VaultSame DEF allVars
  <2> QED BY <2>1, <2>2
<1>3. I => RestoreLosesNothing
  BY VaultMeans DEF RestoreLosesNothing
<1> QED BY <1>1, <1>2, <1>3, PTL DEF Spec, allVars

LEMMA TillAlways == Spec => [](part \in {"imports", "diary"} => TillInv)
<1> DEFINE I == part \in {"imports", "diary"} => TillInv
<1>1. Init => I
  BY TillStart DEF Init
<1>2. I /\ [Next]_allVars => I'
  <2> SUFFICES ASSUME I, [Next]_allVars, part' \in {"imports", "diary"} PROVE TillInv'
    OBVIOUS
  <2>1. CASE Next
    BY <2>1, TillStep DEF Next
  <2>2. CASE UNCHANGED allVars
    BY <2>2, TillSame DEF allVars
  <2> QED BY <2>1, <2>2
<1> QED BY <1>1, <1>2, PTL DEF Spec, allVars

(***************************************************************************)
(* app/pos_import_sync.py: while no run's pieces are being put back, the   *)
(* stock is off by exactly the sales that stand, for any invoices, limits  *)
(* and deletions under way, except after an imported return, the deletion  *)
(* of a refunded sale, or two deletions of one run, until the next boot.   *)
(***************************************************************************)
THEOREM ImportsInStock == Spec => []StockFollowsImports
<1>1. (part \in {"imports", "diary"} => TillInv) => StockFollowsImports
  BY TillStockMeans DEF StockFollowsImports
<1> QED BY <1>1, TillAlways, PTL

(***************************************************************************)
(* app/pos_import_sync.py: between the steps of imports and deletions, the *)
(* drawer holds the cash of each imported sale that stands and has paid    *)
(* each imported diary entry once, for any invoices, entries, limits and   *)
(* deletions, except after one of the causes that `leak` records.          *)
(***************************************************************************)
THEOREM ImportsInDrawer == Spec => []DrawerFollowsImports
<1>1. (part \in {"imports", "diary"} => TillInv) => DrawerFollowsImports
  BY TillDrawerMeans DEF DrawerFollowsImports
<1> QED BY <1>1, TillAlways, PTL

LEMMA TransfersAlways == Spec => [](part = "transfers" => TransInv)
<1> DEFINE I == part = "transfers" => TransInv
<1>1. Init => I
  BY TransStart DEF Init
<1>2. I /\ [Next]_allVars => I'
  <2> SUFFICES ASSUME I, [Next]_allVars, part' = "transfers" PROVE TransInv'
    OBVIOUS
  <2>1. CASE Next
    BY <2>1, TransStep DEF Next
  <2>2. CASE UNCHANGED allVars
    BY <2>2, TransSame DEF allVars
  <2> QED BY <2>1, <2>2
<1> QED BY <1>1, <1>2, PTL DEF Spec, allVars

(***************************************************************************)
(* What was there at first and what was bought is in the pool, on a        *)
(* challan nobody accepted, or in the hands of a request, for any goods,   *)
(* shelf, lines and requests: no piece is made but of a category whose     *)
(* acceptance a rejection overwrote, none lost but of one that a request   *)
(* died or ran short with or wrote to its challan too late, and the value  *)
(* is kept but for these and the change to the central cost                *)
(* (create_transfer_out, accept_transfer, reject_transfer,                 *)
(* distribute_central_purchase).                                           *)
(***************************************************************************)
THEOREM NothingGoesAstray == Spec => []Accounted
<1>1. (part = "transfers" => TransInv) => Accounted
  BY TransMeans DEF Accounted
<1> QED BY <1>1, TransfersAlways, PTL

(***************************************************************************)
(* No more of a category leaves a central purchase than its last row says  *)
(* was bought, between requests what remains in a row is what was not      *)
(* sent, and it is marked distributed only when no row has more than was   *)
(* sent, for any purchase, lines and requests, unless two worked on the    *)
(* purchase at once, one named a category twice, died or ran short         *)
(* (distribute_central_purchase).                                          *)
(***************************************************************************)
THEOREM PurchaseAddsUp == Spec => []PurchaseFollowsChallans
<1>1. (part = "transfers" => TransInv) => PurchaseFollowsChallans
  BY TransMeans DEF PurchaseFollowsChallans
<1> QED BY <1>1, TransfersAlways, PTL

(***************************************************************************)
(* app/db.py, init: a boot fails only where a table of waiting actions     *)
(* lacks its dates; what serves has every table, column and index of the   *)
(* list of statements, the imported sales mended, the default rows and the *)
(* dates of waiting actions complete but where a boot died writing just    *)
(* them, and a right summary of the drawer until one of its rows is        *)
(* deleted: for a database of any age, any number of default rows, and     *)
(* boots cut off anywhere, however often.                                  *)
(***************************************************************************)
THEOREM BootsWhole == Spec => []BootLeavesWhole
<1> DEFINE I == part = "boots" => BootInv
<1>1. Init => I
  BY BootStarts DEF Init
<1>2. I /\ [Next]_allVars => I'
  <2> SUFFICES ASSUME I, [Next]_allVars, part' = "boots" PROVE BootInv'
    OBVIOUS
  <2>1. CASE Next
    BY <2>1, BootNext DEF Next
  <2>2. CASE UNCHANGED allVars
    BY <2>2, BootSame DEF allVars
  <2> QED BY <2>1, <2>2
<1>3. I => BootLeavesWhole
  BY BootMeans DEF BootLeavesWhole
<1> QED BY <1>1, <1>2, <1>3, PTL DEF Spec, allVars

(***************************************************************************)
(* app/shop.py: at every step a customer's credit is what the sales on     *)
(* account and the payments say, points and their use are what the sales,  *)
(* awards and redemptions say, a referral is rewarded twice, a layaway is  *)
(* paid exactly when nothing is left, a payment key pays once, a phone has *)
(* one live customer and an order one number, for any number of callers,   *)
(* keys, customers, sales, orders and requests under way, unless two       *)
(* requests met on the same row or a row was changed by hand.              *)
(***************************************************************************)
THEOREM DeskInOrder == Spec => []DeskKeepsBooks
<1> DEFINE I == part = "desk" => DeskBooks
<1>1. Init => I
  BY DeskBooksStart DEF Init
<1>2. I /\ [Next]_allVars => I'
  <2> SUFFICES ASSUME I, [Next]_allVars, part' = "desk" PROVE DeskBooks'
    OBVIOUS
  <2>1. CASE Next
    BY <2>1, DeskBooksKept DEF Next
  <2>2. CASE UNCHANGED allVars
    BY <2>2, DeskBooksSame DEF allVars
  <2> QED BY <2>1, <2>2
<1>3. I => DeskKeepsBooks
  BY DeskBooksMean DEF DeskKeepsBooks
<1> QED BY <1>1, <1>2, <1>3, PTL DEF Spec, allVars

====
