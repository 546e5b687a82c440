---- MODULE ExchangeProofs ----
(***************************************************************************)
(* Invariants of the parts of MCExchange, and that every step keeps them,  *)
(* for all values of its constants: any number of requests, branches,      *)
(* days, codes, invoices, pictures and goods.  Each part is proved on its  *)
(* own instance; BackOfficeProofs draws the theorems, and holds the prices *)
(* and the stream of a job.                                                *)
(***************************************************************************)
EXTENDS MCExchange, SumTheorems, TLAPS

-----------------------------------------------------------------------------
(***************************************************************************)
(* Pairing codes.  v1 = codes, v5 = register, v10 = blurred.  A code that  *)
(* was not overtaken is in the hands of one registration, which has marked *)
(* it used before it writes; once it has given a token nobody holds it.    *)
(***************************************************************************)
CodeRow == [used : BOOLEAN, expired : BOOLEAN, failures : Int, tokens : Int]

Holders(k) == {r \in Workers : v5[r] # Outbox!idle /\ v5[r].code = k}

GivenOnce(k) ==
    /\ \A r, q \in Holders(k) : r = q
    /\ \A r \in Holders(k) : v1[k].tokens = 0
    /\ \A r \in Holders(k) : v5[r].at = "write" => v1[k].used
    /\ v1[k].tokens \in {0, 1}
    /\ v1[k].tokens = 1 => v1[k].used

CodesType ==
    /\ v1 \in Seq(CodeRow)
    /\ v5 \in [Workers -> {Outbox!idle} \cup
                  [at : {"use", "write"}, branch : Branches, code : DOMAIN v1]]
    /\ v10 \in [codes : SUBSET DOMAIN v1, days : {v10.days}]

CodesInv == CodesType /\ \A k \in DOMAIN v1 \ v10.codes : GivenOnce(k)

LEMMA CodesInit == Outbox!Init => CodesInv
<1> SUFFICES ASSUME Outbox!Init PROVE CodesInv
  OBVIOUS
<1>1. v1 = <<>> /\ v5 = [r \in Workers |-> Outbox!idle] /\ v10 = [codes |-> {}, days |-> {}]
  BY DEF Outbox!Init
<1> QED BY <1>1 DEF CodesInv, CodesType

\* Steps that touch no code and no registration.
LEMMA CodesUntouched ==
    ASSUME CodesInv, UNCHANGED <<v1, v5>>, v10'.codes = v10.codes,
           v10' \in [codes : SUBSET DOMAIN v1, days : {v10'.days}]
    PROVE  CodesInv'
BY DEF CodesInv, CodesType, GivenOnce, Holders

LEMMA CodeRowExpires == \A c \in CodeRow : [c EXCEPT !.expired = TRUE] \in CodeRow
BY DEF CodeRow

LEMMA CodeRowFails ==
    ASSUME NEW c \in CodeRow, NEW used \in BOOLEAN, NEW n \in Int
    PROVE  [c EXCEPT !.failures = n, !.used = used] \in CodeRow
BY DEF CodeRow

\* A code that keeps its holders and tokens, and stays used once it is.
LEMMA CodeKept ==
    ASSUME NEW k \in DOMAIN v1, GivenOnce(k), k \in DOMAIN v1',
           Holders(k)' = Holders(k),
           \A r \in Holders(k) : v5'[r] = v5[r],
           v1'[k].tokens = v1[k].tokens, v1[k].used => v1'[k].used
    PROVE  GivenOnce(k)'
BY DEF GivenOnce

LEMMA CodesStep == CodesInv /\ Outbox!Next => CodesInv'
<1> SUFFICES ASSUME CodesInv, Outbox!Next PROVE CodesInv'
  OBVIOUS
<1>0. CodesType /\ v1 \in Seq(CodeRow)
  BY DEF CodesInv, CodesType
<1>1. CASE Outbox!GenerateCode
  <2> DEFINE row == [used |-> FALSE, expired |-> FALSE, failures |-> 0, tokens |-> 0]
  <2>1. v1' = Append(v1, row) /\ UNCHANGED <<v5, v10>>
    BY <1>1 DEF Outbox!GenerateCode
  <2>2. row \in CodeRow
    BY DEF CodeRow
  <2> HIDE DEF row
  <2>3. /\ v1' \in Seq(CodeRow) /\ DOMAIN v1' = DOMAIN v1 \cup {Len(v1) + 1}
        /\ Len(v1) + 1 \notin DOMAIN v1
        /\ v1'[Len(v1) + 1] = row /\ \A k \in DOMAIN v1 : v1'[k] = v1[k]
    BY <1>0, <2>1, <2>2
  <2>4. CodesType'
    BY <1>0, <2>1, <2>3 DEF CodesType
  <2>5. ASSUME NEW k \in DOMAIN v1 \ v10.codes PROVE GivenOnce(k)'
    BY <2>1, <2>3 DEF CodesInv, GivenOnce, Holders
  <2>6. PICK n : n = Len(v1) + 1
    OBVIOUS
  <2>7. GivenOnce(n)'
    <3>1. Holders(n)' = {}
      BY <1>0, <2>1, <2>3, <2>6 DEF CodesType, Holders
    <3>2. v1'[n].tokens = 0
      BY <2>3, <2>6 DEF row
    <3> QED BY <3>1, <3>2 DEF GivenOnce
  <2> QED BY <2>1, <2>3, <2>4, <2>5, <2>6, <2>7 DEF CodesInv
<1>2. ASSUME NEW k \in DOMAIN v1, NEW row \in CodeRow,
             v1' = [v1 EXCEPT ![k] = row], row.tokens = v1[k].tokens, v1[k].used => row.used,
             UNCHANGED <<v5, v10>>
      PROVE  CodesInv'
  <2>1. v1' \in Seq(CodeRow) /\ DOMAIN v1' = DOMAIN v1
    BY <1>0, <1>2
  <2>2. CodesType'
    BY <1>0, <1>2, <2>1 DEF CodesType
  <2>3. ASSUME NEW j \in DOMAIN v1 \ v10.codes PROVE GivenOnce(j)'
    <3>1. Holders(j)' = Holders(j)
      BY <1>2 DEF Holders
    <3>2. v1'[j].tokens = v1[j].tokens /\ (v1[j].used => v1'[j].used)
      BY <1>0, <1>2
    <3> QED BY <1>2, <2>1, <3>1, <3>2, CodeKept DEF CodesInv
  <2> QED BY <1>2, <2>1, <2>2, <2>3 DEF CodesInv
<1>3. ASSUME NEW k \in DOMAIN v1, Outbox!Expire(k) PROVE CodesInv'
  <2>1. v1' = [v1 EXCEPT ![k] = [@ EXCEPT !.expired = TRUE]] /\ UNCHANGED <<v5, v10>>
    BY <1>3 DEF Outbox!Expire
  <2> DEFINE row == [v1[k] EXCEPT !.expired = TRUE]
  <2>2. v1[k] \in CodeRow
    BY <1>0
  <2>3. row \in CodeRow
    BY <2>2, CodeRowExpires
  <2>4. row.tokens = v1[k].tokens /\ row.used = v1[k].used
    BY <2>2 DEF CodeRow
  <2>5. v1' = [v1 EXCEPT ![k] = row]
    BY <2>1
  <2> HIDE DEF row
  <2> QED BY <1>2, <2>1, <2>3, <2>4, <2>5
<1>4. ASSUME NEW k \in DOMAIN v1, Outbox!RegisterRefused(k) PROVE CodesInv'
  <2> DEFINE used == v1[k].used \/ v1[k].failures + 1 >= 3
             row == [v1[k] EXCEPT !.failures = @ + 1, !.used = used]
  <2>1. v1' = [v1 EXCEPT ![k] = row] /\ UNCHANGED <<v5, v10>>
    BY <1>4 DEF Outbox!RegisterRefused
  <2>2. v1[k] \in CodeRow /\ v1[k].failures + 1 \in Int /\ used \in BOOLEAN
    <3>1. v1[k] \in CodeRow
      BY <1>0
    <3>2. v1[k].failures + 1 \in Int
      BY <3>1 DEF CodeRow
    <3>3. used \in BOOLEAN
      OBVIOUS
    <3> QED BY <3>1, <3>2, <3>3
  <2>3. row \in CodeRow /\ row.tokens = v1[k].tokens /\ (v1[k].used => row.used)
    <3>1. v1[k].used => used
      OBVIOUS
    <3> HIDE DEF used
    <3>2. row \in CodeRow
      BY <2>2, CodeRowFails
    <3>3. row.tokens = v1[k].tokens /\ row.used = used
      BY <2>2 DEF CodeRow
    <3> QED BY <3>1, <3>2, <3>3
  <2> HIDE DEF row
  <2> QED BY <1>2, <2>1, <2>3
<1>5. ASSUME NEW r \in Workers, NEW b \in Branches, NEW k \in DOMAIN v1,
             Outbox!RegisterRead(r, b, k)
      PROVE  CodesInv'
  <2> DEFINE new == [at |-> "use", branch |-> b, code |-> k]
  <2>1. /\ v5[r] = Outbox!idle /\ ~v1[k].used /\ v1' = v1
        /\ v5' = [v5 EXCEPT ![r] = new]
        /\ v10' = IF \E q \in Workers : v5[q].at = "use" /\ v5[q].code = k
                  THEN [v10 EXCEPT !.codes = @ \cup {k}] ELSE v10
    BY <1>5 DEF Outbox!RegisterRead, Outbox!Valid
  <2>2. v10' \in [codes : SUBSET DOMAIN v1, days : {v10'.days}]
    BY <1>0, <2>1 DEF CodesType
  <2>3. v10.codes \subseteq v10'.codes
    BY <1>0, <2>1 DEF CodesType
  <2>4. CodesType'
    BY <1>0, <2>1, <2>2 DEF CodesType
  <2>5. ASSUME NEW j \in DOMAIN v1 \ v10'.codes PROVE GivenOnce(j)'
    <3>0. GivenOnce(j)
      BY <2>3 DEF CodesInv
    <3>1. CASE j # k
      <4>1. Holders(j)' = Holders(j) /\ \A q \in Holders(j) : v5'[q] = v5[q]
        BY <1>0, <2>1, <3>1 DEF CodesType, Holders
      <4> QED BY <2>1, <3>0, <4>1, CodeKept
    <3>2. CASE j = k
      <4>1. \A q \in Workers : ~(v5[q].at = "use" /\ v5[q].code = k)
        BY <1>0, <2>1, <3>2 DEF CodesType
      <4>2. Holders(k) = {}
        <5> SUFFICES ASSUME NEW q \in Holders(k) PROVE FALSE
          OBVIOUS
        <5>1. v5[q].at \in {"use", "write"} /\ v5[q].code = k /\ q \in Workers
          BY <1>0 DEF CodesType, Holders
        <5> QED BY <2>1, <3>0, <3>2, <4>1, <5>1 DEF GivenOnce
      <4>3. Holders(k)' = {r}
        BY <1>0, <2>1, <4>2 DEF CodesType, Holders, Outbox!idle
      <4>4. v1[k].tokens = 0
        BY <2>1, <3>0, <3>2 DEF GivenOnce
      <4>5. v5'[r].at = "use"
        BY <1>0, <2>1 DEF CodesType
      <4> QED BY <2>1, <3>2, <4>3, <4>4, <4>5 DEF GivenOnce
    <3> QED BY <3>1, <3>2
  <2> QED BY <2>1, <2>4, <2>5 DEF CodesInv
<1>6. ASSUME NEW r \in Workers, Outbox!RegisterUse(r) PROVE CodesInv'
  <2> DEFINE k == v5[r].code
             row == [v1[k] EXCEPT !.used = TRUE]
  <2>1. /\ v5[r].at = "use" /\ v10' = v10
        /\ v1' = [v1 EXCEPT ![k] = row]
        /\ v5' = [v5 EXCEPT ![r].at = "write"]
    BY <1>6 DEF Outbox!RegisterUse
  <2>2. /\ v5[r] \in [at : {"use", "write"}, branch : Branches, code : DOMAIN v1]
        /\ k \in DOMAIN v1 /\ v1[k] \in CodeRow
    BY <1>0, <2>1 DEF CodesType, Outbox!idle
  <2>3. row \in CodeRow /\ row.used /\ row.tokens = v1[k].tokens
    BY <2>2 DEF CodeRow
  <2>4. /\ v1' \in Seq(CodeRow) /\ DOMAIN v1' = DOMAIN v1
        /\ v1'[k] = row /\ \A j \in DOMAIN v1 \ {k} : v1'[j] = v1[j]
    <3> HIDE DEF row, k
    <3> QED BY <1>0, <2>1, <2>2, <2>3
  <2>5. CodesType'
    <3>1. [v5[r] EXCEPT !.at = "write"]
             \in [at : {"use", "write"}, branch : Branches, code : DOMAIN v1']
      BY <2>2, <2>4
    <3> QED BY <1>0, <2>1, <2>4, <3>1 DEF CodesType
  <2>6. /\ \A j \in DOMAIN v1 : Holders(j)' = Holders(j)
        /\ \A q \in Workers \ {r} : v5'[q] = v5[q]
    BY <1>0, <2>1, <2>2 DEF CodesType, Holders, Outbox!idle
  <2>7. ASSUME NEW j \in DOMAIN v1 \ v10.codes PROVE GivenOnce(j)'
    <3>1. GivenOnce(j)
      BY DEF CodesInv
    <3>2. CASE j = k
      BY <2>3, <2>4, <2>6, <3>1, <3>2 DEF GivenOnce
    <3>3. CASE j # k
      <4>1. r \notin Holders(j)
        BY <3>3 DEF Holders
      <4>2. \A q \in Holders(j) : v5'[q] = v5[q]
        BY <2>6, <4>1 DEF Holders
      <4> QED BY <2>4, <2>6, <3>1, <3>3, <4>2, CodeKept
    <3> QED BY <3>2, <3>3
  <2> QED BY <2>1, <2>4, <2>5, <2>7 DEF CodesInv
<1>7. ASSUME NEW r \in Workers, Outbox!RegisterWrite(r) PROVE CodesInv'
  <2>0. PICK k : k = v5[r].code
    OBVIOUS
  <2> DEFINE row == [v1[k] EXCEPT !.tokens = @ + 1]
  <2>1. /\ v5[r].at = "write" /\ v10' = v10
        /\ v1' = [v1 EXCEPT ![k] = row]
        /\ v5' = [v5 EXCEPT ![r] = Outbox!idle]
    BY <1>7, <2>0 DEF Outbox!RegisterWrite
  <2>2. k \in DOMAIN v1 /\ v1[k] \in CodeRow /\ r \in Holders(k)
    BY <1>0, <2>0, <2>1 DEF CodesType, Holders, Outbox!idle
  <2>3. row \in CodeRow /\ row.used = v1[k].used /\ row.tokens = v1[k].tokens + 1
    BY <2>2 DEF CodeRow
  <2>4. /\ v1' \in Seq(CodeRow) /\ DOMAIN v1' = DOMAIN v1
        /\ v1'[k] = row /\ \A j \in DOMAIN v1 \ {k} : v1'[j] = v1[j]
    <3> HIDE DEF row
    <3> QED BY <1>0, <2>1, <2>2, <2>3
  <2>5. CodesType'
    BY <1>0, <2>1, <2>4 DEF CodesType
  <2>6. /\ \A j \in DOMAIN v1 : Holders(j)' = Holders(j) \ {r}
        /\ \A q \in Workers \ {r} : v5'[q] = v5[q]
    BY <1>0, <2>1 DEF CodesType, Holders
  <2>7. ASSUME NEW j \in DOMAIN v1 \ v10.codes PROVE GivenOnce(j)'
    <3>1. GivenOnce(j)
      BY DEF CodesInv
    <3>2. CASE j = k
      <4>0. r \in Holders(j)
        BY <2>2, <3>2
      <4>1. Holders(j)' = {} /\ v1[j].tokens = 0 /\ v1[j].used
        BY <2>1, <2>6, <3>1, <4>0 DEF GivenOnce
      <4>2. v1'[j].tokens = 1 /\ v1'[j].used /\ Holders(j)' = {}
        <5>1. v1'[j] = row
          BY <2>4, <3>2
        <5>2. row.tokens = 1 /\ row.used
          BY <2>3, <3>2, <4>1
        <5> QED BY <4>1, <5>1, <5>2
      <4> QED BY <4>2 DEF GivenOnce
    <3>3. CASE j # k
      <4>1. r \notin Holders(j)
        BY <2>0, <3>3 DEF Holders
      <4>2. Holders(j)' = Holders(j) /\ \A q \in Holders(j) : v5'[q] = v5[q]
        BY <2>6, <4>1 DEF Holders
      <4> QED BY <2>4, <3>1, <3>3, <4>2, CodeKept
    <3> QED BY <3>2, <3>3
  <2> QED BY <2>1, <2>4, <2>5, <2>7 DEF CodesInv
<1>8. ASSUME NEW b \in Branches, NEW q \in Workers,
             \/ \E d \in Days : Outbox!QueueRead(b, q, d)
             \/ Outbox!QueueWrite(b, q) \/ Outbox!QueueDies(b, q)
      PROVE  CodesInv'
  <2>1. UNCHANGED <<v1, v5>>
    BY <1>8 DEF Outbox!QueueRead, Outbox!QueueWrite, Outbox!QueueDies, Outbox!office
  <2>2. v10' = v10 \/ \E d : v10' = [v10 EXCEPT !.days = @ \cup {<<b, d>>}]
    BY <1>8 DEF Outbox!QueueRead, Outbox!QueueWrite, Outbox!QueueDies, Outbox!Blur
  <2>3. v10 \in [codes : SUBSET DOMAIN v1, days : {v10.days}]
    BY <1>0 DEF CodesType
  <2>4. /\ v10' \in [codes : SUBSET DOMAIN v1, days : {v10'.days}]
        /\ v10'.codes = v10.codes
    BY <2>2, <2>3
  <2> QED BY <2>1, <2>4, CodesUntouched
<1>9. ASSUME NEW b \in Branches, Outbox!Revoke(b) PROVE CodesInv'
  <2>1. UNCHANGED <<v1, v5, v10>>
    BY <1>9 DEF Outbox!Revoke
  <2> QED BY <1>0, <2>1, CodesUntouched DEF CodesType
<1>10. ASSUME NEW b \in Branches, NEW f \in Flushers,
              \/ Outbox!FlushRead(b, f) \/ Outbox!FlushPost(b, f)
              \/ Outbox!FlushMark(b, f) \/ Outbox!FlushDies(b, f)
       PROVE  CodesInv'
  <2>1. UNCHANGED <<v1, v5, v10>>
    BY <1>10 DEF Outbox!FlushRead, Outbox!FlushPost, Outbox!FlushMark, Outbox!FlushDies,
                 Outbox!office
  <2> QED BY <1>0, <2>1, CodesUntouched DEF CodesType
<1> QED BY <1>1, <1>3, <1>4, <1>5, <1>6, <1>7, <1>8, <1>9, <1>10 DEF Outbox!Next

LEMMA CodesSame == ASSUME CodesInv, UNCHANGED allVars PROVE CodesInv'
BY DEF allVars, CodesInv, CodesType, GivenOnce, Holders

LEMMA CodesMean == CodesInv => Outbox!OneTokenPerCode
BY DEF Outbox!OneTokenPerCode, CodesInv, GivenOnce

-----------------------------------------------------------------------------
(***************************************************************************)
(* The outbox.  v6 = summaries, v7 = outbox, v8 = figures, v9 = flush,     *)
(* v10 = blurred, v11 = queue.  What a settled day promises depends on     *)
(* what is still under way: unless the day is marked late its one pending  *)
(* entry carries the last figures, so does every copy of it on the wire, a *)
(* copy that was answered has been stored, and the one call that queues    *)
(* figures of the day knows the entry.                                     *)
(***************************************************************************)
OutRow == [day : Days, version : Nat, status : {"pending", "sent"}]
WireRow == [id : Nat, day : Days, version : Nat, answer : {"none", "ok", "error"}]
CallRow == {Outbox!idle} \cup [at : {"write"}, day : Days, entry : Nat, version : Nat]

\* one branch: head office's summaries of it, its entries, last figures, what its
\* flushes carry, what its calls have read, and a day whose figures are not marked late
RowsFresh(rows, fig, d) ==
    \A i, j \in DOMAIN rows : rows[i].status = "pending" /\ rows[i].day = d =>
        /\ rows[i].version = fig[d]
        /\ rows[j].status = "pending" /\ rows[j].day = d => i = j

WireKnown(rows, wire) ==
    \A f \in Flushers : \A n \in DOMAIN wire[f] :
        /\ wire[f][n].id \in DOMAIN rows
        /\ rows[wire[f][n].id].day = wire[f][n].day

CallKnown(rows, c) ==
    c.at = "write" /\ c.entry # 0 => c.entry \in DOMAIN rows /\ rows[c.entry].day = c.day

WireFresh(sum, fig, wire, d) ==
    \A f \in Flushers : \A n \in DOMAIN wire[f] : wire[f][n].day = d =>
        /\ wire[f][n].version = fig[d]
        /\ wire[f][n].answer = "ok" => sum[d] = fig[d]

Calls(calls, d) == {q \in Workers : calls[q].at = "write" /\ calls[q].day = d}

\* the only call for the day, newer than the last figures, knows the only entry
CallAlone(rows, fig, calls, d) ==
    \A q \in Calls(calls, d) :
        /\ Calls(calls, d) = {q}
        /\ calls[q].version > fig[d]
        /\ \A i \in DOMAIN rows : rows[i].status = "pending" /\ rows[i].day = d => calls[q].entry = i

DaySent(rows, d) == \A i \in DOMAIN rows : rows[i].day = d => rows[i].status = "sent"

DayOk(sum, rows, fig, wire, calls, d) ==
    /\ RowsFresh(rows, fig, d)
    /\ WireFresh(sum, fig, wire, d)
    /\ CallAlone(rows, fig, calls, d)
    /\ DaySent(rows, d) => sum[d] = fig[d]

OutboxOk(sum, rows, fig, wire, calls, late) ==
    /\ sum \in [Days -> Nat] /\ fig \in [Days -> Nat]
    /\ rows \in Seq(OutRow) /\ wire \in [Flushers -> Seq(WireRow)]
    /\ calls \in [Workers -> CallRow]
    /\ WireKnown(rows, wire)
    /\ \A q \in Workers : CallKnown(rows, calls[q])
    /\ \A d \in Days \ late : DayOk(sum, rows, fig, wire, calls, d)

\* A call has read what is pending for a day.
LEMMA Asked ==
    ASSUME NEW sum, NEW rows, NEW fig, NEW wire, NEW calls, NEW late,
           OutboxOk(sum, rows, fig, wire, calls, late), NEW q \in Workers, NEW d \in Days,
           calls[q] = Outbox!idle, NEW c, NEW calls2, calls2 = [calls EXCEPT ![q] = c],
           c.at = "write", c.day = d, c.entry \in Nat, c.version \in Nat, c \in CallRow,
           d \notin late => c.version > fig[d],
           \/ c.entry \in DOMAIN rows /\ rows[c.entry].status = "pending" /\ rows[c.entry].day = d
           \/ /\ c.entry = 0
              /\ \A i \in DOMAIN rows : rows[i].status = "pending" => rows[i].day # d,
           NEW late2, late \subseteq late2, Calls(calls, d) # {} => d \in late2
    PROVE  OutboxOk(sum, rows, fig, wire, calls2, late2)
<1>1. /\ calls \in [Workers -> CallRow] /\ calls2 \in [Workers -> CallRow] /\ calls2[q] = c
      /\ \A u \in Workers : u # q => calls2[u] = calls[u]
  BY DEF OutboxOk
<1>2. \A u \in Workers : CallKnown(rows, calls2[u])
  <2> SUFFICES ASSUME NEW u \in Workers PROVE CallKnown(rows, calls2[u])
    OBVIOUS
  <2>1. CASE u = q
    BY <1>1, <2>1 DEF CallKnown
  <2>2. CASE u # q
    BY <1>1, <2>2 DEF OutboxOk
  <2> QED BY <2>1, <2>2
<1>3. \A e : e # d => Calls(calls2, e) = Calls(calls, e)
  BY <1>1 DEF Calls, Outbox!idle
<1>4. ASSUME NEW e \in Days \ late2 PROVE DayOk(sum, rows, fig, wire, calls2, e)
  <2>1. DayOk(sum, rows, fig, wire, calls, e)
    BY <1>4 DEF OutboxOk
  <2>2. CASE e # d
    <3>1. \A u \in Calls(calls, e) : calls2[u] = calls[u]
      BY <1>1, <2>2 DEF Calls, Outbox!idle
    <3> QED BY <1>3, <2>1, <2>2, <3>1 DEF DayOk, CallAlone
  <2>3. CASE e = d
    <3>1. Calls(calls2, d) = {q}
      BY <1>1, <1>4, <2>3 DEF Calls
    <3>2. \A i \in DOMAIN rows : rows[i].status = "pending" /\ rows[i].day = d => c.entry = i
      BY <2>1, <2>3 DEF DayOk, RowsFresh
    <3>3. CallAlone(rows, fig, calls2, d)
      BY <1>1, <1>4, <2>3, <3>1, <3>2 DEF CallAlone
    <3> QED BY <2>1, <2>3, <3>3 DEF DayOk
  <2> QED BY <2>2, <2>3
<1> QED BY <1>1, <1>2, <1>4 DEF OutboxOk

\* A call is over, or its process died.
LEMMA HungUp ==
    ASSUME NEW sum, NEW rows, NEW fig, NEW wire, NEW calls, NEW late,
           OutboxOk(sum, rows, fig, wire, calls, late), NEW q \in Workers,
           NEW calls2, calls2 = [calls EXCEPT ![q] = Outbox!idle]
    PROVE  OutboxOk(sum, rows, fig, wire, calls2, late)
<1>1. /\ calls2 \in [Workers -> CallRow] /\ calls2[q] = Outbox!idle
      /\ \A u \in Workers : u # q => calls2[u] = calls[u]
  BY DEF OutboxOk, CallRow
<1>2. \A u \in Workers : CallKnown(rows, calls2[u])
  BY <1>1 DEF OutboxOk, CallKnown, Outbox!idle
<1>3. \A e : Calls(calls2, e) = Calls(calls, e) \ {q}
  BY <1>1 DEF Calls, Outbox!idle
<1>4. ASSUME NEW e \in Days \ late PROVE DayOk(sum, rows, fig, wire, calls2, e)
  <2>1. DayOk(sum, rows, fig, wire, calls, e)
    BY DEF OutboxOk
  <2>2. ASSUME NEW u \in Calls(calls2, e)
        PROVE  u \in Calls(calls, e) /\ calls2[u] = calls[u] /\ Calls(calls2, e) = {u}
    <3>1. u \in Calls(calls, e) /\ u # q /\ u \in Workers
      BY <1>3 DEF Calls
    <3>2. Calls(calls, e) = {u}
      BY <2>1, <3>1 DEF DayOk, CallAlone
    <3> QED BY <1>1, <1>3, <3>1, <3>2
  <2> QED BY <2>1, <2>2 DEF DayOk, CallAlone
<1> QED BY <1>1, <1>2, <1>4 DEF OutboxOk

\* What a branch has when the figures of a day are new: the entry of the day is pending and
\* carries them, the others are as they were.
Renews(rows, fig, d, v, i, rows2, fig2) ==
    /\ rows2 \in Seq(OutRow) /\ fig2 \in [Days -> Nat]
    /\ DOMAIN rows2 = DOMAIN rows \cup {i}
    /\ rows2[i].version = v /\ rows2[i].day = d /\ rows2[i].status = "pending"
    /\ \A k \in DOMAIN rows : k # i => rows2[k] = rows[k]
    /\ i \in DOMAIN rows => rows[i].day = d
    /\ \A e \in Days : e # d => fig2[e] = fig[e]

Reach(wire, d) == \E f \in Flushers : \E n \in DOMAIN wire[f] : wire[f][n].day = d

\* the call c of q has written them
Written(calls, late, q, c, wire, fig2, i, calls2, late2) ==
    /\ c = calls[q] /\ c.at = "write" /\ calls2 = [calls EXCEPT ![q] = Outbox!idle]
    /\ c.day \notin late => fig2[c.day] = c.version
    /\ c.entry # 0 => i = c.entry
    /\ late \subseteq late2 /\ (Reach(wire, c.day) => c.day \in late2)

LEMMA Renewed ==
    ASSUME NEW sum, NEW rows, NEW fig, NEW wire, NEW calls, NEW late,
           OutboxOk(sum, rows, fig, wire, calls, late),
           NEW q \in Workers, NEW c, NEW i, NEW rows2, NEW fig2, NEW late2, NEW calls2,
           Renews(rows, fig, c.day, c.version, i, rows2, fig2),
           Written(calls, late, q, c, wire, fig2, i, calls2, late2), c.day \in Days
    PROVE  OutboxOk(sum, rows2, fig2, wire, calls2, late2)
<1>0. PICK d, v : d = c.day /\ v = c.version
  OBVIOUS
<1>8. /\ calls2 = [calls EXCEPT ![q] = Outbox!idle] /\ late \subseteq late2
      /\ calls[q].at = "write" /\ calls[q].day = d
      /\ (d \notin late => fig2[d] = v) /\ (calls[q].entry # 0 => i = calls[q].entry)
  BY <1>0 DEF Written
<1>9. ~Reach(wire, d) \/ d \in late2
  BY <1>0 DEF Written
<1>10. Renews(rows, fig, d, v, i, rows2, fig2) /\ d \in Days
  BY <1>0
<1>1. OutboxOk(sum, rows, fig, wire, calls2, late)
  BY <1>8, HungUp
<1>2. \A k \in DOMAIN rows : k \in DOMAIN rows2 /\ rows2[k].day = rows[k].day
  BY <1>10 DEF Renews
<1>3. WireKnown(rows2, wire)
  BY <1>2 DEF OutboxOk, WireKnown
<1>4. \A u \in Workers : CallKnown(rows2, calls2[u])
  BY <1>1, <1>2 DEF OutboxOk, CallKnown
<1>5. ASSUME NEW e \in Days \ late2, e # d PROVE DayOk(sum, rows2, fig2, wire, calls2, e)
  <2>1. DayOk(sum, rows, fig, wire, calls2, e)
    BY <1>1, <1>5, <1>8 DEF OutboxOk
  <2>2. fig2[e] = fig[e]
    BY <1>5, <1>10 DEF Renews
  <2>3. \A k \in DOMAIN rows2 : rows2[k].day = e => k \in DOMAIN rows /\ rows2[k] = rows[k]
    BY <1>5, <1>10 DEF Renews
  <2>4. \A k \in DOMAIN rows : rows[k].day = e => k \in DOMAIN rows2 /\ rows2[k] = rows[k]
    BY <1>5, <1>10 DEF Renews
  <2>5. RowsFresh(rows2, fig2, e)
    BY <2>1, <2>2, <2>3 DEF DayOk, RowsFresh
  <2>6. WireFresh(sum, fig2, wire, e)
    BY <2>1, <2>2 DEF DayOk, WireFresh
  <2>7. CallAlone(rows2, fig2, calls2, e)
    BY <2>1, <2>2, <2>3 DEF DayOk, CallAlone
  <2>8. DaySent(rows2, e) => sum[e] = fig2[e]
    BY <2>1, <2>2, <2>4 DEF DayOk, DaySent
  <2> QED BY <2>5, <2>6, <2>7, <2>8 DEF DayOk
<1>6. ASSUME d \notin late2 PROVE DayOk(sum, rows2, fig2, wire, calls2, d)
  <2>1. DayOk(sum, rows, fig, wire, calls, d) /\ fig2[d] = v
    BY <1>6, <1>8, <1>10 DEF OutboxOk
  <2>2. Calls(calls, d) = {q}
    BY <1>8, <2>1 DEF DayOk, CallAlone, Calls
  <2>3. Calls(calls2, d) = {}
    BY <1>8, <2>2 DEF OutboxOk, Calls, Outbox!idle
  <2>4. \A k \in DOMAIN rows2 : rows2[k].status = "pending" /\ rows2[k].day = d => k = i
    <3> SUFFICES ASSUME NEW k \in DOMAIN rows2, rows2[k].status = "pending", rows2[k].day = d,
                        k # i
                 PROVE  FALSE
      OBVIOUS
    <3>1. k \in DOMAIN rows /\ rows[k].status = "pending" /\ rows[k].day = d
      BY <1>10 DEF Renews
    <3>2. calls[q].entry = k
      BY <2>1, <2>2, <3>1 DEF DayOk, CallAlone
    <3>3. k # 0
      <4>1. rows \in Seq(OutRow)
        BY DEF OutboxOk
      <4> QED BY <3>1, <4>1
    <3> QED BY <1>8, <3>2, <3>3
  <2>5. RowsFresh(rows2, fig2, d)
    BY <1>10, <2>1, <2>4 DEF Renews, RowsFresh
  <2>6. WireFresh(sum, fig2, wire, d)
    BY <1>6, <1>9 DEF WireFresh, Reach
  <2>7. CallAlone(rows2, fig2, calls2, d)
    BY <2>3 DEF CallAlone
  <2>8. ~DaySent(rows2, d)
    BY <1>10 DEF DaySent, Renews
  <2> QED BY <2>5, <2>6, <2>7, <2>8 DEF DayOk
<1>7. /\ sum \in [Days -> Nat] /\ fig2 \in [Days -> Nat] /\ rows2 \in Seq(OutRow)
      /\ wire \in [Flushers -> Seq(WireRow)] /\ calls2 \in [Workers -> CallRow]
  BY <1>1, <1>10 DEF OutboxOk, Renews
<1>11. \A e \in Days \ late2 : DayOk(sum, rows2, fig2, wire, calls2, e)
  BY <1>5, <1>6
<1> QED BY <1>3, <1>4, <1>7, <1>11 DEF OutboxOk

\* A flush reads pending entries.
LEMMA Carried ==
    ASSUME NEW sum, NEW rows, NEW fig, NEW wire, NEW calls, NEW late,
           OutboxOk(sum, rows, fig, wire, calls, late),
           NEW f \in Flushers, NEW copy \in Seq(WireRow),
           \A n \in DOMAIN copy : \E i \in DOMAIN rows :
               /\ rows[i].status = "pending"
               /\ copy[n] = [id |-> i, day |-> rows[i].day, version |-> rows[i].version, answer |-> "none"]
    PROVE  OutboxOk(sum, rows, fig, [wire EXCEPT ![f] = copy], calls, late)
<1> DEFINE wire2 == [wire EXCEPT ![f] = copy]
<1>1. rows \in Seq(OutRow) /\ wire \in [Flushers -> Seq(WireRow)]
  BY DEF OutboxOk
<1>2. ASSUME NEW n \in DOMAIN copy
      PROVE  /\ copy[n].id \in DOMAIN rows /\ copy[n].answer = "none"
             /\ copy[n].day = rows[copy[n].id].day /\ copy[n].version = rows[copy[n].id].version
             /\ rows[copy[n].id].status = "pending"
  <2>1. PICK i \in DOMAIN rows :
            /\ rows[i].status = "pending"
            /\ copy[n] = [id |-> i, day |-> rows[i].day, version |-> rows[i].version, answer |-> "none"]
    OBVIOUS
  <2> QED BY <2>1
<1>4. /\ wire2 \in [Flushers -> Seq(WireRow)] /\ wire2[f] = copy
      /\ \A g \in Flushers : g # f => wire2[g] = wire[g]
  BY <1>1
<1> HIDE DEF wire2
<1>5. WireKnown(rows, wire2)
  <2> SUFFICES ASSUME NEW g \in Flushers, NEW n \in DOMAIN wire2[g]
               PROVE  wire2[g][n].id \in DOMAIN rows /\ rows[wire2[g][n].id].day = wire2[g][n].day
    BY DEF WireKnown
  <2>1. CASE g = f
    BY <1>2, <1>4, <2>1
  <2>2. CASE g # f
    BY <1>4, <2>2 DEF OutboxOk, WireKnown
  <2> QED BY <2>1, <2>2
<1>6. ASSUME NEW d \in Days \ late PROVE WireFresh(sum, fig, wire2, d)
  <2> SUFFICES ASSUME NEW g \in Flushers, NEW n \in DOMAIN wire2[g], wire2[g][n].day = d
               PROVE  wire2[g][n].version = fig[d] /\ (wire2[g][n].answer = "ok" => sum[d] = fig[d])
    BY DEF WireFresh
  <2>1. CASE g = f
    <3>1. n \in DOMAIN copy /\ wire2[g][n] = copy[n]
      BY <1>4, <2>1
    <3>2. PICK i \in DOMAIN rows : i = copy[n].id
      BY <1>2, <3>1
    <3>3. rows[i].status = "pending" /\ rows[i].day = d /\ copy[n].version = rows[i].version
      BY <1>2, <3>1, <3>2
    <3>4. rows[i].version = fig[d]
      BY <3>3 DEF OutboxOk, DayOk, RowsFresh
    <3> QED BY <1>2, <3>1, <3>3, <3>4
  <2>2. CASE g # f
    BY <1>4, <2>2 DEF OutboxOk, DayOk, WireFresh
  <2> QED BY <2>1, <2>2
<1>7. \A d \in Days \ late : DayOk(sum, rows, fig, wire2, calls, d)
  BY <1>6 DEF OutboxOk, DayOk
<1> QED BY <1>4, <1>5, <1>7 DEF OutboxOk, wire2

\* A flush forgets what it has read, or the first of it.
LEMMA Dropped ==
    ASSUME NEW sum, NEW rows, NEW fig, NEW wire, NEW calls, NEW late,
           OutboxOk(sum, rows, fig, wire, calls, late),
           NEW f \in Flushers, NEW copy \in Seq(WireRow),
           \A n \in DOMAIN copy : \E m \in DOMAIN wire[f] : copy[n] = wire[f][m]
    PROVE  OutboxOk(sum, rows, fig, [wire EXCEPT ![f] = copy], calls, late)
<1> DEFINE wire2 == [wire EXCEPT ![f] = copy]
<1>1. /\ wire2 \in [Flushers -> Seq(WireRow)]
      /\ \A g \in Flushers : \A n \in DOMAIN wire2[g] : \E m \in DOMAIN wire[g] : wire2[g][n] = wire[g][m]
  BY DEF OutboxOk
<1> HIDE DEF wire2
<1>2. WireKnown(rows, wire2)
  BY <1>1 DEF OutboxOk, WireKnown
<1>3. ASSUME NEW d \in Days \ late PROVE WireFresh(sum, fig, wire2, d)
  BY <1>1 DEF OutboxOk, DayOk, WireFresh
<1>4. \A d \in Days \ late : DayOk(sum, rows, fig, wire2, calls, d)
  BY <1>3 DEF OutboxOk, DayOk
<1> QED BY <1>1, <1>2, <1>4 DEF OutboxOk, wire2

\* Head office has stored a copy, or refused it, and the flush has an answer or none.
LEMMA Posted ==
    ASSUME NEW sum, NEW rows, NEW fig, NEW wire, NEW calls, NEW late,
           OutboxOk(sum, rows, fig, wire, calls, late),
           NEW f \in Flushers, wire[f] # <<>>, NEW e, e = wire[f][1],
           NEW a \in {"ok", "error"}, NEW sum2,
           \/ sum2 = [sum EXCEPT ![e.day] = e.version]
           \/ sum2 = sum /\ a = "error"
    PROVE  OutboxOk(sum2, rows, fig, [wire EXCEPT ![f][1].answer = a], calls, late)
<1>1. wire \in [Flushers -> Seq(WireRow)] /\ sum \in [Days -> Nat]
  BY DEF OutboxOk
<1>2. 1 \in DOMAIN wire[f] /\ e \in WireRow
  BY <1>1
<1>3. PICK e2 : e2 = [e EXCEPT !.answer = a]
  OBVIOUS
<1>4. /\ e2 \in WireRow /\ e2.id = e.id /\ e2.day = e.day /\ e2.version = e.version
      /\ e2.answer = a /\ e.day \in Days /\ e.version \in Nat
  BY <1>2, <1>3 DEF WireRow
<1> DEFINE line == [wire[f] EXCEPT ![1] = e2]
           wire2 == [wire EXCEPT ![f] = line]
<1>5. wire2 = [wire EXCEPT ![f][1].answer = a]
  BY <1>3
<1>6. /\ line \in Seq(WireRow) /\ DOMAIN line = DOMAIN wire[f] /\ line[1] = e2
      /\ \A n \in DOMAIN line : n # 1 => line[n] = wire[f][n]
  BY <1>1, <1>2, <1>4
<1> HIDE DEF line
<1>7. /\ wire2 \in [Flushers -> Seq(WireRow)] /\ wire2[f] = line
      /\ \A g \in Flushers : g # f => wire2[g] = wire[g]
  BY <1>1, <1>6
<1> HIDE DEF wire2
<1>8. /\ sum2 \in [Days -> Nat] /\ \A d \in Days : d # e.day => sum2[d] = sum[d]
      /\ a = "ok" => sum2[e.day] = e.version
      /\ sum2[e.day] \in {sum[e.day], e.version}
  BY <1>1, <1>4
<1>9. WireKnown(rows, wire2)
  <2> SUFFICES ASSUME NEW g \in Flushers, NEW n \in DOMAIN wire2[g]
               PROVE  wire2[g][n].id \in DOMAIN rows /\ rows[wire2[g][n].id].day = wire2[g][n].day
    BY DEF WireKnown
  <2>1. CASE g = f /\ n = 1
    <3>1. e.id \in DOMAIN rows /\ rows[e.id].day = e.day
      BY <1>2 DEF OutboxOk, WireKnown
    <3> QED BY <1>4, <1>6, <1>7, <2>1, <3>1
  <2>2. CASE ~(g = f /\ n = 1)
    <3>1. n \in DOMAIN wire[g] /\ wire2[g][n] = wire[g][n]
      BY <1>6, <1>7, <2>2
    <3> QED BY <3>1 DEF OutboxOk, WireKnown
  <2> QED BY <2>1, <2>2
<1>10. ASSUME NEW d \in Days \ late
       PROVE  WireFresh(sum2, fig, wire2, d) /\ (DaySent(rows, d) => sum2[d] = fig[d])
  <2>1. WireFresh(sum, fig, wire, d) /\ (DaySent(rows, d) => sum[d] = fig[d])
    BY DEF OutboxOk, DayOk
  <2>2. d = e.day => e.version = fig[d]
    BY <1>2, <2>1 DEF WireFresh
  <2>3. sum[d] = fig[d] => sum2[d] = fig[d]
    BY <1>8, <2>2
  <2>4. ASSUME NEW g \in Flushers, NEW n \in DOMAIN wire2[g], wire2[g][n].day = d
        PROVE  wire2[g][n].version = fig[d] /\ (wire2[g][n].answer = "ok" => sum2[d] = fig[d])
    <3>1. CASE g = f /\ n = 1
      BY <1>4, <1>6, <1>7, <1>8, <2>2, <2>4, <3>1
    <3>2. CASE ~(g = f /\ n = 1)
      <4>1. n \in DOMAIN wire[g] /\ wire2[g][n] = wire[g][n]
        BY <1>6, <1>7, <3>2
      <4> QED BY <2>1, <2>3, <2>4, <4>1 DEF WireFresh
    <3> QED BY <3>1, <3>2
  <2> QED BY <2>1, <2>3, <2>4 DEF WireFresh
<1>11. \A d \in Days \ late : DayOk(sum2, rows, fig, wire2, calls, d)
  BY <1>10 DEF OutboxOk, DayOk
<1> QED BY <1>5, <1>7, <1>8, <1>9, <1>11 DEF OutboxOk

\* An answered copy's entry is marked.
LEMMA Marked ==
    ASSUME NEW sum, NEW rows, NEW fig, NEW wire, NEW calls, NEW late,
           OutboxOk(sum, rows, fig, wire, calls, late),
           NEW f \in Flushers, wire[f] # <<>>, NEW e, e = wire[f][1], e.answer = "ok"
    PROVE  OutboxOk(sum, [rows EXCEPT ![e.id].status = "sent"], fig, wire, calls, late)
<1>1. rows \in Seq(OutRow) /\ wire \in [Flushers -> Seq(WireRow)]
  BY DEF OutboxOk
<1>2. 1 \in DOMAIN wire[f]
  BY <1>1
<1>3. PICK i \in DOMAIN rows : i = e.id /\ rows[i].day = e.day
  BY <1>2 DEF OutboxOk, WireKnown
<1>4. PICK r : r = [rows[i] EXCEPT !.status = "sent"]
  OBVIOUS
<1>5. rows[i] \in OutRow
  BY <1>1
<1>6. r \in OutRow /\ r.day = e.day /\ r.status = "sent"
  BY <1>3, <1>4, <1>5 DEF OutRow
<1> DEFINE rows2 == [rows EXCEPT ![i] = r]
<1>7. rows2 = [rows EXCEPT ![e.id].status = "sent"]
  BY <1>3, <1>4
<1>8. /\ rows2 \in Seq(OutRow) /\ DOMAIN rows2 = DOMAIN rows /\ rows2[i] = r
      /\ \A k \in DOMAIN rows : k # i => rows2[k] = rows[k]
  BY <1>1, <1>6
<1> HIDE DEF rows2
<1>9. \A k \in DOMAIN rows : rows2[k].day = rows[k].day
                            /\ (rows2[k].status = "pending" => rows2[k] = rows[k])
  BY <1>3, <1>6, <1>8
<1>10. \A d \in Days \ late : RowsFresh(rows2, fig, d) /\ CallAlone(rows2, fig, calls, d)
  BY <1>8, <1>9 DEF OutboxOk, DayOk, RowsFresh, CallAlone
<1>11. WireKnown(rows2, wire) /\ \A q \in Workers : CallKnown(rows2, calls[q])
  BY <1>8, <1>9 DEF OutboxOk, WireKnown, CallKnown
<1>12. ASSUME NEW d \in Days \ late PROVE DaySent(rows2, d) => sum[d] = fig[d]
  <2>1. WireFresh(sum, fig, wire, d) /\ (DaySent(rows, d) => sum[d] = fig[d])
    BY DEF OutboxOk, DayOk
  <2>2. CASE d = e.day
    BY <1>2, <2>1, <2>2 DEF WireFresh
  <2>3. CASE d # e.day
    <3>1. DaySent(rows2, d) => DaySent(rows, d)
      BY <1>3, <1>8, <2>3 DEF DaySent
    <3> QED BY <2>1, <3>1
  <2> QED BY <2>2, <2>3
<1>13. \A d \in Days \ late : DayOk(sum, rows2, fig, wire, calls, d)
  BY <1>10, <1>12 DEF OutboxOk, DayOk
<1> QED BY <1>7, <1>8, <1>11, <1>13 DEF OutboxOk

Late(b) == {d \in Days : <<b, d>> \in v10.days}

SyncShape ==
    /\ v6 = [b \in Branches |-> v6[b]] /\ v7 = [b \in Branches |-> v7[b]]
    /\ v8 = [b \in Branches |-> v8[b]] /\ v9 = [b \in Branches |-> v9[b]]
    /\ v11 = [b \in Branches |-> v11[b]]
    /\ {"codes", "days"} \subseteq DOMAIN v10

SyncInv ==
    /\ SyncShape
    /\ \A b \in Branches : OutboxOk(v6[b], v7[b], v8[b], v9[b], v11[b], Late(b))

\* A step of one branch.
LEMMA SyncAt ==
    ASSUME SyncInv, SyncShape', NEW b \in Branches,
           \A c \in Branches \ {b} : /\ v6'[c] = v6[c] /\ v7'[c] = v7[c]
                                     /\ v8'[c] = v8[c] /\ v9'[c] = v9[c]
                                     /\ v11'[c] = v11[c] /\ Late(c)' = Late(c),
           OutboxOk(v6'[b], v7'[b], v8'[b], v9'[b], v11'[b], Late(b)')
    PROVE  SyncInv'
BY DEF SyncInv

LEMMA SyncInit == Outbox!Init => SyncInv
<1> SUFFICES ASSUME Outbox!Init PROVE SyncInv
  OBVIOUS
<1>1. /\ v6 = [b \in Branches |-> [d \in Days |-> 0]] /\ v7 = [b \in Branches |-> <<>>]
      /\ v8 = [b \in Branches |-> [d \in Days |-> 0]]
      /\ v9 = [b \in Branches |-> [f \in Flushers |-> <<>>]]
      /\ v11 = [b \in Branches |-> [q \in Workers |-> Outbox!idle]]
      /\ v10 = [codes |-> {}, days |-> {}]
  BY DEF Outbox!Init
<1>2. OutboxOk([d \in Days |-> 0], <<>>, [d \in Days |-> 0], [f \in Flushers |-> <<>>],
               [q \in Workers |-> Outbox!idle], {})
  <2>1. PICK sum, wire, calls : /\ sum = [d \in Days |-> 0] /\ wire = [f \in Flushers |-> <<>>]
                                /\ calls = [q \in Workers |-> Outbox!idle]
    OBVIOUS
  <2>2. /\ sum \in [Days -> Nat] /\ wire \in [Flushers -> Seq(WireRow)]
        /\ calls \in [Workers -> CallRow] /\ \A q \in Workers : calls[q] = Outbox!idle
        /\ \A d \in Days : sum[d] = 0
        /\ \A f \in Flushers : wire[f] = <<>>
    BY <2>1 DEF CallRow
  <2>3. \A q \in Workers : calls[q].at = "idle"
    BY <2>2 DEF Outbox!idle
  <2>4. \A d \in Days : DayOk(sum, <<>>, sum, wire, calls, d)
    BY <2>2, <2>3 DEF DayOk, RowsFresh, WireFresh, CallAlone, Calls
  <2>5. OutboxOk(sum, <<>>, sum, wire, calls, {})
    BY <2>2, <2>3, <2>4 DEF OutboxOk, WireKnown, CallKnown
  <2> QED BY <2>1, <2>5
<1>3. SyncShape /\ \A b \in Branches : Late(b) = {}
  BY <1>1 DEF SyncShape, Late
<1> QED BY <1>1, <1>2, <1>3 DEF SyncInv

\* Registration and revocation know no figures.
LEMMA SyncUntouched ==
    ASSUME SyncInv, UNCHANGED <<v6, v7, v8, v9, v11>>, v10'.days = v10.days,
           {"codes", "days"} \subseteq DOMAIN v10'
    PROVE  SyncInv'
<1>1. \A b \in Branches : Late(b)' = Late(b)
  BY DEF Late
<1>2. SyncShape'
  BY DEF SyncInv, SyncShape
<1> QED BY <1>1, <1>2 DEF SyncInv

LEMMA QueuingIs ==
    ASSUME NEW b, NEW d, NEW calls, calls = v11[b], calls \in [Workers -> CallRow]
    PROVE  Outbox!Queuing(b, d) = Calls(calls, d)
<1>1. \A q \in Workers : calls[q] # Outbox!idle <=> calls[q].at = "write"
  BY DEF CallRow, Outbox!idle
<1> QED BY <1>1 DEF Outbox!Queuing, Calls

LEMMA Newer ==
    ASSUME NEW b, NEW d, NEW calls, calls = v11[b], calls \in [Workers -> CallRow],
           v8[b][d] \in Nat
    PROVE  /\ Outbox!NextVersion(b, d) \in Nat
           /\ Outbox!NextVersion(b, d) > v8[b][d]
<1>1. Outbox!Cardinality(Outbox!Queuing(b, d)) = Cardinality(Calls(calls, d))
  <2>1. Outbox!Queuing(b, d) = Calls(calls, d)
    BY QueuingIs
  <2> QED BY <2>1, Zenon DEF Outbox!Cardinality, Cardinality
<1>2. Cardinality(Calls(calls, d)) \in Nat
  <2>1. IsFiniteSet(Calls(calls, d))
    BY PartsAssumption, FS_Subset DEF Calls
  <2> QED BY <2>1, FS_CardinalityType
<1>3. PICK a, n \in Nat : a = v8[b][d] /\ n = Cardinality(Calls(calls, d))
  BY <1>2
<1>4. Outbox!NextVersion(b, d) = a + n + 1
  BY <1>1, <1>3 DEF Outbox!NextVersion
<1> QED BY <1>3, <1>4

\* An entry found is pending, and of the day; if none is found there is none.
LEMMA ExistingIs ==
    ASSUME NEW b, NEW d, NEW rows, rows = v7[b], NEW i \in Outbox!Existing(b, d)
    PROVE  \/ i \in DOMAIN rows /\ rows[i].status = "pending" /\ rows[i].day = d
           \/ i = 0 /\ \A k \in DOMAIN rows : rows[k].status = "pending" => rows[k].day # d
BY DEF Outbox!Existing, Outbox!Pending

LEMMA LateMarked ==
    ASSUME SyncShape, NEW b, NEW d, NEW overtaken \in BOOLEAN, Outbox!Blur(b, d, overtaken)
    PROVE  /\ {"codes", "days"} \subseteq DOMAIN v10'
           /\ \A c : c # b => Late(c)' = Late(c)
           /\ Late(b) \subseteq Late(b)' /\ (overtaken /\ d \in Days => d \in Late(b)')
<1>1. v10' = IF overtaken THEN [v10 EXCEPT !.days = @ \cup {<<b, d>>}] ELSE v10
  BY DEF Outbox!Blur
<1>2. {"codes", "days"} \subseteq DOMAIN v10
  BY DEF SyncShape
<1>3. /\ {"codes", "days"} \subseteq DOMAIN v10'
      /\ v10'.days \in {v10.days, v10.days \cup {<<b, d>>}}
      /\ overtaken => v10'.days = v10.days \cup {<<b, d>>}
  BY <1>1, <1>2
<1> QED BY <1>3 DEF Late

LEMMA ReadKeeps ==
    ASSUME SyncInv, NEW b \in Branches, NEW q \in Workers, NEW d \in Days, Outbox!QueueRead(b, q, d)
    PROVE  SyncInv'
<1>1. PICK sum, rows, fig, wire, calls, late :
          /\ sum = v6[b] /\ rows = v7[b] /\ fig = v8[b] /\ wire = v9[b]
          /\ calls = v11[b] /\ late = Late(b)
  OBVIOUS
<1>2. OutboxOk(sum, rows, fig, wire, calls, late) /\ SyncShape
  BY <1>1 DEF SyncInv
<1>3. calls \in [Workers -> CallRow] /\ rows \in Seq(OutRow) /\ fig[d] \in Nat
  BY <1>2 DEF OutboxOk
<1>4. PICK v \in Nat : v = Outbox!NextVersion(b, d) /\ v > fig[d]
  BY <1>1, <1>3, Newer
<1>5. PICK i \in Outbox!Existing(b, d) :
          /\ calls[q] = Outbox!idle
          /\ v11' = [v11 EXCEPT ![b][q] = [at |-> "write", day |-> d, entry |-> i, version |-> v]]
          /\ Outbox!Blur(b, d, Outbox!Queuing(b, d) # {})
          /\ UNCHANGED <<v6, v7, v8, v9>>
  BY <1>1, <1>4 DEF Outbox!QueueRead
<1>6. PICK c : c = [at |-> "write", day |-> d, entry |-> i, version |-> v]
  OBVIOUS
<1>7. PICK calls2 : calls2 = [calls EXCEPT ![q] = c]
  OBVIOUS
<1>8. v11' = [v11 EXCEPT ![b] = calls2]
  BY <1>1, <1>5, <1>6, <1>7
<1>9. /\ {"codes", "days"} \subseteq DOMAIN v10'
      /\ \A o : o # b => Late(o)' = Late(o)
      /\ late \subseteq Late(b)' /\ (Calls(calls, d) # {} => d \in Late(b)')
  <2>1. Outbox!Queuing(b, d) = Calls(calls, d)
    BY <1>1, <1>3, QueuingIs
  <2>2. (Outbox!Queuing(b, d) # {}) \in BOOLEAN
    OBVIOUS
  <2> QED BY <1>1, <1>2, <1>5, <2>1, <2>2, LateMarked
<1>10. PICK late2 : late2 = Late(b)'
  OBVIOUS
<1>11. /\ \/ i \in DOMAIN rows /\ rows[i].status = "pending" /\ rows[i].day = d
          \/ i = 0 /\ \A k \in DOMAIN rows : rows[k].status = "pending" => rows[k].day # d
       /\ i \in Nat
  <2>1. \/ i \in DOMAIN rows /\ rows[i].status = "pending" /\ rows[i].day = d
        \/ i = 0 /\ \A k \in DOMAIN rows : rows[k].status = "pending" => rows[k].day # d
    BY <1>1, <1>5, ExistingIs
  <2>2. i \in DOMAIN rows => i \in Nat
    BY <1>3
  <2> QED BY <2>1, <2>2
<1>12. /\ c.at = "write" /\ c.day = d /\ c.entry = i /\ c.version = v /\ c \in CallRow
  BY <1>6, <1>11 DEF CallRow
<1>13. OutboxOk(sum, rows, fig, wire, calls2, late2)
  <2>1. \/ c.entry \in DOMAIN rows /\ rows[c.entry].status = "pending" /\ rows[c.entry].day = d
        \/ /\ c.entry = 0
           /\ \A k \in DOMAIN rows : rows[k].status = "pending" => rows[k].day # d
    BY <1>11, <1>12
  <2>2. c.entry \in Nat /\ c.version \in Nat /\ c.version > fig[d]
    BY <1>4, <1>11, <1>12
  <2>3. late \subseteq late2 /\ (Calls(calls, d) # {} => d \in late2)
    BY <1>9, <1>10
  <2> QED BY <1>2, <1>5, <1>7, <1>12, <2>1, <2>2, <2>3, Asked
<1>14. SyncShape'
  BY <1>2, <1>5, <1>8, <1>9 DEF SyncShape
<1>15. v11'[b] = calls2 /\ \A o \in Branches \ {b} : v11'[o] = v11[o]
  BY <1>2, <1>8 DEF SyncShape
<1>16. OutboxOk(v6'[b], v7'[b], v8'[b], v9'[b], v11'[b], Late(b)')
  BY <1>1, <1>5, <1>10, <1>13, <1>15
<1> QED BY <1>5, <1>9, <1>14, <1>15, <1>16, SyncAt

LEMMA FiguresWriteKeeps ==
    ASSUME SyncInv, NEW b \in Branches, NEW q \in Workers, Outbox!QueueWrite(b, q) PROVE SyncInv'
<1>1. PICK sum, rows, fig, wire, calls, late :
          /\ sum = v6[b] /\ rows = v7[b] /\ fig = v8[b] /\ wire = v9[b]
          /\ calls = v11[b] /\ late = Late(b)
  OBVIOUS
<1>2. OutboxOk(sum, rows, fig, wire, calls, late) /\ SyncShape
  BY <1>1 DEF SyncInv
<1>3. calls \in [Workers -> CallRow] /\ rows \in Seq(OutRow) /\ fig \in [Days -> Nat]
  BY <1>2 DEF OutboxOk
<1>4. PICK c : c = calls[q]
  OBVIOUS
<1>5. c.at = "write" /\ c.day \in Days /\ c.entry \in Nat /\ c.version \in Nat
  <2>1. c \in CallRow /\ c # Outbox!idle
    BY <1>1, <1>3, <1>4 DEF Outbox!QueueWrite
  <2> QED BY <2>1 DEF CallRow
<1>6. PICK d \in Days, v \in Nat : d = c.day /\ v = c.version
  BY <1>5
<1>7. PICK row : row = [day |-> d, version |-> v, status |-> "pending"]
  OBVIOUS
<1>8. PICK m : m = Outbox!Max({fig[d], v})
  OBVIOUS
<1>9. /\ v7' = [v7 EXCEPT ![b] = IF c.entry = 0 THEN Append(rows, row)
                                 ELSE [rows EXCEPT ![c.entry] = row]]
      /\ v8' = [v8 EXCEPT ![b][d] = m]
      /\ v11' = [v11 EXCEPT ![b][q] = Outbox!idle]
      /\ Outbox!Blur(b, d, Outbox!OnTheWire(b, d)) /\ UNCHANGED <<v6, v9>>
  BY <1>1, <1>4, <1>6, <1>7, <1>8 DEF Outbox!QueueWrite
<1>10. m \in Nat /\ (d \notin late => m = v)
  <2>1. PICK a \in Nat : a = fig[d]
    BY <1>3
  <2>2. d \notin late => v > a
    <3>1. ASSUME d \notin late PROVE v > a
      <4>1. CallAlone(rows, fig, calls, d)
        BY <1>2, <3>1 DEF OutboxOk, DayOk
      <4>2. q \in Calls(calls, d)
        BY <1>4, <1>5, <1>6 DEF Calls
      <4> QED BY <1>4, <1>6, <2>1, <4>1, <4>2 DEF CallAlone
    <3> QED BY <3>1
  <2>3. m = Outbox!Max({a, v})
    BY <1>8, <2>1
  <2>4. m \in {a, v} /\ \A x \in {a, v} : m >= x
    <3>1. \E x \in {a, v} : \A y \in {a, v} : x >= y
      OBVIOUS
    <3> QED BY <2>3, <3>1 DEF Outbox!Max
  <2> QED BY <2>2, <2>4
<1>11. row \in OutRow /\ row.day = d /\ row.version = v /\ row.status = "pending"
  BY <1>7 DEF OutRow
<1>12. PICK rows2 : rows2 = IF c.entry = 0 THEN Append(rows, row) ELSE [rows EXCEPT ![c.entry] = row]
  OBVIOUS
<1>13. PICK fig2 : fig2 = [fig EXCEPT ![d] = m]
  OBVIOUS
<1>14. PICK calls2 : calls2 = [calls EXCEPT ![q] = Outbox!idle]
  OBVIOUS
<1>15. /\ v7' = [v7 EXCEPT ![b] = rows2] /\ v8' = [v8 EXCEPT ![b] = fig2]
       /\ v11' = [v11 EXCEPT ![b] = calls2]
  BY <1>1, <1>9, <1>12, <1>13, <1>14
<1>16. fig2 \in [Days -> Nat] /\ fig2[d] = m /\ \A e \in Days : e # d => fig2[e] = fig[e]
  BY <1>3, <1>10, <1>13
<1>17. PICK i : /\ Renews(rows, fig, d, v, i, rows2, fig2)
                /\ c.entry # 0 => i = c.entry
  <2>1. CASE c.entry = 0
    <3>1. PICK n \in Nat : n = Len(rows)
      BY <1>3
    <3>2. /\ rows2 \in Seq(OutRow) /\ DOMAIN rows2 = DOMAIN rows \cup {n + 1}
          /\ rows2[n + 1] = row /\ n + 1 \notin DOMAIN rows
          /\ \A k \in DOMAIN rows : rows2[k] = rows[k]
      BY <1>3, <1>11, <1>12, <2>1, <3>1
    <3>3. Renews(rows, fig, d, v, n + 1, rows2, fig2)
      BY <1>11, <1>16, <3>2 DEF Renews
    <3> QED BY <2>1, <3>3
  <2>2. CASE c.entry # 0
    <3>1. PICK i \in DOMAIN rows : i = c.entry /\ rows[i].day = d
      BY <1>2, <1>4, <1>5, <1>6, <2>2 DEF OutboxOk, CallKnown
    <3>2. /\ rows2 \in Seq(OutRow) /\ DOMAIN rows2 = DOMAIN rows
          /\ rows2[i] = row /\ \A k \in DOMAIN rows : k # i => rows2[k] = rows[k]
      BY <1>3, <1>11, <1>12, <2>2, <3>1
    <3>3. Renews(rows, fig, d, v, i, rows2, fig2)
      BY <1>11, <1>16, <3>1, <3>2 DEF Renews
    <3> QED BY <3>1, <3>3
  <2> QED BY <2>1, <2>2
<1>18. /\ {"codes", "days"} \subseteq DOMAIN v10'
       /\ \A o : o # b => Late(o)' = Late(o)
       /\ late \subseteq Late(b)' /\ (Outbox!OnTheWire(b, d) => d \in Late(b)')
  <2>1. Outbox!OnTheWire(b, d) \in BOOLEAN
    BY DEF Outbox!OnTheWire
  <2> QED BY <1>1, <1>2, <1>9, <2>1, LateMarked
<1>19. PICK late2 : late2 = Late(b)'
  OBVIOUS
<1>20. OutboxOk(sum, rows2, fig2, wire, calls2, late2)
  <2>1. late \subseteq late2 /\ (Reach(wire, d) => d \in late2)
    BY <1>1, <1>18, <1>19 DEF Outbox!OnTheWire, Reach
  <2>2. Written(calls, late, q, c, wire, fig2, i, calls2, late2)
    BY <1>4, <1>5, <1>6, <1>10, <1>14, <1>16, <1>17, <2>1 DEF Written
  <2>3. Renews(rows, fig, c.day, c.version, i, rows2, fig2)
    BY <1>6, <1>17
  <2> QED BY <1>2, <1>5, <2>2, <2>3, Renewed
<1>21. SyncShape'
  BY <1>2, <1>9, <1>15, <1>18 DEF SyncShape
<1>22. /\ v11'[b] = calls2 /\ v7'[b] = rows2 /\ v8'[b] = fig2
       /\ \A o \in Branches \ {b} : v11'[o] = v11[o] /\ v7'[o] = v7[o] /\ v8'[o] = v8[o]
  BY <1>2, <1>15 DEF SyncShape
<1>23. OutboxOk(v6'[b], v7'[b], v8'[b], v9'[b], v11'[b], Late(b)')
  BY <1>1, <1>9, <1>19, <1>20, <1>22
<1>24. \A o \in Branches \ {b} : v6'[o] = v6[o] /\ v9'[o] = v9[o]
  BY <1>9
<1> QED BY <1>18, <1>21, <1>22, <1>23, <1>24, SyncAt

LEMMA SyncStep == SyncInv /\ Outbox!Next => SyncInv'
<1> SUFFICES ASSUME SyncInv, Outbox!Next PROVE SyncInv'
  OBVIOUS
<1>0. SyncShape /\ {"codes", "days"} \subseteq DOMAIN v10
  BY DEF SyncInv, SyncShape
<1>1. CASE \/ Outbox!GenerateCode
           \/ \E k \in DOMAIN v1 : Outbox!Expire(k) \/ Outbox!RegisterRefused(k)
           \/ \E r \in Workers : Outbox!RegisterUse(r) \/ Outbox!RegisterWrite(r)
           \/ \E b \in Branches : Outbox!Revoke(b)
  <2>1. UNCHANGED <<v6, v7, v8, v9, v10, v11>>
    BY <1>1 DEF Outbox!GenerateCode, Outbox!Expire, Outbox!RegisterRefused, Outbox!RegisterUse,
                Outbox!RegisterWrite, Outbox!Revoke, Outbox!sync
  <2> QED BY <1>0, <2>1, SyncUntouched
<1>2. ASSUME NEW r \in Workers, NEW b \in Branches, NEW k \in DOMAIN v1, Outbox!RegisterRead(r, b, k)
      PROVE  SyncInv'
  <2>1. /\ UNCHANGED <<v6, v7, v8, v9, v11>>
        /\ \/ v10' = v10
           \/ v10' = [v10 EXCEPT !.codes = @ \cup {k}]
    BY <1>2 DEF Outbox!RegisterRead, Outbox!sync
  <2>2. v10'.days = v10.days /\ {"codes", "days"} \subseteq DOMAIN v10'
    BY <1>0, <2>1
  <2> QED BY <2>1, <2>2, SyncUntouched
<1>3. ASSUME NEW b \in Branches, NEW q \in Workers, NEW d \in Days, Outbox!QueueRead(b, q, d)
      PROVE  SyncInv'
  BY <1>3, ReadKeeps
<1>6. ASSUME NEW b \in Branches, NEW q \in Workers, Outbox!QueueWrite(b, q) PROVE SyncInv'
  BY <1>6, FiguresWriteKeeps
<1>7. ASSUME NEW b \in Branches, NEW q \in Workers, Outbox!QueueDies(b, q) PROVE SyncInv'
  <2>1. UNCHANGED <<v6, v7, v8, v9, v10>> /\ v11' = [v11 EXCEPT ![b][q] = Outbox!idle]
    BY <1>7 DEF Outbox!QueueDies
  <2>2. PICK calls2 : calls2 = [v11[b] EXCEPT ![q] = Outbox!idle]
    OBVIOUS
  <2>3. /\ v11'[b] = calls2 /\ \A c \in Branches \ {b} : v11'[c] = v11[c]
        /\ SyncShape' /\ \A c : Late(c)' = Late(c)
    BY <1>0, <2>1, <2>2 DEF SyncShape, Late
  <2>4. OutboxOk(v6[b], v7[b], v8[b], v9[b], calls2, Late(b))
    BY <2>2, HungUp DEF SyncInv
  <2>5. OutboxOk(v6'[b], v7'[b], v8'[b], v9'[b], v11'[b], Late(b)')
    BY <2>1, <2>3, <2>4
  <2>6. \A c \in Branches \ {b} : v6'[c] = v6[c] /\ v7'[c] = v7[c] /\ v8'[c] = v8[c] /\ v9'[c] = v9[c]
    BY <2>1
  <2> QED BY <2>3, <2>5, <2>6, SyncAt
<1>4. ASSUME NEW b \in Branches, NEW sum, NEW rows, NEW fig, NEW wire, NEW calls, NEW late,
             v8[b] = fig, v11[b] = calls, Late(b) = late, OutboxOk(sum, rows, fig, wire, calls, late),
             v9' = [v9 EXCEPT ![b] = wire], v6' = [v6 EXCEPT ![b] = sum],
             v7' = [v7 EXCEPT ![b] = rows], UNCHANGED <<v8, v10, v11>>
      PROVE  SyncInv'
  <2>2. SyncShape'
    BY <1>0, <1>4 DEF SyncShape
  <2>3. v9'[b] = wire /\ v6'[b] = sum /\ v7'[b] = rows /\ v8'[b] = fig /\ v11'[b] = calls
    BY <1>0, <1>4 DEF SyncShape
  <2>4. \A c \in Branches : Late(c)' = Late(c)
    BY <1>4 DEF Late
  <2>5. OutboxOk(v6'[b], v7'[b], v8'[b], v9'[b], v11'[b], Late(b)')
    <3>1. Late(b)' = late
      BY <1>4, <2>4
    <3> QED BY <1>4, <2>3, <3>1
  <2>6. \A c \in Branches \ {b} : v6'[c] = v6[c] /\ v7'[c] = v7[c] /\ v8'[c] = v8[c] /\ v9'[c] = v9[c]
                                /\ v11'[c] = v11[c]
    BY <1>0, <1>4 DEF SyncShape
  <2> QED BY <2>2, <2>4, <2>5, <2>6, SyncAt
<1>5. ASSUME NEW b \in Branches, NEW f \in Flushers,
             \/ Outbox!FlushRead(b, f) \/ Outbox!FlushPost(b, f)
             \/ Outbox!FlushMark(b, f) \/ Outbox!FlushDies(b, f)
      PROVE  SyncInv'
  <2>1. PICK sum, rows, fig, wire, calls, late :
            /\ sum = v6[b] /\ rows = v7[b] /\ fig = v8[b] /\ wire = v9[b]
            /\ calls = v11[b] /\ late = Late(b)
    OBVIOUS
  <2>2. OutboxOk(sum, rows, fig, wire, calls, late)
    BY <2>1 DEF SyncInv
  <2>3. rows \in Seq(OutRow) /\ wire \in [Flushers -> Seq(WireRow)]
    BY <2>2 DEF OutboxOk
  <2>4. /\ v6 = [v6 EXCEPT ![b] = sum] /\ v7 = [v7 EXCEPT ![b] = rows]
        /\ \A copy : [v9 EXCEPT ![b][f] = copy] = [v9 EXCEPT ![b] = [wire EXCEPT ![f] = copy]]
    BY <1>0, <2>1 DEF SyncShape
  <2>5. CASE Outbox!FlushRead(b, f)
    <3> DEFINE mine == {i \in DOMAIN rows : rows[i].status = "pending"}
    <3>1. mine = Outbox!Pending(b)
      BY <2>1 DEF Outbox!Pending
    <3>2. Cardinality(mine) \in Nat
      <4>1. DOMAIN rows = 1 .. Len(rows) /\ Len(rows) \in Nat
        BY <2>3
      <4>2. IsFiniteSet(DOMAIN rows)
        BY <4>1, FS_Interval
      <4>3. IsFiniteSet(mine)
        BY <4>2, FS_Subset
      <4> QED BY <4>3, FS_CardinalityType
    <3> HIDE DEF mine
    <3>3. PICK k \in Nat : k = Outbox!Min({Outbox!Cardinality(mine), BatchSize})
      <4>0. Outbox!Cardinality(mine) = Cardinality(mine)
        BY Zenon DEF Outbox!Cardinality, Cardinality
      <4>1. PICK c \in Nat : c = Outbox!Cardinality(mine)
        BY <3>2, <4>0
      <4>2. PICK m \in Nat : m \in {c, BatchSize} /\ m <= c /\ m <= BatchSize
        BY ExchangeAssumption
      <4>3. Outbox!Min({c, BatchSize}) \in Nat
        BY <4>2, ExchangeAssumption DEF Outbox!Min
      <4> QED BY <4>1, <4>3
    <3>4. PICK batch \in Outbox!FirstPending(b) :
              v9' = [v9 EXCEPT ![b][f] =
                        [n \in DOMAIN batch |-> [id |-> batch[n], day |-> v7[b][batch[n]].day,
                                                 version |-> v7[b][batch[n]].version, answer |-> "none"]]]
      BY <2>5 DEF Outbox!FlushRead
    <3>5. UNCHANGED <<v6, v7, v8, v10, v11>>
      BY <2>5 DEF Outbox!FlushRead
    <3>6. batch \in [1 .. k -> mine]
      <4>1. Outbox!FirstPending(b) \subseteq
                [1 .. Outbox!Min({Outbox!Cardinality(Outbox!Pending(b)), BatchSize}) -> Outbox!Pending(b)]
        BY Zenon DEF Outbox!FirstPending
      <4>2. PICK P : P = Outbox!Pending(b)
        OBVIOUS
      <4>3. P = mine
        BY <3>1, <4>2
      <4>4. batch \in [1 .. Outbox!Min({Outbox!Cardinality(P), BatchSize}) -> P]
        BY <3>4, <4>1, <4>2
      <4>5. Outbox!Min({Outbox!Cardinality(P), BatchSize}) = k
        BY <3>3, <4>3
      <4> QED BY <4>3, <4>4, <4>5
    <3>7. PICK copy : copy = [n \in 1 .. k |->
                                 [id |-> batch[n], day |-> rows[batch[n]].day,
                                  version |-> rows[batch[n]].version, answer |-> "none"]]
      OBVIOUS
    <3>8. v9' = [v9 EXCEPT ![b][f] = copy]
      BY <2>1, <3>4, <3>6, <3>7
    <3>9. \A n \in DOMAIN copy : \E i \in DOMAIN rows :
              /\ rows[i].status = "pending"
              /\ copy[n] = [id |-> i, day |-> rows[i].day, version |-> rows[i].version, answer |-> "none"]
      BY <3>6, <3>7 DEF mine
    <3>10. copy \in Seq(WireRow)
      <4>1. \A i \in DOMAIN rows : rows[i] \in OutRow /\ i \in Nat
        BY <2>3
      <4>2. ASSUME NEW n \in 1 .. k PROVE copy[n] \in WireRow
        <5>1. PICK i \in DOMAIN rows :
                  copy[n] = [id |-> i, day |-> rows[i].day, version |-> rows[i].version, answer |-> "none"]
          BY <3>7, <3>9
        <5>2. rows[i] \in OutRow /\ i \in Nat
          BY <4>1
        <5> QED BY <5>1, <5>2 DEF OutRow, WireRow
      <4>3. copy \in [1 .. k -> WireRow]
        <5>1. DOMAIN copy = 1 .. k /\ copy = [n \in 1 .. k |-> copy[n]]
          BY <3>7
        <5> QED BY <4>2, <5>1
      <4> QED BY <4>3
    <3>11. OutboxOk(sum, rows, fig, [wire EXCEPT ![f] = copy], calls, late)
      BY <2>2, <3>9, <3>10, Carried
    <3>12. v9' = [v9 EXCEPT ![b] = [wire EXCEPT ![f] = copy]]
      BY <2>4, <3>8
    <3> QED BY <1>4, <2>1, <2>4, <3>5, <3>11, <3>12
  <2>6. CASE Outbox!FlushPost(b, f)
    <3>1. PICK e : e = wire[f][1] /\ e = Head(v9[b][f])
      BY <2>1, <2>3
    <3>2. /\ wire[f] # <<>> /\ UNCHANGED <<v7, v8, v10, v11>>
      BY <2>1, <2>6 DEF Outbox!FlushPost
    <3>3. PICK a \in {"ok", "error"} :
              /\ v9' = [v9 EXCEPT ![b][f][1].answer = a]
              /\ \/ v6' = [v6 EXCEPT ![b][e.day] = e.version]
                 \/ v6' = v6 /\ a = "error"
      BY <2>6, <3>1 DEF Outbox!FlushPost, Outbox!ReceiveSummary
    <3>4. PICK sum2 : /\ v6' = [v6 EXCEPT ![b] = sum2]
                      /\ \/ sum2 = [sum EXCEPT ![e.day] = e.version]
                         \/ sum2 = sum /\ a = "error"
      BY <2>1, <2>4, <3>3
    <3>5. v9' = [v9 EXCEPT ![b] = [wire EXCEPT ![f][1].answer = a]]
      BY <2>1, <3>3
    <3>6. OutboxOk(sum2, rows, fig, [wire EXCEPT ![f][1].answer = a], calls, late)
      <4>1. CASE sum2 = [sum EXCEPT ![e.day] = e.version]
        BY <2>2, <3>1, <3>2, <4>1, Posted
      <4>2. CASE sum2 = sum /\ a = "error"
        BY <2>2, <3>1, <3>2, <4>2, Posted
      <4> QED BY <3>4, <4>1, <4>2
    <3>7. v7' = [v7 EXCEPT ![b] = rows]
      BY <2>4, <3>2
    <3> QED BY <1>4, <2>1, <3>2, <3>4, <3>5, <3>6, <3>7
  <2>7. CASE Outbox!FlushMark(b, f)
    <3>1. PICK e : e = wire[f][1] /\ e = Head(v9[b][f])
      BY <2>1, <2>3
    <3>2. /\ wire[f] # <<>> /\ UNCHANGED <<v6, v8, v10, v11>>
      BY <2>1, <2>7 DEF Outbox!FlushMark
    <3>3. PICK copy : copy = Tail(wire[f])
      OBVIOUS
    <3>4. v9' = [v9 EXCEPT ![b] = [wire EXCEPT ![f] = copy]]
      BY <2>1, <2>7, <3>3 DEF Outbox!FlushMark
    <3>5. copy \in Seq(WireRow) /\ \A n \in DOMAIN copy : \E m \in DOMAIN wire[f] : copy[n] = wire[f][m]
      <4>1. wire[f] \in Seq(WireRow)
        BY <2>3
      <4>2. copy \in Seq(WireRow) /\ \A n \in DOMAIN copy : n + 1 \in DOMAIN wire[f] /\ copy[n] = wire[f][n + 1]
        BY <3>2, <3>3, <4>1
      <4> QED BY <4>2
    <3>6. PICK rows2 : /\ v7' = [v7 EXCEPT ![b] = rows2]
                       /\ \/ rows2 = rows
                          \/ rows2 = [rows EXCEPT ![e.id].status = "sent"] /\ e.answer = "ok"
      BY <2>1, <2>4, <2>7, <3>1 DEF Outbox!FlushMark
    <3>7. OutboxOk(sum, rows2, fig, wire, calls, late)
      <4>1. CASE rows2 = [rows EXCEPT ![e.id].status = "sent"] /\ e.answer = "ok"
        <5>1. OutboxOk(sum, [rows EXCEPT ![e.id].status = "sent"], fig, wire, calls, late)
          BY <2>2, <3>1, <3>2, <4>1, Marked
        <5> QED BY <4>1, <5>1
      <4>2. CASE rows2 = rows
        BY <2>2, <4>2
      <4> QED BY <3>6, <4>1, <4>2
    <3>8. OutboxOk(sum, rows2, fig, [wire EXCEPT ![f] = copy], calls, late)
      BY <3>5, <3>7, Dropped
    <3>9. v6' = [v6 EXCEPT ![b] = sum]
      BY <2>4, <3>2
    <3> QED BY <1>4, <2>1, <3>2, <3>4, <3>6, <3>8, <3>9
  <2>8. CASE Outbox!FlushDies(b, f)
    <3>1. /\ v9' = [v9 EXCEPT ![b][f] = <<>>] /\ UNCHANGED <<v6, v7, v8, v10, v11>>
      BY <2>8 DEF Outbox!FlushDies
    <3>2. PICK copy : copy = <<>>
      OBVIOUS
    <3>3. copy \in Seq(WireRow) /\ DOMAIN copy = {}
      BY <3>2
    <3>4. OutboxOk(sum, rows, fig, [wire EXCEPT ![f] = copy], calls, late)
      BY <2>2, <3>3, Dropped
    <3>5. v9' = [v9 EXCEPT ![b] = [wire EXCEPT ![f] = copy]]
      BY <2>4, <3>1, <3>2
    <3>6. v6' = [v6 EXCEPT ![b] = sum] /\ v7' = [v7 EXCEPT ![b] = rows]
      BY <2>4, <3>1
    <3>7. UNCHANGED <<v8, v10, v11>>
      BY <3>1
    <3> QED BY <1>4, <2>1, <3>4, <3>5, <3>6, <3>7
  <2> QED BY <1>5, <2>5, <2>6, <2>7, <2>8
<1> QED BY <1>1, <1>2, <1>3, <1>5, <1>6, <1>7 DEF Outbox!Next

\* Sums over branches that agree on each.
HubWalk(figs, d, S, g) ==
    g = [s \in SUBSET S |-> IF s = {} THEN 0
                            ELSE figs[CHOOSE x \in s : TRUE][d] + g[s \ {CHOOSE x \in s : TRUE}]]

HubWalkOf(figs, d, S) == CHOOSE g : HubWalk(figs, d, S, g)

LEMMA HubsAgree ==
    ASSUME NEW S, NEW d, NEW p, NEW q, \A b \in S : p[b][d] = q[b][d]
    PROVE  HubWalkOf(p, d, S) = HubWalkOf(q, d, S)
<1>1. \A s \in SUBSET S : s # {} => p[CHOOSE x \in s : TRUE][d] = q[CHOOSE x \in s : TRUE][d]
  OBVIOUS
<1>2. ASSUME NEW g PROVE HubWalk(p, d, S, g) <=> HubWalk(q, d, S, g)
  <2> DEFINE one == [s \in SUBSET S |-> IF s = {} THEN 0
                        ELSE p[CHOOSE x \in s : TRUE][d] + g[s \ {CHOOSE x \in s : TRUE}]]
             two == [s \in SUBSET S |-> IF s = {} THEN 0
                        ELSE q[CHOOSE x \in s : TRUE][d] + g[s \ {CHOOSE x \in s : TRUE}]]
  <2>1. one = two
    BY <1>1
  <2> QED BY <2>1 DEF HubWalk
<1> QED BY <1>2 DEF HubWalkOf

LEMMA SyncSame == ASSUME SyncInv, UNCHANGED allVars PROVE SyncInv'
BY SyncUntouched DEF allVars, SyncInv, SyncShape

LEMMA SyncMeans == SyncInv => Outbox!SentIsDelivered
<1> SUFFICES ASSUME SyncInv PROVE Outbox!SentIsDelivered
  OBVIOUS
<1>1. ASSUME NEW d \in Days, NEW b \in Branches, Outbox!Settled(b, d), <<b, d>> \notin v10.days
      PROVE  v6[b][d] = v8[b][d]
  BY <1>1 DEF SyncInv, OutboxOk, DayOk, DaySent, Late, Outbox!Settled
<1>2. ASSUME NEW d \in Days, \A b \in Branches : Outbox!Settled(b, d) /\ <<b, d>> \notin v10.days
      PROVE  Outbox!OwnerHub(d) =
                 Outbox!MapThenSumSet(LAMBDA b : v8[b][d], {b \in Branches : v2[b].active})
  <2> DEFINE S == {b \in Branches : v2[b].active}
  <2>1. \A b \in S : v6[b][d] = v8[b][d]
    BY <1>1, <1>2
  <2>2. /\ Outbox!OwnerHub(d) = HubWalkOf(v6, d, S)[S]
        /\ Outbox!MapThenSumSet(LAMBDA b : v8[b][d], {b \in Branches : v2[b].active})
              = HubWalkOf(v8, d, S)[S]
    BY DEF Outbox!OwnerHub, Outbox!MapThenSumSet, Outbox!MapThenFoldSet, HubWalkOf, HubWalk
  <2> HIDE DEF S
  <2>3. HubWalkOf(v6, d, S) = HubWalkOf(v8, d, S)
    BY <2>1, HubsAgree
  <2> QED BY <2>2, <2>3
<1> QED BY <1>1, <1>2 DEF Outbox!SentIsDelivered

-----------------------------------------------------------------------------
(***************************************************************************)
(* Files.  v1 = sales, v2 = customers, v3 = worker, v5 = raced, v6 = torn. *)
(* ImportedOnceAndWhole speaks of quiet moments; in between, the rows of   *)
(* an invoice are those its one importer has written so far.               *)
(***************************************************************************)
FileKeys == FilesIn!Importers \X FileInvoices

Resting == {FilesIn!resting}
Reading == [by : FilesIn!Readers, at : {"rows", "debtors", "debtor"},
            todo : SUBSET FileInvoices, inv : {{}}]
Importing == [by : FilesIn!Readers, at : {"lookup", "customer", "sale", "items", "drawer"},
              todo : SUBSET FileInvoices, inv : {{i} : i \in FileInvoices}]
Counts == [head : Int, items : Int, drawer : Int]

FilesType ==
    /\ v1 \in [FileKeys -> Counts]
    /\ v2 \in Nat
    /\ v3 \in [Workers -> Resting \cup Reading \cup Importing]
    /\ \A w \in Workers : /\ v3[w].at = "drawer" => v3[w].by = "IMP"
                          /\ v3[w].at = "items" => v3[w].by # "summary"

Imports(w, k) == v3[w].by = k[1] /\ v3[w].inv = {k[2]}

\* the rows an importer has written when it stands at a place
RowsAt(place) ==
    [head   |-> IF place \in {"items", "drawer"} THEN 1 ELSE 0,
     items  |-> IF place = "drawer" THEN 1 ELSE 0,
     drawer |-> 0]

Whole(k) == [head |-> 1, items |-> 1, drawer |-> IF k[1] = "IMP" THEN 1 ELSE 0]

KeyInv(k) ==
    /\ \A w, o \in Workers : Imports(w, k) /\ Imports(o, k) => w = o
    /\ \A w \in Workers : Imports(w, k) => v1[k] = RowsAt(v3[w].at)
    /\ (\A w \in Workers : ~Imports(w, k)) => v1[k] \in {FilesIn!NoRows, Whole(k)}

\* who found no customer was alone in that, and there is none yet
OneCustomer ==
    /\ v2 <= 1
    /\ \A w \in Workers : FilesIn!Asks(w) =>
           v2 = 0 /\ \A o \in Workers : FilesIn!Asks(o) => o = w

FilesInv ==
    /\ FilesType
    /\ ~v5 /\ ~v6 => OneCustomer /\ \A k \in FileKeys : KeyInv(k)

\* A worker that imports an invoice has a place among its statements.
LEMMA ImporterStands ==
    ASSUME FilesType, NEW w \in Workers
    PROVE  /\ v3[w].inv # {} => v3[w] \in Importing
           /\ v3[w].at \in {"lookup", "customer", "sale", "items", "drawer"} => v3[w] \in Importing
           /\ v3[w].at \in {"rows", "debtors", "debtor"} => v3[w].inv = {}
           /\ v3[w].at \in {"rows", "debtors", "debtor"} /\ v3[w].by # "none" => v3[w] \in Reading
           /\ v3[w].by \notin FilesIn!Readers => v3[w].inv = {}
BY DEF FilesType, Resting, Reading, Importing, FilesIn!resting

\* Nobody else comes to miss the customer.
LEMMA FewerAsk ==
    ASSUME OneCustomer, v2' = v2, \A w \in Workers : FilesIn!Asks(w)' => FilesIn!Asks(w)
    PROVE  OneCustomer'
BY DEF OneCustomer

\* The one who found no customer inserts him.
LEMMA NewestOfOne ==
    ASSUME OneCustomer, v2' = v2 + 1, NEW w \in Workers, v3[w].at \in {"customer", "debtor"},
           v3'[w].at \in {"sale", "rows"}, \A o \in Workers \ {w} : v3'[o] = v3[o]
    PROVE  OneCustomer'
<1>1. v2 = 0 /\ \A o \in Workers : FilesIn!Asks(o) => o = w
  BY DEF OneCustomer, FilesIn!Asks
<1>2. \A o \in Workers : ~FilesIn!Asks(o)'
  BY <1>1 DEF FilesIn!Asks
<1>3. v2' <= 1
  BY <1>1
<1> QED BY <1>2, <1>3 DEF OneCustomer

\* Steps that leave every invoice with its importer.
LEMMA FilesSame ==
    ASSUME FilesInv, FilesType', v1' = v1,
           ~v5' /\ ~v6' => ~v5 /\ ~v6 /\ OneCustomer',
           \A w \in Workers : \/ v3'[w].inv = {} /\ v3[w].inv = {}
                              \/ /\ v3'[w].inv = v3[w].inv /\ v3'[w].by = v3[w].by
                                 /\ RowsAt(v3'[w].at) = RowsAt(v3[w].at)
    PROVE  FilesInv'
<1>1. \A w \in Workers, k \in FileKeys : Imports(w, k)' <=> Imports(w, k)
  BY DEF Imports
<1>2. \A w \in Workers, k \in FileKeys : Imports(w, k) => RowsAt(v3'[w].at) = RowsAt(v3[w].at)
  BY DEF Imports
<1>3. ASSUME NEW k \in FileKeys, KeyInv(k) PROVE KeyInv(k)'
  BY <1>1, <1>2, <1>3 DEF KeyInv, RowsAt, Whole
<1> QED BY <1>3 DEF FilesInv

\* Workers leave sales of which nothing is written yet.
LEMMA FilesLeft ==
    ASSUME FilesInv, FilesType', UNCHANGED <<v1, v2, v5>>, ~v6' => ~v6,
           \A w \in Workers : FilesIn!Asks(w)' => FilesIn!Asks(w),
           \A w \in Workers : \/ v3'[w] = v3[w]
                              \/ v3'[w].inv = {} /\ (~v6' => v3[w].at \notin {"items", "drawer"})
    PROVE  FilesInv'
<1>0. ~v5' /\ ~v6' => OneCustomer'
  BY FewerAsk DEF FilesInv
<1>1. SUFFICES ASSUME ~v5, ~v6, ~v6', NEW k \in FileKeys PROVE KeyInv(k)'
  BY <1>0 DEF FilesInv
<1>2. KeyInv(k)
  BY <1>1 DEF FilesInv
<1>3. \A w \in Workers : /\ Imports(w, k)' => Imports(w, k) /\ v3'[w] = v3[w]
                         /\ Imports(w, k) /\ ~Imports(w, k)' => RowsAt(v3[w].at) = FilesIn!NoRows
  BY <1>1 DEF Imports, RowsAt, FilesIn!NoRows
<1>4. /\ \A w, o \in Workers : Imports(w, k)' /\ Imports(o, k)' => w = o
      /\ \A w \in Workers : Imports(w, k)' => v1[k] = RowsAt(v3'[w].at)
  BY <1>2, <1>3 DEF KeyInv
<1>5. (\A w \in Workers : ~Imports(w, k)') => v1[k] \in {FilesIn!NoRows, Whole(k)}
  BY <1>2, <1>3 DEF KeyInv
<1> QED BY <1>4, <1>5 DEF KeyInv, RowsAt, Whole

\* The importer w of the invoice k writes its next row.
LEMMA FilesWrite ==
    ASSUME FilesInv, FilesType', NEW w \in Workers, NEW k \in FileKeys, Imports(w, k),
           NEW row, v1' = [v1 EXCEPT ![k] = row], UNCHANGED <<v2, v5, v6>>,
           \A o \in Workers \ {w} : v3'[o] = v3[o], ~FilesIn!Asks(w)',
           \/ v3'[w].inv = {} /\ (v1[k] = RowsAt(v3[w].at) => row = Whole(k))
           \/ /\ v3'[w].inv = v3[w].inv /\ v3'[w].by = v3[w].by
              /\ v1[k] = RowsAt(v3[w].at) => row = RowsAt(v3'[w].at)
    PROVE  FilesInv'
<1>a. \A o \in Workers : FilesIn!Asks(o)' => FilesIn!Asks(o)
  BY DEF FilesIn!Asks
<1>b. ~v5' /\ ~v6' => OneCustomer'
  BY <1>a, FewerAsk DEF FilesInv
<1>1. SUFFICES ASSUME ~v5, ~v6, NEW j \in FileKeys PROVE KeyInv(j)'
  BY <1>b DEF FilesInv
<1>2. KeyInv(j) /\ KeyInv(k)
  BY <1>1 DEF FilesInv
<1>3. v1[k] = RowsAt(v3[w].at) /\ \A o \in Workers \ {w} : ~Imports(o, k)
  BY <1>2 DEF KeyInv
<1>4. CASE j = k
  <2>1. v1'[j] = row /\ \A o \in Workers \ {w} : ~Imports(o, j)'
    BY <1>3, <1>4 DEF Imports, FilesInv, FilesType
  <2>2. CASE v3'[w].inv = {}
    BY <1>3, <1>4, <2>1, <2>2 DEF KeyInv, Imports, Whole, RowsAt
  <2>3. CASE v3'[w].inv # {}
    BY <1>3, <1>4, <2>1, <2>3 DEF KeyInv, Imports, RowsAt
  <2> QED BY <2>2, <2>3
<1>5. CASE j # k
  <2>1. v1'[j] = v1[j]
    BY <1>5 DEF FilesInv, FilesType
  <2>2. ~Imports(w, j) /\ ~Imports(w, j)'
    BY <1>5 DEF Imports, FileKeys
  <2>3. \A o \in Workers : /\ Imports(o, j)' <=> Imports(o, j)
                           /\ Imports(o, j) => v3'[o] = v3[o]
    BY <2>2 DEF Imports
  <2> QED BY <1>2, <2>1, <2>3 DEF KeyInv, RowsAt, Whole
<1> QED BY <1>4, <1>5

\* Counting a row.
LEMMA CountsUp ==
    ASSUME NEW r \in Counts
    PROVE  /\ [r EXCEPT !["head"] = @ + 1] = [head |-> r.head + 1, items |-> r.items, drawer |-> r.drawer]
           /\ [r EXCEPT !["items"] = @ + 1] = [head |-> r.head, items |-> r.items + 1, drawer |-> r.drawer]
           /\ [r EXCEPT !["drawer"] = @ + 1] = [head |-> r.head, items |-> r.items, drawer |-> r.drawer + 1]
<1>1. /\ [r EXCEPT !["head"] = @ + 1] = [r EXCEPT !.head = @ + 1]
      /\ [r EXCEPT !["items"] = @ + 1] = [r EXCEPT !.items = @ + 1]
      /\ [r EXCEPT !["drawer"] = @ + 1] = [r EXCEPT !.drawer = @ + 1]
  OBVIOUS
<1>2. [r EXCEPT !.head = @ + 1] = [head |-> r.head + 1, items |-> r.items, drawer |-> r.drawer]
  BY DEF Counts
<1>3. [r EXCEPT !.items = @ + 1] = [head |-> r.head, items |-> r.items + 1, drawer |-> r.drawer]
  BY DEF Counts
<1>4. [r EXCEPT !.drawer = @ + 1] = [head |-> r.head, items |-> r.items, drawer |-> r.drawer + 1]
  BY DEF Counts
<1> QED BY <1>1, <1>2, <1>3, <1>4

\* The importer w leaves its invoice.
LEMMA RowEnds ==
    ASSUME FilesType, NEW w \in Workers, v3[w] \in Importing, FilesIn!NextRow(w),
           v1' \in [FileKeys -> Counts], UNCHANGED <<v2, v5, v6>>
    PROVE  /\ FilesType' /\ v3'[w].inv = {} /\ ~FilesIn!Asks(w)'
           /\ \A o \in Workers \ {w} : v3'[o] = v3[o]
<1>1. v3' = [v3 EXCEPT ![w].at = "rows", ![w].inv = {}]
  BY DEF FilesIn!NextRow
<1>2. v3' = [v3 EXCEPT ![w] = [v3[w] EXCEPT !.at = "rows", !.inv = {}]]
  BY <1>1 DEF FilesType
<1>3. [v3[w] EXCEPT !.at = "rows", !.inv = {}] \in Reading
  BY DEF Importing, Reading
<1>4. [v3[w] EXCEPT !.at = "rows", !.inv = {}].at = "rows"
  BY DEF Importing
<1>5. v3'[w] \in Reading /\ v3'[w].at = "rows"
  BY <1>2, <1>3, <1>4 DEF FilesType
<1>6. \A o \in Workers \ {w} : v3'[o] = v3[o]
  BY <1>2 DEF FilesType
<1>7. v3' \in [Workers -> Resting \cup Reading \cup Importing]
  BY <1>2, <1>3 DEF FilesType
<1>8. v3'[w].at = "rows" /\ v3'[w].inv = {}
  BY <1>5 DEF Reading
<1>9. FilesType'
  BY <1>6, <1>7, <1>8 DEF FilesType
<1> QED BY <1>6, <1>8, <1>9 DEF FilesIn!Asks

LEMMA FilesInit == FilesIn!Init => FilesInv
<1> SUFFICES ASSUME FilesIn!Init PROVE FilesInv
  OBVIOUS
<1>1. /\ v1 = [k \in FileKeys |-> FilesIn!NoRows] /\ v2 = 0
      /\ v3 = [w \in Workers |-> FilesIn!resting]
  BY DEF FilesIn!Init, FileKeys
<1>2. FilesType
  BY <1>1 DEF FilesType, Counts, FilesIn!NoRows, FilesIn!resting, Resting
<1>3. \A w \in Workers, k \in FileKeys : ~Imports(w, k)
  BY <1>1 DEF Imports, FilesIn!resting
<1>4. OneCustomer
  BY <1>1 DEF OneCustomer, FilesIn!Asks, FilesIn!resting
<1> QED BY <1>1, <1>2, <1>3, <1>4 DEF FilesInv, KeyInv

LEMMA FilesStep == FilesInv /\ FilesIn!Next => FilesInv'
<1> SUFFICES ASSUME FilesInv, FilesIn!Next PROVE FilesInv'
  OBVIOUS
<1>0. FilesType
  BY DEF FilesInv
<1> DEFINE Places == {"sale", "items", "drawer"}
<1>1. ASSUME NEW w \in Workers, NEW f \in SUBSET FileInvoices, NEW by \in FilesIn!Readers,
             FilesIn!RunImport(w, f, by)
      PROVE  FilesInv'
  <2>0. PICK place \in {"rows", "debtors"} : place = IF by = "EZI" THEN "debtors" ELSE "rows"
    OBVIOUS
  <2>1. /\ v3[w].by = "none" /\ UNCHANGED <<v1, v2, v5, v6>>
        /\ v3' = [v3 EXCEPT ![w] = [by |-> by, at |-> place, todo |-> f, inv |-> {}]]
    BY <1>1, <2>0 DEF FilesIn!RunImport, FilesIn!Busy
  <2>2. [by |-> by, at |-> place, todo |-> f, inv |-> {}] \in Reading
    BY DEF Reading
  <2>3. FilesType'
    BY <1>0, <2>1, <2>2 DEF FilesType
  <2>4. v3[w].inv = {}
    BY <1>0, <2>1, ImporterStands DEF FilesIn!Readers, FilesIn!Importers
  <2>5. /\ v3'[w].inv = {} /\ v3'[w].at = place
        /\ \A o \in Workers \ {w} : v3'[o] = v3[o]
    BY <1>0, <2>1 DEF FilesType
  <2>6. \A o \in Workers : FilesIn!Asks(o)' => FilesIn!Asks(o)
    BY <2>5 DEF FilesIn!Asks
  <2>7. ~v5' /\ ~v6' => ~v5 /\ ~v6 /\ OneCustomer'
    BY <2>1, <2>6, FewerAsk DEF FilesInv
  <2> QED BY <2>1, <2>3, <2>4, <2>5, <2>7, FilesSame
<1>a. ASSUME NEW w \in Workers, v3[w].at \in {"debtors", "debtor"}, NEW place \in {"rows", "debtor"},
             v3' = [v3 EXCEPT ![w].at = place], UNCHANGED <<v1, v2, v6>>,
             ~v5' => ~v5 /\ (place = "debtor" =>
                                 v2 = 0 /\ \A o \in Workers \ {w} : ~FilesIn!Asks(o))
      PROVE  FilesInv'
  <2>1. v3[w] \in Reading /\ v3[w].inv = {}
    BY <1>0, <1>a, ImporterStands DEF FilesType, Resting, FilesIn!resting, Reading, Importing
  <2>2. [v3[w] EXCEPT !.at = place] \in Reading
    BY <2>1 DEF Reading
  <2>3. v3' \in [Workers -> Resting \cup Reading \cup Importing] /\ v3'[w].at = place
        /\ v3'[w].inv = {} /\ \A o \in Workers \ {w} : v3'[o] = v3[o]
    BY <1>0, <1>a, <2>1, <2>2 DEF FilesType, Reading
  <2>4. FilesType'
    BY <1>0, <1>a, <2>3 DEF FilesType
  <2>5. ~v5' /\ ~v6' => ~v5 /\ ~v6 /\ OneCustomer'
    <3> SUFFICES ASSUME ~v5', ~v6' PROVE OneCustomer'
      BY <1>a
    <3>1. OneCustomer /\ v2' = v2
      BY <1>a DEF FilesInv
    <3>2. CASE place = "rows"
      BY <2>3, <3>1, <3>2, FewerAsk DEF FilesIn!Asks
    <3>3. CASE place = "debtor"
      BY <1>a, <2>3, <3>1, <3>3 DEF OneCustomer, FilesIn!Asks
    <3> QED BY <3>2, <3>3
  <2> QED BY <1>a, <2>1, <2>3, <2>4, <2>5, FilesSame
<1>b. ASSUME NEW w \in Workers, FilesIn!FindDebtor(w) \/ FilesIn!EndDebtors(w) PROVE FilesInv'
  <2>1. CASE FilesIn!FindDebtor(w)
    BY <1>a, <2>1 DEF FilesIn!FindDebtor, FilesIn!At, FilesIn!Goes, FilesIn!Overtakes
  <2>2. CASE FilesIn!EndDebtors(w)
    BY <1>a, <2>2 DEF FilesIn!EndDebtors, FilesIn!At, FilesIn!Goes
  <2> QED BY <1>b, <2>1, <2>2
<1>2. ASSUME NEW w \in Workers, NEW i \in FileInvoices, FilesIn!SkipRow(w, i)
      PROVE  FilesInv'
  <2>1. /\ v3[w].at = "rows" /\ v3[w].by # "none" /\ UNCHANGED <<v1, v2, v5, v6>>
        /\ v3' = [v3 EXCEPT ![w].todo = @ \ {i}]
    BY <1>2 DEF FilesIn!SkipRow, FilesIn!At, FilesIn!Busy
  <2>2. v3[w] \in Reading /\ v3[w].inv = {}
    BY <1>0, <2>1, ImporterStands
  <2>3. [v3[w] EXCEPT !.todo = @ \ {i}] \in Reading
    BY <2>2 DEF Reading
  <2>4. FilesType'
    BY <1>0, <2>1, <2>2, <2>3 DEF FilesType, Reading
  <2>5. /\ v3'[w].inv = {} /\ v3'[w].at = "rows"
        /\ \A o \in Workers \ {w} : v3'[o] = v3[o]
    BY <1>0, <2>1, <2>2 DEF FilesType, Reading
  <2>6. \A o \in Workers : FilesIn!Asks(o)' => FilesIn!Asks(o)
    BY <2>5 DEF FilesIn!Asks
  <2>7. ~v5' /\ ~v6' => ~v5 /\ ~v6 /\ OneCustomer'
    BY <2>1, <2>6, FewerAsk DEF FilesInv
  <2> QED BY <2>1, <2>2, <2>4, <2>5, <2>7, FilesSame
<1>3. ASSUME NEW w \in Workers, NEW i \in FileInvoices, FilesIn!TakeRow(w, i)
      PROVE  FilesInv'
  <2>0. PICK place \in {"lookup", "sale"} :
            place = IF v3[w].by = "EZI" THEN "sale" ELSE "lookup"
    OBVIOUS
  <2>1. /\ v3[w].at = "rows" /\ v3[w].by # "none" /\ UNCHANGED <<v1, v2, v6>>
        /\ ~(v1[FilesIn!Key(w, i)].head > 0)
        /\ v3' = [v3 EXCEPT ![w].todo = @ \ {i}, ![w].inv = {i}, ![w].at = place]
        /\ v5' = (v5 \/ FilesIn!Meets(w, i))
    BY <1>3, <2>0 DEF FilesIn!TakeRow, FilesIn!Takes, FilesIn!At, FilesIn!Busy, FilesIn!Known
  <2>2. v3[w] \in Reading /\ v3[w].inv = {}
    BY <1>0, <2>1, ImporterStands
  <2>3. PICK b \in FilesIn!Readers : b = v3[w].by
    BY <2>2 DEF Reading
  <2>4. /\ v3'[w] \in Importing /\ v3'[w].by = b /\ v3'[w].inv = {i} /\ v3'[w].at = place
        /\ \A o \in Workers \ {w} : v3'[o] = v3[o]
    <3>1. v3'[w] = [by |-> b, at |-> place, todo |-> v3[w].todo \ {i}, inv |-> {i}]
      <4>1. v3[w] = [by |-> b, at |-> "rows", todo |-> v3[w].todo, inv |-> {}]
        BY <2>1, <2>2, <2>3 DEF Reading
      <4>2. v3' = [v3 EXCEPT ![w] = [by |-> b, at |-> place, todo |-> v3[w].todo \ {i}, inv |-> {i}]]
        BY <1>0, <2>1, <4>1 DEF FilesType
      <4> QED BY <1>0, <4>2 DEF FilesType
    <3>2. [by |-> b, at |-> place, todo |-> v3[w].todo \ {i}, inv |-> {i}] \in Importing
      BY <2>2, <2>3 DEF Reading, Importing
    <3>3. \A o \in Workers \ {w} : v3'[o] = v3[o]
      BY <1>0, <2>1 DEF FilesType
    <3> QED BY <3>1, <3>2, <3>3
  <2>5. FilesType'
    <3>1. v3' \in [Workers -> Resting \cup Reading \cup Importing]
      BY <1>0, <2>1, <2>4 DEF FilesType
    <3> QED BY <1>0, <2>1, <2>4, <3>1 DEF FilesType
  <2>a. ~v5' /\ ~v6' => OneCustomer'
    <3>1. \A o \in Workers : FilesIn!Asks(o)' => FilesIn!Asks(o)
      BY <2>4 DEF FilesIn!Asks
    <3> QED BY <2>1, <3>1, FewerAsk DEF FilesInv
  <2>6. SUFFICES ASSUME ~v5', ~v6', NEW j \in FileKeys PROVE KeyInv(j)'
    BY <2>1, <2>5, <2>a DEF FilesInv
  <2>7. /\ ~v5 /\ KeyInv(j)
        /\ b # "summary" => \A o \in Workers \ {w} : ~(v3[o].by = b /\ v3[o].inv = {i})
    BY <2>1, <2>3, <2>6 DEF FilesInv, FilesIn!Meets
  <2>8. CASE j = <<b, i>>
    <3>0. b # "summary" /\ FilesIn!Key(w, i) = j
      BY <2>3, <2>8 DEF FileKeys, FilesIn!Importers, FilesIn!Readers, FilesIn!Key
    <3>1. \A o \in Workers : ~Imports(o, j)
      BY <2>2, <2>7, <2>8, <3>0 DEF Imports
    <3>2. v1[j] = FilesIn!NoRows
      <4>1. ~(v1[j].head > 0)
        BY <2>1, <3>0
      <4> QED BY <2>7, <3>1, <4>1 DEF KeyInv, Whole, FilesIn!NoRows
    <3>3. \A o \in Workers : Imports(o, j)' <=> o = w
      BY <2>4, <2>8, <3>1 DEF Imports
    <3>4. RowsAt(place) = FilesIn!NoRows
      BY DEF RowsAt, FilesIn!NoRows
    <3> QED BY <2>1, <2>4, <3>2, <3>3, <3>4 DEF KeyInv, RowsAt, FilesIn!NoRows
  <2>9. CASE j # <<b, i>>
    <3>1. \A o \in Workers : /\ Imports(o, j)' <=> Imports(o, j)
                             /\ Imports(o, j) => v3'[o] = v3[o]
      BY <2>2, <2>4, <2>9 DEF Imports, FileKeys
    <3> QED BY <2>1, <2>7, <3>1 DEF KeyInv, RowsAt, Whole, FilesIn!NoRows
  <2> QED BY <2>8, <2>9
<1>c. ASSUME NEW w \in Workers, NEW place \in {"customer", "sale"},
             v3[w].at \in {"lookup", "customer"}, v3' = [v3 EXCEPT ![w].at = place],
             UNCHANGED <<v1, v6>>, ~v5' => ~v5, v2' \in Nat,
             place = "sale" => \/ v2' = v2
                               \/ v3[w].at = "customer" /\ v2' = v2 + 1,
             place = "customer" =>
                 v2' = v2 /\ v2 = 0 /\ (~v5' => \A o \in Workers \ {w} : ~FilesIn!Asks(o))
      PROVE  FilesInv'
  <2>2. v3[w] \in Importing
    BY <1>0, <1>c, ImporterStands
  <2>3. [v3[w] EXCEPT !.at = place] \in Importing
    BY <2>2 DEF Importing
  <2>5. /\ v3'[w].inv = v3[w].inv /\ v3'[w].by = v3[w].by
        /\ v3'[w].at = place
    BY <1>0, <1>c, <2>2 DEF FilesType, Importing
  <2>8. \A o \in Workers \ {w} : v3'[o] = v3[o]
    BY <1>0, <1>c DEF FilesType
  <2>4. FilesType'
    <3>1. v3' \in [Workers -> Resting \cup Reading \cup Importing]
      BY <1>0, <1>c, <2>3 DEF FilesType
    <3> QED BY <1>0, <1>c, <2>5, <2>8, <3>1 DEF FilesType
  <2>6. RowsAt(place) = RowsAt(v3[w].at)
    BY <1>c DEF RowsAt
  <2>7. ~v5' /\ ~v6' => ~v5 /\ ~v6 /\ OneCustomer'
    <3> SUFFICES ASSUME ~v5', ~v6' PROVE OneCustomer'
      BY <1>c
    <3>1. OneCustomer
      BY <1>c DEF FilesInv
    <3>2. CASE v2' = v2 /\ place = "sale"
      BY <2>5, <2>8, <3>1, <3>2, FewerAsk DEF FilesIn!Asks
    <3>3. CASE place = "customer"
      BY <1>c, <2>5, <2>8, <3>1, <3>3 DEF OneCustomer, FilesIn!Asks
    <3>4. CASE place = "sale" /\ v3[w].at = "customer" /\ v2' = v2 + 1
      BY <2>5, <2>8, <3>1, <3>4, NewestOfOne
    <3> QED BY <1>c, <3>2, <3>3, <3>4
  <2> QED BY <1>c, <2>4, <2>5, <2>6, <2>7, <2>8, FilesSame
<1>d. ASSUME NEW w \in Workers, FilesIn!LookUp(w) PROVE FilesInv'
  <2>1. PICK place \in {"customer", "sale"} : place = IF v2 = 0 THEN "customer" ELSE "sale"
    OBVIOUS
  <2>2. /\ v3[w].at = "lookup" /\ UNCHANGED <<v1, v2, v6>>
        /\ v3' = [v3 EXCEPT ![w].at = place]
    BY <1>d, <2>1 DEF FilesIn!LookUp, FilesIn!At, FilesIn!Goes
  <2>3. v2 \in Nat
    BY <1>0 DEF FilesType
  <2>4. v5' = (v5 \/ (v2 = 0 /\ FilesIn!Overtakes(w)))
    BY <1>d DEF FilesIn!LookUp
  <2> QED BY <1>c, <2>1, <2>2, <2>3, <2>4 DEF FilesIn!Overtakes
<1>4. ASSUME NEW w \in Workers, FilesIn!NewCustomer(w) PROVE FilesInv'
  <2>1. /\ UNCHANGED <<v1, v5, v6>> /\ v2' = v2 + 1
        /\ \/ v3[w].at = "customer" /\ v3' = [v3 EXCEPT ![w].at = "sale"]
           \/ v3[w].at = "debtor" /\ v3' = [v3 EXCEPT ![w].at = "rows"]
    BY <1>4 DEF FilesIn!NewCustomer, FilesIn!At, FilesIn!Goes
  <2>2. v2' \in Nat
    BY <1>0, <2>1 DEF FilesType
  <2>3. CASE v3[w].at = "customer" /\ v3' = [v3 EXCEPT ![w].at = "sale"]
    BY <1>c, <2>1, <2>2, <2>3
  <2>4. CASE v3[w].at = "debtor" /\ v3' = [v3 EXCEPT ![w].at = "rows"]
    <3>1. v3[w] \in Reading /\ v3[w].inv = {}
      BY <1>0, <2>4, ImporterStands DEF FilesType, Resting, FilesIn!resting, Reading, Importing
    <3>2. [v3[w] EXCEPT !.at = "rows"] \in Reading
      BY <3>1 DEF Reading
    <3>3. v3' \in [Workers -> Resting \cup Reading \cup Importing] /\ v3'[w].at = "rows"
          /\ v3'[w].inv = {} /\ \A o \in Workers \ {w} : v3'[o] = v3[o]
      BY <1>0, <2>4, <3>1, <3>2 DEF FilesType, Reading
    <3>4. FilesType'
      BY <1>0, <2>1, <2>2, <3>3 DEF FilesType
    <3>5. ~v5' /\ ~v6' => ~v5 /\ ~v6 /\ OneCustomer'
      BY <2>1, <2>4, <3>3, NewestOfOne DEF FilesInv
    <3> QED BY <2>1, <3>1, <3>3, <3>4, <3>5, FilesSame
  <2> QED BY <2>1, <2>3, <2>4
<1>5. ASSUME NEW w \in Workers, NEW what, FilesIn!Write(w, what), v3[w].at \in Places,
             v3[w].by # "summary"
      PROVE  \E k \in FileKeys :
                /\ Imports(w, k) /\ v3[w] \in Importing
                /\ v1' = [v1 EXCEPT ![k] = [v1[k] EXCEPT ![what] = @ + 1]]
  <2>1. v3[w] \in Importing
    BY <1>0, <1>5, ImporterStands
  <2>2. PICK i \in v3[w].inv :
            v1' = [v1 EXCEPT ![<<v3[w].by, i>>][what] = @ + 1]
    <3>1. \A i : FilesIn!Key(w, i) = <<v3[w].by, i>>
      BY <1>5, <2>1 DEF FilesIn!Key, Importing, FilesIn!Readers, FilesIn!Importers
    <3> QED BY <1>5, <3>1 DEF FilesIn!Write
  <2>3. i \in FileInvoices /\ v3[w].inv = {i} /\ v3[w].by \in FilesIn!Importers
    BY <1>5, <2>1, <2>2 DEF Importing, FilesIn!Readers
  <2>4. PICK k \in FileKeys : k = <<v3[w].by, i>>
    BY <2>3 DEF FileKeys
  <2>5. Imports(w, k)
    BY <2>3, <2>4 DEF Imports
  <2>6. v1' = [v1 EXCEPT ![k] = [v1[k] EXCEPT ![what] = @ + 1]]
    BY <2>2, <2>4
  <2> QED BY <2>1, <2>5, <2>6
<1>6. ASSUME NEW w \in Workers, FilesIn!InsertSale(w) PROVE FilesInv'
  <2>1. /\ v3[w].at = "sale" /\ UNCHANGED <<v2, v5, v6>>
        /\ v3' = [v3 EXCEPT ![w].at = "items"] /\ FilesIn!Write(w, "head")
        /\ v3[w].by # "summary"
    BY <1>6 DEF FilesIn!InsertSale, FilesIn!At, FilesIn!Goes
  <2>2. PICK k \in FileKeys :
            /\ Imports(w, k) /\ v3[w] \in Importing
            /\ v1' = [v1 EXCEPT ![k] = [v1[k] EXCEPT !["head"] = @ + 1]]
    BY <1>5, <2>1
  <2> DEFINE row == [v1[k] EXCEPT !["head"] = @ + 1]
  <2>3. v1[k] \in Counts
    BY <1>0 DEF FilesType
  <2>4. row = [head |-> v1[k].head + 1, items |-> v1[k].items, drawer |-> v1[k].drawer]
    BY <2>3, CountsUp
  <2>5. row \in Counts /\ (v1[k] = RowsAt("sale") => row = RowsAt("items"))
    BY <2>3, <2>4 DEF Counts, RowsAt
  <2>8. v1' = [v1 EXCEPT ![k] = row]
    BY <2>2
  <2> HIDE DEF row
  <2>6. v3'[w].inv = v3[w].inv /\ v3'[w].by = v3[w].by /\ v3'[w].at = "items"
    BY <1>0, <2>1, <2>2 DEF FilesType, Importing
  <2>9. \A o \in Workers \ {w} : v3'[o] = v3[o]
    BY <1>0, <2>1 DEF FilesType
  <2>7. FilesType'
    <3>1. [v3[w] EXCEPT !.at = "items"] \in Importing
      BY <2>2 DEF Importing
    <3>2. v1' \in [FileKeys -> Counts]
      BY <1>0, <2>5, <2>8 DEF FilesType
    <3> QED BY <1>0, <2>1, <2>6, <2>9, <3>1, <3>2 DEF FilesType
  <2>10. v1[k] = RowsAt(v3[w].at) => row = RowsAt(v3'[w].at)
    BY <2>1, <2>5, <2>6
  <2>11. ~FilesIn!Asks(w)'
    BY <2>6 DEF FilesIn!Asks
  <2> QED BY <2>1, <2>2, <2>6, <2>7, <2>8, <2>9, <2>10, <2>11, FilesWrite
<1>7. ASSUME NEW w \in Workers, FilesIn!InsertItems(w) PROVE FilesInv'
  <2>1. /\ v3[w].at = "items" /\ UNCHANGED <<v2, v5, v6>> /\ FilesIn!Write(w, "items")
        /\ v3[w].by # "summary"
    BY <1>0, <1>7 DEF FilesIn!InsertItems, FilesIn!At, FilesType
  <2>2. PICK k \in FileKeys :
            /\ Imports(w, k) /\ v3[w] \in Importing
            /\ v1' = [v1 EXCEPT ![k] = [v1[k] EXCEPT !["items"] = @ + 1]]
    BY <1>5, <2>1
  <2> DEFINE row == [v1[k] EXCEPT !["items"] = @ + 1]
  <2>3. v1[k] \in Counts
    BY <1>0 DEF FilesType
  <2>4. row = [head |-> v1[k].head, items |-> v1[k].items + 1, drawer |-> v1[k].drawer]
    BY <2>3, CountsUp
  <2>5. /\ row \in Counts
        /\ v1[k] = RowsAt("items") => row = RowsAt("drawer")
        /\ v1[k] = RowsAt("items") /\ k[1] # "IMP" => row = Whole(k)
    BY <2>3, <2>4 DEF Counts, RowsAt, Whole
  <2>6. v1' = [v1 EXCEPT ![k] = row]
    BY <2>2
  <2> HIDE DEF row
  <2>7. v1' \in [FileKeys -> Counts]
    BY <1>0, <2>5, <2>6 DEF FilesType
  <2>8. CASE v3[w].by = "IMP"
    <3>1. v3' = [v3 EXCEPT ![w].at = "drawer"]
      BY <1>7, <2>8 DEF FilesIn!InsertItems, FilesIn!Goes
    <3>2. /\ v3'[w].inv = v3[w].inv /\ v3'[w].by = v3[w].by /\ v3'[w].at = "drawer"
          /\ v3'[w] \in Importing
      BY <1>0, <2>2, <3>1 DEF FilesType, Importing
    <3>3. \A o \in Workers \ {w} : v3'[o] = v3[o]
      BY <1>0, <3>1 DEF FilesType
    <3>4. v3' \in [Workers -> Resting \cup Reading \cup Importing]
      BY <1>0, <3>1, <3>2, <3>3 DEF FilesType
    <3>5. FilesType'
      BY <1>0, <2>1, <2>7, <2>8, <3>2, <3>3, <3>4 DEF FilesType
    <3>6. v1[k] = RowsAt(v3[w].at) => row = RowsAt(v3'[w].at)
      BY <2>1, <2>5, <3>2
    <3>7. ~FilesIn!Asks(w)'
      BY <3>2 DEF FilesIn!Asks
    <3> QED BY <2>1, <2>2, <2>6, <3>2, <3>3, <3>5, <3>6, <3>7, FilesWrite
  <2>9. CASE v3[w].by # "IMP"
    <3>1. FilesIn!NextRow(w)
      BY <1>7, <2>9 DEF FilesIn!InsertItems
    <3>2. /\ FilesType' /\ v3'[w].inv = {} /\ ~FilesIn!Asks(w)'
          /\ \A o \in Workers \ {w} : v3'[o] = v3[o]
      BY <1>0, <2>1, <2>2, <2>7, <3>1, RowEnds
    <3>3. k[1] # "IMP"
      BY <2>2, <2>9 DEF Imports
    <3>4. v1[k] = RowsAt(v3[w].at) => row = Whole(k)
      BY <2>1, <2>5, <3>3
    <3> QED BY <2>1, <2>2, <2>6, <3>2, <3>4, FilesWrite
  <2> QED BY <2>8, <2>9
<1>8. ASSUME NEW w \in Workers, FilesIn!InsertDrawer(w) PROVE FilesInv'
  <2>1. /\ v3[w].at = "drawer" /\ UNCHANGED <<v2, v5, v6>> /\ FilesIn!Write(w, "drawer")
        /\ FilesIn!NextRow(w) /\ v3[w].by # "summary"
    BY <1>0, <1>8 DEF FilesIn!InsertDrawer, FilesIn!At, FilesType
  <2>2. PICK k \in FileKeys :
            /\ Imports(w, k) /\ v3[w] \in Importing
            /\ v1' = [v1 EXCEPT ![k] = [v1[k] EXCEPT !["drawer"] = @ + 1]]
    BY <1>5, <2>1
  <2> DEFINE row == [v1[k] EXCEPT !["drawer"] = @ + 1]
  <2>3. v1[k] \in Counts
    BY <1>0 DEF FilesType
  <2>4. row = [head |-> v1[k].head, items |-> v1[k].items, drawer |-> v1[k].drawer + 1]
    BY <2>3, CountsUp
  <2>5. k[1] = "IMP"
    BY <1>0, <2>1, <2>2 DEF FilesType, Imports
  <2>6. row \in Counts /\ (v1[k] = RowsAt("drawer") => row = Whole(k))
    BY <2>3, <2>4, <2>5 DEF Counts, RowsAt, Whole
  <2>7. v1' = [v1 EXCEPT ![k] = row]
    BY <2>2
  <2> HIDE DEF row
  <2>8. v1' \in [FileKeys -> Counts]
    BY <1>0, <2>6, <2>7 DEF FilesType
  <2>9. /\ FilesType' /\ v3'[w].inv = {} /\ ~FilesIn!Asks(w)'
        /\ \A o \in Workers \ {w} : v3'[o] = v3[o]
    BY <1>0, <2>1, <2>2, <2>8, RowEnds
  <2>10. v1[k] = RowsAt(v3[w].at) => row = Whole(k)
    BY <2>1, <2>6
  <2> QED BY <2>1, <2>2, <2>7, <2>9, <2>10, FilesWrite
<1>9. ASSUME NEW w \in Workers, FilesIn!EndImport(w) PROVE FilesInv'
  <2>1. /\ v3[w].at = "rows" /\ UNCHANGED <<v1, v2, v5, v6>>
        /\ v3' = [v3 EXCEPT ![w] = FilesIn!resting]
    BY <1>9 DEF FilesIn!EndImport, FilesIn!At
  <2>2. v3[w].inv = {} /\ FilesIn!resting.inv = {} /\ FilesIn!resting.at = "rows"
    BY <1>0, <2>1, ImporterStands DEF FilesIn!resting
  <2>3. v3'[w] = FilesIn!resting /\ \A o \in Workers \ {w} : v3'[o] = v3[o]
    BY <1>0, <2>1 DEF FilesType
  <2>4. v3' \in [Workers -> Resting \cup Reading \cup Importing]
    BY <1>0, <2>1 DEF FilesType, Resting
  <2>5. FilesType'
    BY <1>0, <2>1, <2>2, <2>3, <2>4 DEF FilesType
  <2>a. \A o \in Workers : FilesIn!Asks(o)' => FilesIn!Asks(o)
    BY <2>2, <2>3 DEF FilesIn!Asks
  <2>6. ~v5' /\ ~v6' => ~v5 /\ ~v6 /\ OneCustomer'
    BY <2>1, <2>a, FewerAsk DEF FilesInv
  <2> QED BY <2>1, <2>2, <2>3, <2>5, <2>6, FilesSame
<1>10. ASSUME NEW w \in Workers, FilesIn!RowFails(w) PROVE FilesInv'
  <2>1. PICK rest \in {v3[w].todo, {}} :
            rest = IF v3[w].by = "EZI" THEN {} ELSE v3[w].todo
    OBVIOUS
  <2>2. /\ v3[w].inv # {} /\ UNCHANGED <<v1, v2, v5>> /\ v6' = (v6 \/ FilesIn!Half(w))
        /\ v3' = [v3 EXCEPT ![w].at = "rows", ![w].inv = {}, ![w].todo = rest]
    BY <1>0, <1>10, <2>1 DEF FilesIn!RowFails, FilesType
  <2>3. v3[w] \in Importing
    BY <1>0, <2>2, ImporterStands
  <2>4. v3' \in [Workers -> Resting \cup Reading \cup Importing] /\ v3'[w].at = "rows"
        /\ v3'[w].inv = {}
    <3>1. [v3[w] EXCEPT !.at = "rows", !.inv = {}, !.todo = rest] \in Reading
      BY <2>1, <2>3 DEF Importing, Reading
    <3>3. v3' = [v3 EXCEPT ![w] = [v3[w] EXCEPT !.at = "rows", !.inv = {}, !.todo = rest]]
      BY <1>0, <2>2 DEF FilesType
    <3>4. v3'[w] = [v3[w] EXCEPT !.at = "rows", !.inv = {}, !.todo = rest]
          /\ v3' \in [Workers -> Resting \cup Reading \cup Importing]
      BY <1>0, <3>1, <3>3 DEF FilesType
    <3>5. v3'[w].at = "rows"
      BY <2>3, <3>4 DEF Importing
    <3>6. v3'[w].inv = {}
      BY <3>1, <3>4 DEF Reading
    <3> QED BY <3>4, <3>5, <3>6
  <2>5. \A o \in Workers \ {w} : v3'[o] = v3[o]
    BY <1>0, <2>2 DEF FilesType
  <2>6. FilesType'
    BY <1>0, <2>2, <2>4, <2>5 DEF FilesType
  <2>7. (~v6' => ~v6) /\ (~v6' => v3[w].at \notin {"items", "drawer"})
    BY <2>2 DEF FilesIn!Half
  <2>8. \A o \in Workers : FilesIn!Asks(o)' => FilesIn!Asks(o)
    BY <2>4, <2>5 DEF FilesIn!Asks
  <2> QED BY <2>2, <2>4, <2>5, <2>6, <2>7, <2>8, FilesLeft
<1>11. CASE FilesIn!ProcessDies
  <2>1. /\ v3' = [w \in Workers |-> FilesIn!resting] /\ UNCHANGED <<v1, v2, v5>>
        /\ v6' = (v6 \/ \E w \in Workers : FilesIn!Half(w))
    BY <1>11 DEF FilesIn!ProcessDies
  <2>2. v3' \in [Workers -> Resting \cup Reading \cup Importing]
    BY <2>1 DEF Resting
  <2>3. \A w \in Workers : v3'[w].at = "rows" /\ v3'[w].inv = {}
    BY <2>1 DEF FilesIn!resting
  <2>4. FilesType'
    BY <1>0, <2>1, <2>2, <2>3 DEF FilesType
  <2>5. (~v6' => ~v6) /\ (~v6' => \A w \in Workers : v3[w].at \notin {"items", "drawer"})
    BY <2>1 DEF FilesIn!Half
  <2>6. \A o \in Workers : FilesIn!Asks(o)' => FilesIn!Asks(o)
    BY <2>3 DEF FilesIn!Asks
  <2> QED BY <2>1, <2>3, <2>4, <2>5, <2>6, FilesLeft
<1> QED BY <1>1, <1>2, <1>3, <1>4, <1>6, <1>7, <1>8, <1>9, <1>10, <1>11, <1>b, <1>d DEF FilesIn!Next

LEMMA FilesStay == ASSUME FilesInv, UNCHANGED allVars PROVE FilesInv'
BY DEF allVars, FilesInv, FilesType, KeyInv, Imports, OneCustomer, FilesIn!Asks

LEMMA FilesMean == FilesInv => FilesIn!ImportedOnceAndWhole
<1> SUFFICES ASSUME FilesInv, FilesIn!Quiet, ~v5, ~v6
             PROVE  /\ v2 <= 1
                    /\ \A b \in FilesIn!Importers \X FileInvoices :
                          /\ v1[b].head <= 1 /\ v1[b].items = v1[b].head
                          /\ v1[b].drawer = IF b[1] = "IMP" THEN v1[b].head ELSE 0
  BY DEF FilesIn!ImportedOnceAndWhole
<1>1. \A w \in Workers : v3[w].by = "none"
  BY DEF FilesIn!Quiet, FilesIn!Busy
<1>2. \A w \in Workers, k \in FileKeys : ~Imports(w, k)
  BY <1>1 DEF Imports, FileKeys, FilesIn!Importers
<1>3. \A k \in FileKeys : v1[k] \in {FilesIn!NoRows, Whole(k)}
  BY <1>2 DEF FilesInv, KeyInv
<1>4. v2 <= 1
  BY DEF FilesInv, OneCustomer
<1> QED BY <1>3, <1>4 DEF FileKeys, FilesIn!NoRows, Whole

-----------------------------------------------------------------------------
(***************************************************************************)
(* Intake.  v1 = bill, v2 = job, v3 = form, v4 = stock, v6 = astray.  The  *)
(* sum over a bill's lines is one only while they are finitely many and    *)
(* each is of a number of pieces, so both go into the invariant; what the  *)
(* providers read is of a number of pieces however the pages are shared    *)
(* out among them.                                                         *)
(***************************************************************************)
IsRead(l) == /\ l = [pic |-> l.pic, k |-> l.k, page |-> l.page, price |-> l.price,
                     qty |-> l.qty, sure |-> l.sure]
             /\ l.qty \in Int

IsStored(l) == /\ l = [pic |-> l.pic, k |-> l.k, page |-> l.page, pieces |-> l.pieces]
               /\ l.pieces \in Int

AllRead(S) == \A l \in S : IsRead(l)

\* what the theorem needs of the providers and of what they may answer
LEMMA QuantitiesRead == \A r \in Replies : \A k \in DOMAIN r.lines : r.lines[k].qty \in Int
<1> SUFFICES ASSUME NEW r \in Replies, NEW k \in DOMAIN r.lines PROVE r.lines[k].qty \in Int
  OBVIOUS
<1>1. PICK R : R = [qty : Int, price : Int, sure : BOOLEAN]
  OBVIOUS
<1>2. r.lines \in Seq(R)
  BY <1>1, IntakeAssumption DEF Reply
<1>3. r.lines[k] \in R
  BY <1>2
<1> QED BY <1>1, <1>3

LEMMA GroupsHaveOne ==
    \A g \in DOMAIN Groups : g \in Nat /\ 1 \in DOMAIN Groups[g] /\ DOMAIN Groups[g] = 1 .. Len(Groups[g])
<1> SUFFICES ASSUME NEW g \in DOMAIN Groups
             PROVE  g \in Nat /\ 1 \in DOMAIN Groups[g] /\ DOMAIN Groups[g] = 1 .. Len(Groups[g])
  OBVIOUS
<1>1. Groups \in Seq(Seq(ProviderNames) \ {<<>>})
  BY IntakeAssumption
<1>2. g \in Nat /\ Groups[g] \in Seq(ProviderNames) \ {<<>>}
  BY <1>1
<1>3. PICK group : group = Groups[g]
  OBVIOUS
<1>4. group \in Seq(ProviderNames) /\ group # <<>>
  BY <1>2, <1>3
<1>5. 1 \in DOMAIN group /\ DOMAIN group = 1 .. Len(group)
  BY <1>4
<1> QED BY <1>2, <1>3, <1>5

LEMMA LeastIn ==
    ASSUME NEW S \in SUBSET Nat, S # {}
    PROVE  Upload!Min(S) \in S
<1>1. PICK m \in S : \A n \in S : <<n, m>> \notin OpToRel(<, Nat)
  BY NatLessThanWellFounded, WFMin
<1>2. \A n \in S : n < m => <<n, m>> \in OpToRel(<, Nat)
  BY DEF OpToRel
<1>3. \A n \in S : ~(n < m)
  BY <1>1, <1>2, Zenon
<1>4. \A n \in S : m <= n
  BY <1>3
<1> QED BY <1>4 DEF Upload!Min

LEMMA LinesRead ==
    ASSUME NEW pic, NEW reply \in Replies, NEW page
    PROVE  AllRead(Upload!LinesOf(pic, reply, page))
BY QuantitiesRead DEF AllRead, IsRead, Upload!LinesOf, Upload!Line

LEMMA PicturesInOrder ==
    \A j \in Upload!Jobs : Upload!Pics(j) \in Seq(Upload!Range(Upload!Pics(j)))
<1> SUFFICES ASSUME NEW j \in Upload!Jobs
             PROVE  Upload!Pics(j) \in Seq(Upload!Range(Upload!Pics(j)))
  OBVIOUS
<1>1. DOMAIN Batches[j] = 1 .. Len(Batches[j]) /\ Len(Batches[j]) \in Nat
  <2>1. Batches[j] \in Seq([pic : Pictures, file : Nat])
    BY IntakeAssumption DEF Upload!Jobs
  <2> QED BY <2>1
<1>2. PICK n \in Nat : DOMAIN Batches[j] = 1 .. n
  BY <1>1
<1>3. PICK pics : pics = Upload!Pics(j)
  OBVIOUS
<1>4. pics = [i \in 1 .. n |-> pics[i]]
  BY <1>2, <1>3 DEF Upload!Pics
<1>5. pics \in [1 .. n -> Upload!Range(pics)]
  BY <1>4 DEF Upload!Range
<1> QED BY <1>3, <1>5

\* A provider answers for each picture it is handed.
LEMMA ShareRead ==
    ASSUME NEW pics, NEW nos, NEW replies,
           \A i \in DOMAIN pics : replies[pics[i]] \in Replies,
           Len(pics) > 1 \/ 1 \in DOMAIN pics
    PROVE  AllRead(Upload!Share(pics, nos, replies).lines)
<1>1. \A i \in DOMAIN pics : AllRead(Upload!LinesOf(pics[i], replies[pics[i]], nos[i]))
  BY LinesRead
<1>2. AllRead({}) /\ Upload!Nothing.lines = {}
  BY DEF AllRead, Upload!Nothing
<1>3. AllRead(Upload!Chunked(pics, nos, replies).lines)
  BY <1>1, <1>2 DEF Upload!Chunked, AllRead
<1>4. CASE Len(pics) > 1
  BY <1>3, <1>4 DEF Upload!Share
<1>5. CASE ~(Len(pics) > 1)
  BY <1>1, <1>2, <1>5 DEF Upload!Share
<1> QED BY <1>4, <1>5

\* The pages dealt to a provider are pages of the bill.
LEMMA DealtIn ==
    ASSUME NEW T, NEW pics \in Seq(T), NEW n \in Nat \ {0}, NEW i \in 1 .. n, i <= Len(pics)
    PROVE  /\ 1 \in DOMAIN Upload!Dealt(pics, n, i)
           /\ \A m \in DOMAIN Upload!Dealt(pics, n, i) : Upload!Dealt(pics, n, i)[m] \in DOMAIN pics
<1>1. PICK a \in Nat : a = Len(pics) - i
  OBVIOUS
<1>2. PICK q \in Nat : q = a \div n /\ q * n <= a
  OBVIOUS
<1>3. Upload!Dealt(pics, n, i) = [m \in 1 .. q + 1 |-> i + (m - 1) * n]
  BY <1>1, <1>2 DEF Upload!Dealt
<1>4. ASSUME NEW m \in 1 .. q + 1 PROVE i + (m - 1) * n \in DOMAIN pics
  <2>1. PICK k \in Nat : k = m - 1 /\ k <= q
    OBVIOUS
  <2>2. k * n \in Nat /\ k * n <= q * n
    BY <2>1
  <2>3. PICK d \in Nat : d = k * n /\ d <= a
    BY <1>2, <2>2
  <2>4. i + (m - 1) * n = i + d
    BY <2>1, <2>3
  <2> QED BY <1>1, <2>3, <2>4
<1> DEFINE dealt == [m \in 1 .. q + 1 |-> i + (m - 1) * n]
<1>5. /\ 1 \in DOMAIN dealt
      /\ \A m \in DOMAIN dealt : dealt[m] \in DOMAIN pics
  BY <1>4
<1> HIDE DEF dealt
<1> QED BY <1>3, <1>5 DEF dealt

Answered(pics) == [Upload!Range(pics) -> Replies]

LEMMA GroupRead ==
    ASSUME NEW T, NEW pics \in Seq(T), pics # <<>>,
           NEW replies \in [Upload!Providers -> Answered(pics)], NEW g \in DOMAIN Groups
    PROVE  AllRead(Upload!AskGroup(Groups[g], pics, replies).lines)
<1>0. PICK group : group = Groups[g]
  OBVIOUS
<1>1. /\ 1 \in DOMAIN group /\ DOMAIN group = 1 .. Len(group) /\ Len(group) \in Nat
      /\ \A i \in DOMAIN group : group[i] \in Upload!Providers
  BY <1>0, GroupsHaveOne DEF Upload!Providers, Upload!Range
<1>2. ASSUME NEW i \in DOMAIN group, NEW k \in DOMAIN pics
      PROVE  replies[group[i]][pics[k]] \in Replies
  BY <1>1 DEF Answered, Upload!Range
<1>3. 1 \in DOMAIN pics
  OBVIOUS
<1>4. CASE Len(group) = 1 \/ Len(pics) <= 1
  <2>1. AllRead(Upload!Share(pics, [i \in DOMAIN pics |-> i], replies[group[1]]).lines)
    BY <1>1, <1>2, <1>3, ShareRead
  <2> QED BY <1>0, <1>4, <2>1 DEF Upload!AskGroup
<1>5. CASE ~(Len(group) = 1 \/ Len(pics) <= 1)
  <2> DEFINE nos(i) == Upload!Dealt(pics, Len(group), i)
             share(i) == Upload!Share([k \in DOMAIN nos(i) |-> pics[nos(i)[k]]], nos(i), replies[group[i]])
             Shares == {share(i) : i \in {j \in DOMAIN group : j <= Len(pics)}}
  <2>1. ASSUME NEW i \in DOMAIN group, i <= Len(pics) PROVE AllRead(share(i).lines)
    <3>1. /\ 1 \in DOMAIN nos(i)
          /\ \A m \in DOMAIN nos(i) : nos(i)[m] \in DOMAIN pics
      BY <1>1, <2>1, DealtIn
    <3> HIDE DEF nos
    <3> DEFINE mine == [k \in DOMAIN nos(i) |-> pics[nos(i)[k]]]
    <3>2. \A k \in DOMAIN mine : replies[group[i]][mine[k]] \in Replies
      BY <1>2, <3>1
    <3>3. 1 \in DOMAIN mine
      BY <3>1
    <3> HIDE DEF mine
    <3>4. AllRead(Upload!Share(mine, nos(i), replies[group[i]]).lines)
      BY <3>2, <3>3, ShareRead
    <3> QED BY <3>4 DEF mine
  <2>2. Upload!AskGroup(group, pics, replies) = Upload!Joined(Shares)
    BY <1>5 DEF Upload!AskGroup
  <2>3. \A s \in Shares : AllRead(s.lines)
    BY <2>1
  <2> HIDE DEF Shares
  <2>4. AllRead({}) /\ Upload!Nothing.lines = {}
    BY DEF AllRead, Upload!Nothing
  <2>5. AllRead(UNION {s.lines : s \in {t \in Shares : t.ok}})
    BY <2>3 DEF AllRead
  <2>6. AllRead(Upload!Joined(Shares).lines)
    BY <2>4, <2>5 DEF Upload!Joined
  <2> QED BY <1>0, <2>2, <2>6
<1> QED BY <1>4, <1>5

\* What a job stores is of a number of pieces.
LEMMA VerdictStores ==
    ASSUME NEW j \in Upload!Jobs, NEW v \in Upload!Verdicts[j]
    PROVE  \A l \in v.lines : IsStored(l)
<1> DEFINE pics == Upload!Pics(j)
<1>1. PICK replies \in [Upload!Providers -> [Upload!Range(pics) -> Replies]] :
          v = Upload!Verdict(pics, replies)
  BY DEF Upload!Verdicts
<1>2. pics \in Seq(Upload!Range(pics))
  BY PicturesInOrder
<1> HIDE DEF pics
<1> DEFINE ex == Upload!Extract(pics, replies)
<1>3. ex.ok => AllRead(ex.lines)
  <2> DEFINE good == {g \in DOMAIN Groups : pics # <<>> /\ Upload!AskGroup(Groups[g], pics, replies).ok}
  <2>1. CASE good = {}
    BY <2>1 DEF Upload!Extract, Upload!Nothing
  <2>2. CASE good # {}
    <3>1. good \in SUBSET Nat
      BY GroupsHaveOne
    <3>2. Upload!Min(good) \in good
      <4> HIDE DEF good
      <4> QED BY <2>2, <3>1, LeastIn
    <3>3. PICK g \in DOMAIN Groups : g = Upload!Min(good) /\ pics # <<>>
      BY <3>2
    <3>4. AllRead(Upload!AskGroup(Groups[g], pics, replies).lines)
      BY <1>1, <1>2, <3>3, GroupRead DEF Answered
    <3>5. ex = Upload!AskGroup(Groups[g], pics, replies)
      BY <2>2, <3>3 DEF Upload!Extract
    <3> QED BY <3>4, <3>5
  <2> QED BY <2>1, <2>2
<1>4. PICK e : e = ex
  OBVIOUS
<1> HIDE DEF ex
<1>5. ASSUME AllRead(e.lines), NEW l \in Upload!Judge(e).lines PROVE IsStored(l)
  <2> DEFINE unit == Upload!ChooseUnit(e.lines, e.total)
             wrong == Upload!LineTotals(e.lines, unit, e.total)
             lines == IF wrong THEN {Upload!Corrected(x, unit) : x \in e.lines} ELSE e.lines
  <2>1. \A x \in e.lines : Upload!Corrected(x, unit).qty = x.qty
    BY <1>5 DEF AllRead, IsRead, Upload!Corrected
  <2>2. \A x \in lines : x.qty \in Int
    BY <1>5, <2>1 DEF AllRead, IsRead
  <2>3. Upload!Judge(e).lines = {[pic |-> x.pic, k |-> x.k, page |-> x.page,
                                  pieces |-> Upload!Pieces(x.qty, unit)] : x \in lines}
    BY DEF Upload!Judge
  <2> HIDE DEF lines, unit
  <2>4. PICK x \in lines : l = [pic |-> x.pic, k |-> x.k, page |-> x.page,
                                pieces |-> Upload!Pieces(x.qty, unit)]
    BY <1>5, <2>3
  <2>5. Upload!Pieces(x.qty, unit) \in Int
    BY <2>2 DEF Upload!Pieces
  <2> QED BY <2>4, <2>5 DEF IsStored
<1>6. v = IF e.ok THEN Upload!Judge(e) ELSE [lines |-> {}, status |-> "review"]
  BY <1>1, <1>4 DEF Upload!Verdict, ex
<1> QED BY <1>3, <1>4, <1>5, <1>6

\* The pieces of a set of lines, as a sum of the sum lemmas.
PiecesWalk(S, g) ==
    g = [s \in SUBSET S |-> IF s = {} THEN 0 ELSE Some(s).pieces + g[s \ {Some(s)}]]

PiecesWalkOf(S) == CHOOSE g : PiecesWalk(S, g)

LEMMA PiecesAreSum ==
    ASSUME NEW S, IsFiniteSet(S), NEW F, \A l \in S : F[l] = l.pieces
    PROVE  Upload!PiecesOf(S) = SumFunctionOnSet(F, S)
<1>1. \A s \in SUBSET S : s # {} => F[Some(s)] = Some(s).pieces
  BY SomeIn
<1>2. \A g : PiecesWalk(S, g) <=> Iter(F, S, g)
  <2> TAKE g
  <2> DEFINE one == [s \in SUBSET S |-> IF s = {} THEN 0 ELSE Some(s).pieces + g[s \ {Some(s)}]]
             two == [s \in SUBSET S |-> IF s = {} THEN 0 ELSE F[Some(s)] + g[s \ {Some(s)}]]
  <2>1. one = two
    BY <1>1
  <2> QED BY <2>1 DEF PiecesWalk, Iter
<1>3. Iter(F, S, IterOf(F, S))
  BY IterExists
<1>4. Iter(F, S, PiecesWalkOf(S))
  BY <1>2, <1>3 DEF PiecesWalkOf
<1>5. PiecesWalkOf(S)[S] = IterOf(F, S)[S]
  <2>1. S \in SUBSET S
    OBVIOUS
  <2> QED BY <1>3, <1>4, <2>1, IterAgree
<1>6. Upload!PiecesOf(S) = PiecesWalkOf(S)[S]
  BY DEF Upload!PiecesOf, Upload!MapThenSumSet, Upload!MapThenFoldSet, PiecesWalkOf, PiecesWalk, Some
<1> QED BY <1>5, <1>6, SumIsIter

Countable(S) == IsFiniteSet(S) /\ \A l \in S : l.pieces \in Int

LEMMA PiecesCount ==
    /\ Upload!PiecesOf({}) = 0
    /\ \A S : Countable(S) => Upload!PiecesOf(S) \in Int
<1>1. IsFiniteSet({})
  BY FS_EmptySet
<1>2. Upload!PiecesOf({}) = SumFunctionOnSet(<<>>, {})
  BY <1>1, PiecesAreSum
<1>3. ASSUME NEW S, Countable(S) PROVE Upload!PiecesOf(S) \in Int
  <2> DEFINE F == [l \in S |-> l.pieces]
  <2>1. (\A l \in S : F[l] = l.pieces) /\ \A l \in S : F[l] \in Int
    BY <1>3 DEF Countable
  <2>2. IsFiniteSet(S)
    BY <1>3 DEF Countable
  <2> HIDE DEF F
  <2> QED BY <2>1, <2>2, PiecesAreSum, SumType
<1> QED BY <1>2, <1>3, SumEmpty

-----------------------------------------------------------------------------
IsBill(b) ==
    /\ {"status", "deleted", "pages", "lines"} \subseteq DOMAIN b
    /\ b.deleted \in BOOLEAN /\ Countable(b.lines)

IsJob(r) == "lines" \in DOMAIN r /\ \A l \in r.lines : l.pieces \in Int

IntakeType ==
    /\ IsBill(v1)
    /\ DOMAIN v2 = Upload!Jobs /\ \A j \in Upload!Jobs : IsJob(v2[j])
    /\ v2 = [j \in Upload!Jobs |-> v2[j]]
    /\ Countable(v3) /\ v4 \in Int

IntakeInv ==
    /\ IntakeType
    /\ ~v6 => v4 = Upload!CountedIn(v1)

\* A bill that is not a live confirmed one counts for nothing.
LEMMA NothingCounted ==
    ASSUME NEW b, b.status # "confirmed" \/ b.deleted \/ b.lines = {}
    PROVE  Upload!CountedIn(b) = 0
BY PiecesCount DEF Upload!CountedIn

LEMMA CountedType == ASSUME NEW b, IsBill(b) PROVE Upload!CountedIn(b) \in Int
BY PiecesCount DEF Upload!CountedIn, IsBill

\* A job moves on with a record of a job.
LEMMA JobMoves ==
    ASSUME IntakeType, NEW j \in Upload!Jobs, NEW r, IsJob(r), v2' = [v2 EXCEPT ![j] = r]
    PROVE  /\ DOMAIN v2' = Upload!Jobs /\ \A k \in Upload!Jobs : IsJob(v2'[k])
           /\ v2' = [k \in Upload!Jobs |-> v2'[k]]
BY DEF IntakeType

LEMMA IdleJob ==
    /\ IsJob(Upload!idle)
    /\ \A place : IsJob([Upload!idle EXCEPT !.at = place])
    /\ \A kind, base : IsJob([Upload!idle EXCEPT !.at = "render", !.kind = kind, !.base = base])
BY DEF IsJob, Upload!idle

\* Saving, reading and adding a job's lines.
LEMMA JobChanges ==
    ASSUME NEW r, IsJob(r)
    PROVE  /\ \A n : IsJob([r EXCEPT !.page = n])
           /\ \A l : IsJob([r EXCEPT !.lines = @ \ {l}])
           /\ \A s, lines : (\A l \in lines : l.pieces \in Int)
                  => IsJob([r EXCEPT !.at = "save", !.status = s, !.lines = lines])
BY DEF IsJob

\* Changing a field of a bill.
LEMMA BillStatus ==
    ASSUME NEW b, IsBill(b), NEW s, NEW c, c = [b EXCEPT !.status = s]
    PROVE  IsBill(c) /\ c.status = s /\ c.deleted = b.deleted /\ c.lines = b.lines
BY DEF IsBill

LEMMA BillPages ==
    ASSUME NEW b, IsBill(b), NEW p, NEW c, c = [b EXCEPT !.pages = p]
    PROVE  IsBill(c) /\ c.status = b.status /\ c.deleted = b.deleted /\ c.lines = b.lines
BY DEF IsBill

LEMMA BillDeleted ==
    ASSUME NEW b, IsBill(b), NEW d \in BOOLEAN, NEW c, c = [b EXCEPT !.deleted = d]
    PROVE  IsBill(c) /\ c.status = b.status /\ c.deleted = d /\ c.lines = b.lines
BY DEF IsBill

LEMMA BillLines ==
    ASSUME NEW b, IsBill(b), NEW L, Countable(L), NEW c, c = [b EXCEPT !.lines = L]
    PROVE  IsBill(c) /\ c.status = b.status /\ c.deleted = b.deleted /\ c.lines = L
BY DEF IsBill

LEMMA CountableMore ==
    ASSUME NEW S, Countable(S), NEW l, l.pieces \in Int
    PROVE  Countable(S \cup {l})
<1>1. IsFiniteSet(S \cup {l})
  BY FS_AddElement DEF Countable
<1> QED BY <1>1 DEF Countable

LEMMA FreshBill ==
    /\ IsBill(Upload!NoBill) /\ Upload!CountedIn(Upload!NoBill) = 0
    /\ \A s \in {"review", "gone"} : \A b :
           b = [Upload!NoBill EXCEPT !.status = s] => IsBill(b) /\ Upload!CountedIn(b) = 0
<1>1. IsFiniteSet({})
  BY FS_EmptySet
<1>2. IsBill(Upload!NoBill) /\ Upload!NoBill.status = "none"
  BY <1>1 DEF IsBill, Countable, Upload!NoBill
<1>3. ASSUME NEW s \in {"review", "gone"}, NEW b, b = [Upload!NoBill EXCEPT !.status = s]
      PROVE  IsBill(b) /\ b.status = s
  BY <1>2, <1>3, BillStatus
<1> QED BY <1>2, <1>3, NothingCounted

LEMMA IntakeInit == Upload!Init => IntakeInv
<1> SUFFICES ASSUME Upload!Init PROVE IntakeInv
  OBVIOUS
<1>1. v1 = Upload!NoBill /\ v2 = [j \in Upload!Jobs |-> Upload!idle] /\ v3 = {} /\ v4 = 0
  BY DEF Upload!Init
<1>2. Countable({})
  BY FS_EmptySet DEF Countable
<1>3. IntakeType
  <2>1. IsBill(v1)
    BY <1>1, FreshBill
  <2>2. /\ DOMAIN v2 = Upload!Jobs /\ v2 = [j \in Upload!Jobs |-> v2[j]]
        /\ \A j \in Upload!Jobs : IsJob(v2[j])
    BY <1>1, IdleJob
  <2> QED BY <1>1, <1>2, <2>1, <2>2 DEF IntakeType
<1> QED BY <1>1, <1>3, FreshBill DEF IntakeInv

\* A job that changes nothing but itself.
LEMMA OnlyJob ==
    ASSUME IntakeInv, NEW j \in Upload!Jobs, NEW r, IsJob(r), v2' = [v2 EXCEPT ![j] = r],
           UNCHANGED <<v1, v3, v4, v6>>
    PROVE  IntakeInv'
BY JobMoves DEF IntakeInv, IntakeType

LEMMA IntakeStep == IntakeInv /\ Upload!Next => IntakeInv'
<1> SUFFICES ASSUME IntakeInv, Upload!Next PROVE IntakeInv'
  OBVIOUS
<1>0. IntakeType /\ IsBill(v1) /\ v4 \in Int /\ v6 \in {v6} /\ (~v6 => v4 = Upload!CountedIn(v1))
  BY DEF IntakeInv, IntakeType
<1>1. ASSUME NEW j \in Upload!Jobs, Upload!UploadAsync(j) PROVE IntakeInv'
  <2>1. /\ v1 = Upload!NoBill /\ v1' = [Upload!NoBill EXCEPT !.status = "review"]
        /\ v2' = [v2 EXCEPT ![j] = [Upload!idle EXCEPT !.at = "render", !.kind = "upload", !.base = 0]]
        /\ UNCHANGED <<v3, v4, v6>>
    BY <1>1 DEF Upload!UploadAsync, Upload!Started
  <2>2. IsBill(v1') /\ Upload!CountedIn(v1') = 0 /\ Upload!CountedIn(v1) = 0
    BY <2>1, FreshBill
  <2> QED BY <1>0, <2>1, <2>2, JobMoves, IdleJob DEF IntakeInv, IntakeType
<1>2. CASE Upload!EmptyBill
  <2>1. /\ v1 = Upload!NoBill /\ v1' = [Upload!NoBill EXCEPT !.status = "review"]
        /\ UNCHANGED <<v2, v3, v4, v6>>
    BY <1>2 DEF Upload!EmptyBill
  <2>2. IsBill(v1') /\ Upload!CountedIn(v1') = 0 /\ Upload!CountedIn(v1) = 0
    BY <2>1, FreshBill
  <2> QED BY <1>0, <2>1, <2>2 DEF IntakeInv, IntakeType
<1>3. ASSUME NEW j \in Upload!Jobs, Upload!AddPages(j) PROVE IntakeInv'
  <2>1. PICK base : v2' = [v2 EXCEPT ![j] = [Upload!idle EXCEPT !.at = "render", !.kind = "add", !.base = base]]
    BY <1>3 DEF Upload!AddPages, Upload!Started
  <2>2. UNCHANGED <<v1, v3, v4, v6>>
    BY <1>3 DEF Upload!AddPages
  <2> QED BY <2>1, <2>2, IdleJob, OnlyJob
<1>4. ASSUME NEW j \in Upload!Jobs, Upload!RenderPage(j) PROVE IntakeInv'
  <2>1. PICK p : v1' = [v1 EXCEPT !.pages = p]
    BY <1>4 DEF Upload!RenderPage
  <2>2. PICK n : v2' = [v2 EXCEPT ![j] = [v2[j] EXCEPT !.page = n]]
    BY <1>4 DEF Upload!RenderPage, Upload!Advance
  <2>3. UNCHANGED <<v3, v4, v6>>
    BY <1>4 DEF Upload!RenderPage
  <2>4. IsBill(v1') /\ v1'.status = v1.status /\ v1'.deleted = v1.deleted /\ v1'.lines = v1.lines
    BY <1>0, <2>1, BillPages
  <2>5. Upload!CountedIn(v1') = Upload!CountedIn(v1)
    BY <2>4 DEF Upload!CountedIn
  <2>6. IsJob([v2[j] EXCEPT !.page = n])
    BY <1>0, JobChanges DEF IntakeType
  <2> QED BY <1>0, <2>2, <2>3, <2>4, <2>5, <2>6, JobMoves DEF IntakeInv, IntakeType
<1>5. ASSUME NEW j \in Upload!Jobs, Upload!ExtractPages(j) PROVE IntakeInv'
  <2>1. PICK v \in Upload!Verdicts[j] :
            v2' = [v2 EXCEPT ![j] = [v2[j] EXCEPT !.at = "save", !.status = v.status,
                                          !.lines = Upload!Shifted(v.lines, v2[j].base)]]
    BY <1>5 DEF Upload!ExtractPages, Upload!Advance
  <2>2. UNCHANGED <<v1, v3, v4, v6>>
    BY <1>5 DEF Upload!ExtractPages
  <2>3. ASSUME NEW base PROVE \A l \in Upload!Shifted(v.lines, base) : l.pieces \in Int
    <3>1. ASSUME NEW l \in v.lines PROVE [l EXCEPT !.page = @ + base].pieces \in Int
      <4>1. IsStored(l)
        BY VerdictStores
      <4> QED BY <4>1 DEF IsStored
    <3> QED BY <3>1 DEF Upload!Shifted
  <2>4. IsJob([v2[j] EXCEPT !.at = "save", !.status = v.status,
                            !.lines = Upload!Shifted(v.lines, v2[j].base)])
    BY <1>0, <2>3, JobChanges DEF IntakeType
  <2> QED BY <2>1, <2>2, <2>4, OnlyJob
<1>6. ASSUME NEW j \in Upload!Jobs, Upload!SaveLine(j) PROVE IntakeInv'
  <2>1. PICK l : l = CHOOSE x \in v2[j].lines : TRUE
    OBVIOUS
  <2>2. /\ v2[j].lines # {} /\ UNCHANGED <<v3, v4>>
        /\ v1' = [v1 EXCEPT !.lines = @ \cup {l}]
        /\ v2' = [v2 EXCEPT ![j] = [v2[j] EXCEPT !.lines = @ \ {l}]]
        /\ v6' = (v6 \/ v1.status = "confirmed")
    BY <1>6, <2>1 DEF Upload!SaveLine, Upload!Advance
  <2>3. l.pieces \in Int
    <3>1. l \in v2[j].lines
      BY <2>1, <2>2
    <3> QED BY <1>0, <3>1 DEF IntakeType, IsJob
  <2>4. PICK L : L = v1.lines \cup {l}
    OBVIOUS
  <2>5. Countable(L)
    BY <1>0, <2>3, <2>4, CountableMore DEF IsBill
  <2>6. IsBill(v1') /\ v1'.status = v1.status
    BY <1>0, <2>2, <2>4, <2>5, BillLines
  <2>7. IsJob([v2[j] EXCEPT !.lines = @ \ {l}])
    BY <1>0, JobChanges DEF IntakeType
  <2>8. ~v6' => v4' = Upload!CountedIn(v1')
    BY <1>0, <2>2, <2>6, NothingCounted
  <2> QED BY <1>0, <2>2, <2>6, <2>7, <2>8, JobMoves DEF IntakeInv, IntakeType
<1>7. ASSUME NEW j \in Upload!Jobs, Upload!SaveUpload(j) PROVE IntakeInv'
  <2>1. PICK s : s = v2[j].status
    OBVIOUS
  <2>2. /\ v1' = IF Upload!Stored THEN [v1 EXCEPT !.status = s] ELSE v1
        /\ v2' = [v2 EXCEPT ![j] = [Upload!idle EXCEPT !.at = "done"]]
        /\ v6' = (v6 \/ (Upload!Stored /\ "confirmed" \in {v1.status, s}))
        /\ UNCHANGED <<v3, v4>>
    BY <1>7, <2>1 DEF Upload!SaveUpload, Upload!Advance
  <2>3. IsBill(v1')
    BY <1>0, <2>2, BillStatus
  <2>4. ~v6' => v4' = Upload!CountedIn(v1')
    <3>1. CASE Upload!Stored
      <4>1. v1'.status = s
        BY <1>0, <2>2, <3>1, BillStatus
      <4> QED BY <1>0, <2>2, <3>1, <4>1, NothingCounted
    <3>2. CASE ~Upload!Stored
      BY <1>0, <2>2, <3>2
    <3> QED BY <3>1, <3>2
  <2> QED BY <1>0, <2>2, <2>3, <2>4, JobMoves, IdleJob DEF IntakeInv, IntakeType
<1>8. ASSUME NEW j \in Upload!Jobs, Upload!SaveAdded(j) PROVE IntakeInv'
  <2>2. /\ v1' = IF Upload!Stored THEN [v1 EXCEPT !.status = "review"] ELSE v1
        /\ v2' = [v2 EXCEPT ![j] = [Upload!idle EXCEPT !.at = "done"]]
        /\ v6' = (v6 \/ v1.status = "confirmed")
        /\ UNCHANGED <<v3, v4>>
    BY <1>8 DEF Upload!SaveAdded, Upload!Advance
  <2>3. IsBill(v1')
    BY <1>0, <2>2, BillStatus
  <2>4. ~v6' => v4' = Upload!CountedIn(v1')
    <3>1. CASE Upload!Stored
      <4>1. v1'.status = "review"
        BY <1>0, <2>2, <3>1, BillStatus
      <4> QED BY <1>0, <2>2, <4>1, NothingCounted
    <3>2. CASE ~Upload!Stored
      BY <1>0, <2>2, <3>2
    <3> QED BY <3>1, <3>2
  <2> QED BY <1>0, <2>2, <2>3, <2>4, JobMoves, IdleJob DEF IntakeInv, IntakeType
<1>9. ASSUME NEW j \in Upload!Jobs, Upload!JobFails(j) PROVE IntakeInv'
  <2>1. /\ v2' = [v2 EXCEPT ![j] = [Upload!idle EXCEPT !.at = "error"]]
        /\ UNCHANGED <<v1, v3, v4, v6>>
    BY <1>9 DEF Upload!JobFails, Upload!Fails, Upload!Advance
  <2> QED BY <2>1, IdleJob, OnlyJob
<1>10. CASE Upload!OpenForm
  <2>1. v3' = v1.lines /\ UNCHANGED <<v1, v2, v4, v6>>
    BY <1>10 DEF Upload!OpenForm
  <2> QED BY <1>0, <2>1 DEF IntakeInv, IntakeType, IsBill
<1>11. CASE Upload!Confirm
  <2>1. PICK L \in {v3, v3 \cup {Upload!ByHand}} :
            /\ v1' = [v1 EXCEPT !.status = "confirmed", !.lines = L]
            /\ v4' = v4 - Upload!Reversed(v1) + Upload!PiecesOf(L)
    BY <1>11 DEF Upload!Confirm
  <2>2. ~v1.deleted /\ UNCHANGED <<v2, v3, v6>>
    BY <1>11 DEF Upload!Confirm
  <2>3. Countable(L)
    BY <1>0, CountableMore DEF IntakeType, Upload!ByHand
  <2>4. IsBill(v1') /\ v1'.status = "confirmed" /\ ~v1'.deleted /\ v1'.lines = L
    <3>1. IsBill(v1) /\ v1' = [v1 EXCEPT !.status = "confirmed", !.lines = L]
      BY <1>0, <2>1
    <3>2. /\ IsBill(v1') /\ v1'.status = "confirmed" /\ v1'.deleted = v1.deleted
          /\ v1'.lines = L
      BY <2>3, <3>1 DEF IsBill
    <3> QED BY <2>2, <3>2
  <2>5. PICK r \in Int : r = Upload!Reversed(v1)
    BY <1>0, PiecesCount DEF Upload!Reversed, IsBill
  <2>6. PICK p \in Int : p = Upload!PiecesOf(L)
    BY <2>3, PiecesCount
  <2>7. r = Upload!CountedIn(v1)
    BY <2>2, <2>5 DEF Upload!Reversed, Upload!CountedIn
  <2>8. Upload!CountedIn(v1') = p
    BY <2>4, <2>6 DEF Upload!CountedIn
  <2>9. v4' = v4 - r + p
    BY <2>1, <2>5, <2>6
  <2>10. v4' \in Int /\ (~v6 => v4' = p)
    BY <1>0, <2>7, <2>9
  <2> QED BY <1>0, <2>2, <2>4, <2>8, <2>10 DEF IntakeInv, IntakeType
<1>12. CASE Upload!Rebuild
  <2>1. v4' = Upload!CountedIn(v1) /\ UNCHANGED <<v1, v2, v3>>
    BY <1>12 DEF Upload!Rebuild, Upload!Replays
  <2> QED BY <1>0, <2>1, CountedType DEF IntakeInv, IntakeType
<1>13. ASSUME NEW d \in BOOLEAN, Upload!Moved([v1 EXCEPT !.deleted = d]), v1.deleted # d PROVE IntakeInv'
  <2>1. v1' = [v1 EXCEPT !.deleted = d] /\ UNCHANGED <<v2, v3>>
    BY <1>13 DEF Upload!Moved
  <2>2. IsBill(v1') /\ v1'.status = v1.status /\ v1'.lines = v1.lines
    BY <1>0, <2>1, BillDeleted
  <2>3. CASE v1.status = "confirmed" /\ v1.lines # {}
    <3>1. v4' = Upload!CountedIn(v1')
      BY <1>13, <2>1, <2>3 DEF Upload!Moved, Upload!Replays
    <3> QED BY <1>0, <2>1, <2>2, <3>1, CountedType DEF IntakeInv, IntakeType
  <2>4. CASE ~(v1.status = "confirmed" /\ v1.lines # {})
    <3>1. UNCHANGED <<v4, v6>>
      BY <1>13, <2>4 DEF Upload!Moved
    <3>2. Upload!CountedIn(v1') = 0 /\ Upload!CountedIn(v1) = 0
      BY <2>2, <2>4, NothingCounted
    <3> QED BY <1>0, <2>1, <2>2, <3>1, <3>2 DEF IntakeInv, IntakeType
  <2> QED BY <2>3, <2>4
<1>14. CASE Upload!SoftDelete
  BY <1>0, <1>13, <1>14 DEF Upload!SoftDelete
<1>15. CASE Upload!Restore
  BY <1>0, <1>13, <1>15 DEF Upload!Restore
<1>16. CASE Upload!HardDelete
  <2>1. v1' = [Upload!NoBill EXCEPT !.status = "gone"] /\ UNCHANGED <<v2, v3>>
    BY <1>16 DEF Upload!HardDelete
  <2>2. IsBill(v1') /\ Upload!CountedIn(v1') = 0
    BY <2>1, FreshBill
  <2>3. CASE v1.status = "confirmed" /\ ~v1.deleted /\ v1.lines # {}
    <3>1. v4' = Upload!CountedIn(v1')
      BY <1>16, <2>3 DEF Upload!HardDelete, Upload!Replays
    <3> QED BY <1>0, <2>1, <2>2, <3>1 DEF IntakeInv, IntakeType
  <2>4. CASE ~(v1.status = "confirmed" /\ ~v1.deleted /\ v1.lines # {})
    <3>1. UNCHANGED <<v4, v6>>
      BY <1>16, <2>4 DEF Upload!HardDelete
    <3>2. Upload!CountedIn(v1) = 0
      BY <2>4, NothingCounted
    <3> QED BY <1>0, <2>1, <2>2, <3>1, <3>2 DEF IntakeInv, IntakeType
  <2> QED BY <2>3, <2>4
<1>17. ASSUME NEW replay \in BOOLEAN, Upload!Restart(replay) PROVE IntakeInv'
  <2>1. /\ v2' = [j \in Upload!Jobs |-> IF v2[j] = Upload!idle THEN Upload!idle
                                        ELSE [Upload!idle EXCEPT !.at = "error"]]
        /\ UNCHANGED <<v1, v3>>
    BY <1>17 DEF Upload!Restart
  <2>2. \A j \in Upload!Jobs : IsJob(v2'[j])
    BY <2>1, IdleJob
  <2>3. CASE replay
    <3>1. v4' = Upload!CountedIn(v1)
      BY <1>17, <2>3 DEF Upload!Restart, Upload!Replays
    <3> QED BY <1>0, <2>1, <2>2, <3>1, CountedType DEF IntakeInv, IntakeType
  <2>4. CASE ~replay
    <3>1. UNCHANGED <<v4, v6>>
      BY <1>17, <2>4 DEF Upload!Restart
    <3> QED BY <1>0, <2>1, <2>2, <3>1 DEF IntakeInv, IntakeType
  <2> QED BY <2>3, <2>4
<1> QED
  BY <1>1, <1>2, <1>3, <1>4, <1>5, <1>6, <1>7, <1>8, <1>9, <1>10, <1>11, <1>12, <1>14, <1>15,
     <1>16, <1>17 DEF Upload!Next

LEMMA IntakeSame == ASSUME IntakeInv, UNCHANGED allVars PROVE IntakeInv'
BY DEF allVars, IntakeInv, IntakeType

LEMMA IntakeMeans == IntakeInv => Upload!StockFollowsBill
BY DEF Upload!StockFollowsBill, IntakeInv

-----------------------------------------------------------------------------
(***************************************************************************)
(* Page numbers.  v7 = crowded.  A line shows its picture for good only if *)
(* the pages keep their numbers apart: the one job that is numbering is    *)
(* past every number given, and what it has numbered so far are its own    *)
(* pictures in their order.                                                *)
(***************************************************************************)
\* the pages a provider's lines come from
From(S, pics) == \A l \in S : l.page \in DOMAIN pics /\ l.pic = pics[l.page]

LEMMA ShareFrom ==
    ASSUME NEW all, NEW pics, NEW nos, NEW replies,
           \A i \in DOMAIN pics : nos[i] \in DOMAIN all /\ all[nos[i]] = pics[i],
           Len(pics) > 1 \/ 1 \in DOMAIN pics
    PROVE  From(Upload!Share(pics, nos, replies).lines, all)
<1>1. \A i \in DOMAIN pics : From(Upload!LinesOf(pics[i], replies[pics[i]], nos[i]), all)
  BY DEF From, Upload!LinesOf, Upload!Line
<1>2. From({}, all) /\ Upload!Nothing.lines = {}
  BY DEF From, Upload!Nothing
<1>3. From(Upload!Chunked(pics, nos, replies).lines, all)
  BY <1>1, <1>2 DEF Upload!Chunked, From
<1>4. CASE Len(pics) > 1
  BY <1>3, <1>4 DEF Upload!Share
<1>5. CASE ~(Len(pics) > 1)
  BY <1>1, <1>2, <1>5 DEF Upload!Share
<1> QED BY <1>4, <1>5

LEMMA GroupFrom ==
    ASSUME NEW T, NEW pics \in Seq(T), pics # <<>>, NEW replies, NEW g \in DOMAIN Groups
    PROVE  From(Upload!AskGroup(Groups[g], pics, replies).lines, pics)
<1>0. PICK group : group = Groups[g]
  OBVIOUS
<1>1. 1 \in DOMAIN group /\ DOMAIN group = 1 .. Len(group) /\ Len(group) \in Nat
  BY <1>0, GroupsHaveOne
<1>2. 1 \in DOMAIN pics
  OBVIOUS
<1>3. CASE Len(group) = 1 \/ Len(pics) <= 1
  <2>1. From(Upload!Share(pics, [i \in DOMAIN pics |-> i], replies[group[1]]).lines, pics)
    BY <1>2, ShareFrom
  <2> QED BY <1>0, <1>3, <2>1 DEF Upload!AskGroup
<1>4. CASE ~(Len(group) = 1 \/ Len(pics) <= 1)
  <2> DEFINE nos(i) == Upload!Dealt(pics, Len(group), i)
             share(i) == Upload!Share([k \in DOMAIN nos(i) |-> pics[nos(i)[k]]], nos(i), replies[group[i]])
             Shares == {share(i) : i \in {j \in DOMAIN group : j <= Len(pics)}}
  <2>1. ASSUME NEW i \in DOMAIN group, i <= Len(pics) PROVE From(share(i).lines, pics)
    <3>1. /\ 1 \in DOMAIN nos(i)
          /\ \A m \in DOMAIN nos(i) : nos(i)[m] \in DOMAIN pics
      BY <1>1, <2>1, DealtIn
    <3> HIDE DEF nos
    <3> DEFINE mine == [k \in DOMAIN nos(i) |-> pics[nos(i)[k]]]
    <3>2. \A k \in DOMAIN mine : nos(i)[k] \in DOMAIN pics /\ pics[nos(i)[k]] = mine[k]
      BY <3>1
    <3>3. 1 \in DOMAIN mine
      BY <3>1
    <3> HIDE DEF mine
    <3>4. From(Upload!Share(mine, nos(i), replies[group[i]]).lines, pics)
      BY <3>2, <3>3, ShareFrom
    <3> QED BY <3>4 DEF mine
  <2>2. Upload!AskGroup(group, pics, replies) = Upload!Joined(Shares)
    BY <1>4 DEF Upload!AskGroup
  <2>3. \A s \in Shares : From(s.lines, pics)
    BY <2>1
  <2> HIDE DEF Shares
  <2>4. From({}, pics) /\ Upload!Nothing.lines = {}
    BY DEF From, Upload!Nothing
  <2>5. From(UNION {s.lines : s \in {t \in Shares : t.ok}}, pics)
    BY <2>3 DEF From
  <2>6. From(Upload!Joined(Shares).lines, pics)
    BY <2>4, <2>5 DEF Upload!Joined
  <2> QED BY <1>0, <2>2, <2>6
<1> QED BY <1>3, <1>4

\* What a job stores comes from the pictures its page numbers say.
LEMMA VerdictFrom ==
    ASSUME NEW j \in Upload!Jobs, NEW v \in Upload!Verdicts[j]
    PROVE  From(v.lines, Upload!Pics(j)) /\ v.status # "none"
<1> DEFINE pics == Upload!Pics(j)
<1>1. PICK replies \in [Upload!Providers -> [Upload!Range(pics) -> Replies]] :
          v = Upload!Verdict(pics, replies)
  BY DEF Upload!Verdicts
<1>2. pics \in Seq(Upload!Range(pics))
  BY PicturesInOrder
<1> HIDE DEF pics
<1> DEFINE ex == Upload!Extract(pics, replies)
<1>3. ex.ok => AllRead(ex.lines) /\ From(ex.lines, pics)
  <2> DEFINE good == {g \in DOMAIN Groups : pics # <<>> /\ Upload!AskGroup(Groups[g], pics, replies).ok}
  <2>1. CASE good = {}
    BY <2>1 DEF Upload!Extract, Upload!Nothing
  <2>2. CASE good # {}
    <3>1. good \in SUBSET Nat
      BY GroupsHaveOne
    <3>2. Upload!Min(good) \in good
      <4> HIDE DEF good
      <4> QED BY <2>2, <3>1, LeastIn
    <3>3. PICK g \in DOMAIN Groups : g = Upload!Min(good) /\ pics # <<>>
      BY <3>2
    <3>4. AllRead(Upload!AskGroup(Groups[g], pics, replies).lines)
      BY <1>1, <1>2, <3>3, GroupRead DEF Answered
    <3>5. From(Upload!AskGroup(Groups[g], pics, replies).lines, pics)
      BY <1>2, <3>3, GroupFrom
    <3>6. ex = Upload!AskGroup(Groups[g], pics, replies)
      BY <2>2, <3>3 DEF Upload!Extract
    <3> QED BY <3>4, <3>5, <3>6
  <2> QED BY <2>1, <2>2
<1>4. PICK e : e = ex
  OBVIOUS
<1> HIDE DEF ex
<1>5. ASSUME AllRead(e.lines), From(e.lines, pics) PROVE From(Upload!Judge(e).lines, pics)
  <2> DEFINE unit == Upload!ChooseUnit(e.lines, e.total)
             wrong == Upload!LineTotals(e.lines, unit, e.total)
             lines == IF wrong THEN {Upload!Corrected(x, unit) : x \in e.lines} ELSE e.lines
  <2>1. \A x \in e.lines : /\ Upload!Corrected(x, unit).page = x.page
                           /\ Upload!Corrected(x, unit).pic = x.pic
    BY <1>5 DEF AllRead, IsRead, Upload!Corrected
  <2>2. From(lines, pics)
    BY <1>5, <2>1 DEF From
  <2>3. Upload!Judge(e).lines = {[pic |-> x.pic, k |-> x.k, page |-> x.page,
                                  pieces |-> Upload!Pieces(x.qty, unit)] : x \in lines}
    BY DEF Upload!Judge
  <2> HIDE DEF lines, unit
  <2> QED BY <2>2, <2>3 DEF From
<1>6. v = IF e.ok THEN Upload!Judge(e) ELSE [lines |-> {}, status |-> "review"]
  BY <1>1, <1>4 DEF Upload!Verdict, ex
<1>7. Upload!Judge(e).status # "none"
  BY DEF Upload!Judge
<1>8. From(v.lines, pics) /\ v.status # "none"
  BY <1>3, <1>4, <1>5, <1>6, <1>7 DEF From
<1> QED BY <1>8 DEF pics
-----------------------------------------------------------------------------
\* The pages with a number, and the line's among them.
Numbered(pages, n) == {p.pic : p \in {q \in pages : q.no = n}}
Shows(pages, l) == Numbered(pages, l.page) = {l.pic}
AllShow(pages, lines) == \A l \in lines \ {Upload!ByHand} : Shows(pages, l)

\* a job that has still pages to number, and the numbers it has given
Numbering(jobs, j) == jobs[j].at = "render" /\ jobs[j].page < Len(Upload!Pics(j))
Given(pages, r, pics) == \A m \in 1 .. r.page : Numbered(pages, r.base + m) = {pics[m]}

IsPages(pages) == IsFiniteSet(pages) /\ \A p \in pages : p.no \in Nat
PageJob(r) ==
    /\ r = [at |-> r.at, kind |-> r.kind, base |-> r.base, page |-> r.page, lines |-> r.lines,
            status |-> r.status]
    /\ r.base \in Nat /\ r.page \in Nat /\ r.status # "none"

PagesType ==
    /\ v1 = [status |-> v1.status, deleted |-> v1.deleted, pages |-> v1.pages, lines |-> v1.lines]
    /\ IsPages(v1.pages)
    /\ v2 = [j \in Upload!Jobs |-> v2[j]]
    /\ \A j \in Upload!Jobs : PageJob(v2[j])

\* Nobody has begun on a bill that is not there.
Unbegun == /\ v1.pages = {} /\ v1.lines = {} /\ v3 = {}
           /\ \A j \in Upload!Jobs : v2[j].at \notin {"render", "save"}

\* What a job has numbered, and what it read, is what its pictures are.
JobShows(pages, r, pics) ==
    /\ r.at = "render" => r.page <= Len(pics) /\ Given(pages, r, pics)
    /\ r.at = "save" => \A l \in r.lines : Shows(pages, l)

\* The numbers a job will give are free.
Ahead(pages, jobs, j) == Numbering(jobs, j) => \A p \in pages : p.no <= jobs[j].base + jobs[j].page

OneNumbers(jobs) == \A i, j \in Upload!Jobs : Numbering(jobs, i) /\ Numbering(jobs, j) => i = j

Clear(b, jobs, editor) ==
    /\ AllShow(b.pages, b.lines)
    /\ b.status \in {"review", "confirmed"} =>
          /\ AllShow(b.pages, editor)
          /\ \A j \in Upload!Jobs : JobShows(b.pages, jobs[j], Upload!Pics(j))
          /\ \A j \in Upload!Jobs : Ahead(b.pages, jobs, j)
          /\ OneNumbers(jobs)

PagesInv ==
    /\ PagesType
    /\ v1.status = "none" => Unbegun
    /\ ~v7 => Clear(v1, v2, v3)

LEMMA GreatestIn ==
    ASSUME NEW S, IsFiniteSet(S), S \subseteq Nat, S # {}
    PROVE  Upload!Max(S) \in Nat /\ \A n \in S : n <= Upload!Max(S)
<1> DEFINE R == {p \in Nat \X Nat : p[1] < p[2]}
<1>1. \A x, y \in Nat : <<x, y>> \in R <=> x < y
  OBVIOUS
<1> HIDE DEF R
<1>2. \A x \in S : <<x, x>> \notin R
  BY <1>1
<1>3. \A x, y, z \in S : <<x, y>> \in R /\ <<y, z>> \in R => <<x, z>> \in R
  BY <1>1
<1>4. \A T \in SUBSET S : T # {} => \E x \in T : \A y \in T : <<x, y>> \notin R
  BY <1>2, <1>3, LastElement
<1>5. PICK m \in S : \A y \in S : <<m, y>> \notin R
  BY <1>4
<1>6. ASSUME NEW y \in S PROVE m >= y
  <2>1. m \in Nat /\ y \in Nat /\ ~(m < y)
    BY <1>1, <1>5
  <2> QED BY <2>1
<1>7. Upload!Max(S) \in S /\ \A y \in S : Upload!Max(S) >= y
  BY <1>6 DEF Upload!Max
<1> QED BY <1>7

\* A page with a number of its own is added to the others.
WithPage(more, pages, n, pic) == more = pages \cup {[no |-> n, pic |-> pic]}
Beyond(pages, n) == \A p \in pages : p.no < n

LEMMA PageAdded ==
    ASSUME NEW pages, IsPages(pages), NEW n \in Nat, Beyond(pages, n), NEW pic,
           NEW more, WithPage(more, pages, n, pic)
    PROVE  /\ IsPages(more)
           /\ Numbered(more, n) = {pic}
           /\ \A k, x : Numbered(pages, k) = {x} => Numbered(more, k) = {x}
           /\ \A p \in more : p.no <= n
<1> DEFINE page == [no |-> n, pic |-> pic]
<1>1. page.no = n /\ page.pic = pic
  OBVIOUS
<1> HIDE DEF page
<1>2. more = pages \cup {page}
  BY DEF page, WithPage
<1>3. IsPages(more)
  BY <1>1, <1>2, FS_AddElement DEF IsPages
<1>4. \A p \in pages : p.no # n /\ p.no <= n
  BY DEF IsPages, Beyond
<1>5. Numbered(more, n) = {pic}
  BY <1>1, <1>2, <1>4 DEF Numbered
<1>6. ASSUME NEW k, NEW x, Numbered(pages, k) = {x} PROVE Numbered(more, k) = {x}
  <2>1. k # n
    BY <1>4, <1>6 DEF Numbered
  <2>2. Numbered(more, k) = Numbered(pages, k)
    BY <1>1, <1>2, <2>1 DEF Numbered
  <2> QED BY <1>6, <2>2
<1>7. \A p \in more : p.no <= n
  BY <1>1, <1>2, <1>4
<1> QED BY <1>3, <1>5, <1>6, <1>7

\* The empty bill.
LEMMA NoPages == IsPages({}) /\ \A pages : AllShow(pages, {})
BY FS_EmptySet DEF IsPages, AllShow

\* A job moves on.
LEMMA PageJobs ==
    ASSUME PagesType, NEW j \in Upload!Jobs, NEW r, v2' = [v2 EXCEPT ![j] = r]
    PROVE  /\ v2' = [i \in Upload!Jobs |-> v2'[i]] /\ v2'[j] = r
           /\ \A i \in Upload!Jobs \ {j} : v2'[i] = v2[i]
           /\ PageJob(r) => \A i \in Upload!Jobs : PageJob(v2'[i])
BY DEF PagesType

LEMMA BatchLength ==
    \A j \in Upload!Jobs : Len(Upload!Pics(j)) \in Nat /\ DOMAIN Upload!Pics(j) = 1 .. Len(Upload!Pics(j))
BY PicturesInOrder

\* A job that stops, or that has not begun, promises nothing.
LEMMA Stopped ==
    ASSUME PagesInv, NEW j \in Upload!Jobs, NEW r, v2' = [v2 EXCEPT ![j] = r],
           PageJob(r), r.at \notin {"render", "save"}
    PROVE  /\ v2' = [i \in Upload!Jobs |-> v2'[i]] /\ \A i \in Upload!Jobs : PageJob(v2'[i])
           /\ \A i \in Upload!Jobs : v2'[i].at \in {"render", "save"} => v2'[i] = v2[i]
BY PageJobs DEF PagesInv

\* While the pages stay, jobs that stay or stop keep what they show.
LEMMA JobsKeep ==
    ASSUME NEW pages, NEW old, NEW new,
           \A i \in Upload!Jobs : new[i].at \in {"render", "save"} => new[i] = old[i],
           \A i \in Upload!Jobs : JobShows(pages, old[i], Upload!Pics(i)),
           \A i \in Upload!Jobs : Ahead(pages, old, i),
           OneNumbers(old)
    PROVE  /\ \A i \in Upload!Jobs : JobShows(pages, new[i], Upload!Pics(i))
           /\ \A i \in Upload!Jobs : Ahead(pages, new, i)
           /\ OneNumbers(new)
<1>1. \A i \in Upload!Jobs : JobShows(pages, new[i], Upload!Pics(i))
  BY DEF JobShows
<1>2. \A i \in Upload!Jobs : Numbering(new, i) => Numbering(old, i) /\ new[i] = old[i]
  BY DEF Numbering
<1> QED BY <1>1, <1>2 DEF Ahead, OneNumbers

\* A bill in its parts.
IsWhole(b) == b = [status |-> b.status, deleted |-> b.deleted, pages |-> b.pages, lines |-> b.lines]

LEMMA StatusSet ==
    ASSUME NEW b, IsWhole(b), NEW x, NEW c, c = [b EXCEPT !.status = x]
    PROVE  IsWhole(c) /\ c.status = x /\ c.pages = b.pages /\ c.lines = b.lines
BY DEF IsWhole

LEMMA DeletedSet ==
    ASSUME NEW b, IsWhole(b), NEW x, NEW c, c = [b EXCEPT !.deleted = x]
    PROVE  IsWhole(c) /\ c.status = b.status /\ c.pages = b.pages /\ c.lines = b.lines
BY DEF IsWhole

LEMMA LinesSet ==
    ASSUME NEW b, IsWhole(b), NEW x, NEW c, c = [b EXCEPT !.lines = x]
    PROVE  IsWhole(c) /\ c.status = b.status /\ c.pages = b.pages /\ c.lines = x
BY DEF IsWhole

LEMMA NewBill ==
    /\ IsWhole(Upload!NoBill) /\ Upload!NoBill.status = "none"
    /\ Upload!NoBill.pages = {} /\ Upload!NoBill.lines = {}
BY DEF IsWhole, Upload!NoBill

LEMMA IdlePages ==
    /\ PageJob(Upload!idle) /\ Upload!idle.at = "idle"
    /\ \A place : PageJob([Upload!idle EXCEPT !.at = place])
                /\ [Upload!idle EXCEPT !.at = place].at = place
BY DEF PageJob, Upload!idle

LEMMA PageSet ==
    ASSUME NEW r, PageJob(r), NEW n \in Nat, NEW c, c = [r EXCEPT !.page = n]
    PROVE  PageJob(c) /\ c.at = r.at /\ c.base = r.base /\ c.page = n
BY DEF PageJob

LEMMA ReadSet ==
    ASSUME NEW r, PageJob(r), NEW x, NEW c, c = [r EXCEPT !.lines = x]
    PROVE  PageJob(c) /\ c.at = r.at /\ c.base = r.base /\ c.page = r.page /\ c.lines = x
BY DEF PageJob

LEMMA PagesInit == Upload!Init => PagesInv
<1> SUFFICES ASSUME Upload!Init PROVE PagesInv
  OBVIOUS
<1>1. v1 = Upload!NoBill /\ v2 = [j \in Upload!Jobs |-> Upload!idle] /\ v3 = {}
  BY DEF Upload!Init
<1>2. PagesType
  BY <1>1, NewBill, IdlePages, NoPages DEF PagesType, IsWhole
<1>3. Unbegun
  BY <1>1, NewBill, IdlePages DEF Unbegun
<1>4. Clear(v1, v2, v3)
  BY <1>1, NewBill, NoPages DEF Clear
<1> QED BY <1>2, <1>3, <1>4 DEF PagesInv

\* The bill, its pages and lines as they are or as they are in the editor; jobs stop.
LEMMA OnlyShown ==
    ASSUME PagesInv, v7' = v7,
           IsWhole(v1'), v1'.pages = v1.pages,
           v1'.status = "none" => v1.status = "none" /\ v1'.lines = v1.lines /\ v3' = v3,
           v1'.status \in {"review", "confirmed"} => v1.status \in {"review", "confirmed"},
           v1'.lines \subseteq v1.lines \cup v3 \cup {Upload!ByHand},
           v3' \subseteq v1.lines \cup v3,
           v1'.lines \subseteq v1.lines \/ v1.status \in {"review", "confirmed"},
           v2' = [i \in Upload!Jobs |-> v2'[i]], \A i \in Upload!Jobs : PageJob(v2'[i]),
           \A i \in Upload!Jobs : v2'[i].at \in {"render", "save"} => v2'[i] = v2[i]
    PROVE  PagesInv'
<1>1. PagesType'
  BY DEF PagesInv, PagesType, IsWhole
<1>2. v1'.status = "none" => Unbegun'
  BY DEF PagesInv, Unbegun
<1>3. ASSUME ~v7' PROVE Clear(v1', v2', v3')
  <2>1. Clear(v1, v2, v3)
    BY <1>3 DEF PagesInv
  <2>2. AllShow(v1'.pages, v1'.lines)
    BY <2>1 DEF Clear, AllShow
  <2>3. ASSUME v1'.status \in {"review", "confirmed"}
        PROVE  /\ \A i \in Upload!Jobs : JobShows(v1'.pages, v2'[i], Upload!Pics(i))
               /\ \A i \in Upload!Jobs : Ahead(v1'.pages, v2', i)
               /\ OneNumbers(v2')
    BY <2>1, <2>3, JobsKeep DEF Clear
  <2>4. v1'.status \in {"review", "confirmed"} => AllShow(v1'.pages, v3')
    BY <2>1 DEF Clear, AllShow
  <2> QED BY <2>2, <2>3, <2>4 DEF Clear
<1> QED BY <1>1, <1>2, <1>3 DEF PagesInv

LEMMA PagesStep == PagesInv /\ Upload!Next => PagesInv'
<1> SUFFICES ASSUME PagesInv, Upload!Next PROVE PagesInv'
  OBVIOUS
<1>0. /\ PagesType /\ IsWhole(v1) /\ IsPages(v1.pages)
      /\ v2 = [j \in Upload!Jobs |-> v2[j]] /\ \A j \in Upload!Jobs : PageJob(v2[j])
      /\ Upload!Stored <=> v1.status \in {"review", "confirmed"}
  BY DEF PagesInv, PagesType, IsWhole, Upload!Stored
<1>1. ASSUME v1 = Upload!NoBill, v1' = [Upload!NoBill EXCEPT !.status = "review"],
             v7' = v7, v3' = v3, v2' = [i \in Upload!Jobs |-> v2'[i]],
             \A i \in Upload!Jobs : PageJob(v2'[i]),
             \A i \in Upload!Jobs : v2'[i].at \in {"render", "save"}
                 => v2'[i].at = "render" /\ v2'[i].page = 0,
             OneNumbers(v2')
      PROVE  PagesInv'
  <2>1. IsWhole(v1') /\ v1'.status = "review" /\ v1'.pages = {} /\ v1'.lines = {}
    BY <1>1 DEF IsWhole, Upload!NoBill
  <2>2. v3 = {}
    BY <1>1, NewBill DEF PagesInv, Unbegun
  <2>3. PagesType'
    BY <1>1, <2>1, NoPages DEF PagesType, IsWhole
  <2>4. \A i \in Upload!Jobs : JobShows(v1'.pages, v2'[i], Upload!Pics(i))
    BY <1>1, BatchLength DEF JobShows, Given
  <2>5. \A i \in Upload!Jobs : Ahead(v1'.pages, v2', i)
    BY <1>1, <2>1 DEF Ahead
  <2>6. Clear(v1', v2', v3')
    BY <1>1, <2>1, <2>2, <2>4, <2>5, NoPages DEF Clear
  <2> QED BY <2>1, <2>3, <2>6 DEF PagesInv
<1>2. ASSUME NEW j \in Upload!Jobs, Upload!UploadAsync(j) PROVE PagesInv'
  <2>1. PICK r : r = [Upload!idle EXCEPT !.at = "render", !.kind = "upload", !.base = 0]
    OBVIOUS
  <2>2. /\ v1 = Upload!NoBill /\ v1' = [Upload!NoBill EXCEPT !.status = "review"]
        /\ v2' = [v2 EXCEPT ![j] = r] /\ UNCHANGED <<v3, v7>>
    BY <1>2, <2>1 DEF Upload!UploadAsync, Upload!Started
  <2>3. PageJob(r) /\ r.at = "render" /\ r.page = 0
    BY <2>1 DEF PageJob, Upload!idle
  <2>4. \A i \in Upload!Jobs : v2[i].at \notin {"render", "save"}
    BY <2>2, NewBill DEF PagesInv, Unbegun
  <2>5. /\ v2' = [i \in Upload!Jobs |-> v2'[i]] /\ v2'[j] = r
        /\ \A i \in Upload!Jobs \ {j} : v2'[i] = v2[i]
        /\ \A i \in Upload!Jobs : PageJob(v2'[i])
    BY <1>0, <2>2, <2>3, PageJobs
  <2>6. \A i \in Upload!Jobs : v2'[i].at \in {"render", "save"} => i = j
    BY <2>4, <2>5
  <2>7. OneNumbers(v2')
    BY <2>6 DEF OneNumbers, Numbering
  <2>8. \A i \in Upload!Jobs : v2'[i].at \in {"render", "save"}
            => v2'[i].at = "render" /\ v2'[i].page = 0
    BY <2>3, <2>5, <2>6
  <2> QED BY <1>1, <2>2, <2>5, <2>7, <2>8
<1>3. CASE Upload!EmptyBill
  <2>1. /\ v1 = Upload!NoBill /\ v1' = [Upload!NoBill EXCEPT !.status = "review"]
        /\ UNCHANGED <<v2, v3, v7>>
    BY <1>3 DEF Upload!EmptyBill
  <2>2. \A i \in Upload!Jobs : v2[i].at \notin {"render", "save"}
    BY <2>1, NewBill DEF PagesInv, Unbegun
  <2>3. OneNumbers(v2)
    BY <2>2 DEF OneNumbers, Numbering
  <2> QED BY <1>0, <1>1, <2>1, <2>2, <2>3
<1>4. ASSUME NEW j \in Upload!Jobs, Upload!AddPages(j) PROVE PagesInv'
  <2> DEFINE nos == {p.no : p \in v1.pages} \cup {0}
  <2>1. IsFiniteSet(nos) /\ nos \subseteq Nat /\ nos # {}
    <3> DEFINE name == [p \in v1.pages |-> p.no]
    <3>1. IsFiniteSet({name[p] : p \in v1.pages})
      <4> HIDE DEF name
      <4> QED BY <1>0, FiniteImage DEF IsPages
    <3>2. {name[p] : p \in v1.pages} = {p.no : p \in v1.pages}
      OBVIOUS
    <3>3. IsFiniteSet(nos)
      BY <3>1, <3>2, FS_AddElement
    <3> QED BY <1>0, <3>3 DEF IsPages
  <2>2. PICK base \in Nat : base = Upload!Max(nos) /\ \A n \in nos : n <= base
    <3> HIDE DEF nos
    <3> QED BY <2>1, GreatestIn
  <2>3. \A p \in v1.pages : p.no <= base
    BY <2>2
  <2>4. PICK r : r = [Upload!idle EXCEPT !.at = "render", !.kind = "add", !.base = base]
    OBVIOUS
  <2>5. v2' = [v2 EXCEPT ![j] = r] /\ UNCHANGED <<v1, v3>> /\ Upload!Stored
    BY <1>4, <2>2, <2>4 DEF Upload!AddPages, Upload!Started
  <2>6. ~v7' => ~v7 /\ \A i \in Upload!Jobs : ~Numbering(v2, i)
    BY <1>4 DEF Upload!AddPages, Numbering
  <2>7. PageJob(r) /\ r.at = "render" /\ r.page = 0 /\ r.base = base
    BY <2>4 DEF PageJob, Upload!idle
  <2>8. /\ v2' = [i \in Upload!Jobs |-> v2'[i]] /\ v2'[j] = r
        /\ \A i \in Upload!Jobs \ {j} : v2'[i] = v2[i]
        /\ \A i \in Upload!Jobs : PageJob(v2'[i])
    BY <1>0, <2>5, <2>7, PageJobs
  <2>9. PagesType'
    BY <1>0, <2>5, <2>8 DEF PagesType, IsWhole
  <2>10. PICK jobs : jobs = v2'
    OBVIOUS
  <2>11. ASSUME ~v7' PROVE Clear(v1, jobs, v3)
    <3>1. Clear(v1, v2, v3) /\ \A i \in Upload!Jobs : ~Numbering(v2, i)
      BY <2>6, <2>11 DEF PagesInv
    <3>2. \A i \in Upload!Jobs : Numbering(jobs, i) => i = j
      BY <2>8, <2>10, <3>1 DEF Numbering
    <3>3. \A i \in Upload!Jobs : Ahead(v1.pages, jobs, i)
      <4>1. \A p \in v1.pages : p.no <= base + 0
        BY <1>0, <2>3 DEF IsPages
      <4> QED BY <2>7, <2>8, <2>10, <3>2, <4>1 DEF Ahead
    <3>4. OneNumbers(jobs)
      BY <3>2 DEF OneNumbers
    <3>5. JobShows(v1.pages, r, Upload!Pics(j))
      BY <2>7, BatchLength DEF JobShows, Given
    <3>6. \A i \in Upload!Jobs : JobShows(v1.pages, jobs[i], Upload!Pics(i))
      BY <1>0, <2>5, <2>8, <2>10, <3>1, <3>5 DEF Clear
    <3> QED BY <3>1, <3>3, <3>4, <3>6 DEF Clear
  <2> QED BY <1>0, <2>5, <2>9, <2>10, <2>11 DEF PagesInv
<1>5. ASSUME NEW j \in Upload!Jobs, Upload!RenderPage(j) PROVE PagesInv'
  <2>1. PICK n : n = v2[j].base + v2[j].page + 1
    OBVIOUS
  <2>2. PICK pic : pic = Upload!Pics(j)[v2[j].page + 1]
    OBVIOUS
  <2>3. PICK more : more = v1.pages \cup {[no |-> n, pic |-> pic]}
    OBVIOUS
  <2>4. PICK r : r = [v2[j] EXCEPT !.page = v2[j].page + 1]
    OBVIOUS
  <2>5. /\ v2[j].at = "render" /\ v2[j].page < Len(Upload!Pics(j)) /\ Upload!Stored
        /\ v1' = [v1 EXCEPT !.pages = more] /\ v2' = [v2 EXCEPT ![j] = r] /\ UNCHANGED <<v3, v7>>
    BY <1>5, <2>1, <2>2, <2>3, <2>4 DEF Upload!RenderPage, Upload!Advance, Upload!NextPage
  <2>6. v2[j].base \in Nat /\ v2[j].page \in Nat /\ n \in Nat /\ v2[j].page + 1 \in Nat
    BY <1>0, <2>1 DEF PageJob
  <2>7. PageJob(r) /\ r.at = "render" /\ r.base = v2[j].base /\ r.page = v2[j].page + 1
    BY <1>0, <2>4, <2>5, <2>6, PageSet
  <2>8. IsWhole(v1') /\ v1'.status = v1.status /\ v1'.pages = more /\ v1'.lines = v1.lines
    BY <1>0, <2>5 DEF IsWhole
  <2>9. /\ v2' = [i \in Upload!Jobs |-> v2'[i]] /\ v2'[j] = r
        /\ \A i \in Upload!Jobs \ {j} : v2'[i] = v2[i]
        /\ \A i \in Upload!Jobs : PageJob(v2'[i])
    BY <1>0, <2>5, <2>7, PageJobs
  <2>10. IsPages(more)
    <3>1. IsFiniteSet(more)
      BY <1>0, <2>3, FS_AddElement DEF IsPages
    <3> QED BY <1>0, <2>3, <2>6, <3>1 DEF IsPages
  <2>11. PagesType'
    BY <2>8, <2>9, <2>10 DEF PagesType, IsWhole
  <2>12. PICK jobs : jobs = v2'
    OBVIOUS
  <2>13. ASSUME ~v7 PROVE Clear(v1', jobs, v3)
    <3>1. Clear(v1, v2, v3)
      BY <2>13 DEF PagesInv
    <3>2. /\ AllShow(v1.pages, v1.lines) /\ AllShow(v1.pages, v3)
          /\ \A i \in Upload!Jobs : JobShows(v1.pages, v2[i], Upload!Pics(i))
          /\ \A i \in Upload!Jobs : Ahead(v1.pages, v2, i)
          /\ OneNumbers(v2)
      BY <1>0, <2>5, <3>1 DEF Clear
    <3>3. Numbering(v2, j) /\ \A i \in Upload!Jobs : Numbering(v2, i) => i = j
      BY <2>5, <3>2 DEF OneNumbers, Numbering
    <3>4. \A p \in v1.pages : p.no < n
      BY <1>0, <2>1, <2>6, <3>2, <3>3 DEF Ahead, IsPages
    <3>5. /\ IsPages(more)
          /\ Numbered(more, n) = {pic}
          /\ \A k, x : Numbered(v1.pages, k) = {x} => Numbered(more, k) = {x}
          /\ \A p \in more : p.no <= n
      <4>1. WithPage(more, v1.pages, n, pic) /\ Beyond(v1.pages, n)
        BY <2>3, <3>4 DEF WithPage, Beyond
      <4> QED BY <1>0, <2>6, <4>1, PageAdded
    <3>6. AllShow(more, v1.lines) /\ AllShow(more, v3)
      BY <3>2, <3>5 DEF AllShow, Shows
    <3>7. \A i \in Upload!Jobs : JobShows(more, v2[i], Upload!Pics(i))
      <4>1. ASSUME NEW i \in Upload!Jobs, v2[i].at = "render"
            PROVE  v2[i].page <= Len(Upload!Pics(i)) /\ Given(more, v2[i], Upload!Pics(i))
        <5>1. v2[i].page <= Len(Upload!Pics(i)) /\ Given(v1.pages, v2[i], Upload!Pics(i))
          BY <3>2, <4>1 DEF JobShows
        <5>2. ASSUME NEW m \in 1 .. v2[i].page
              PROVE  Numbered(more, v2[i].base + m) = {Upload!Pics(i)[m]}
          <6>1. Numbered(v1.pages, v2[i].base + m) = {Upload!Pics(i)[m]}
            BY <5>1 DEF Given
          <6> QED BY <3>5, <6>1
        <5> QED BY <5>1, <5>2 DEF Given
      <4>2. ASSUME NEW i \in Upload!Jobs, v2[i].at = "save"
            PROVE  \A l \in v2[i].lines : Shows(more, l)
        BY <3>2, <3>5, <4>2 DEF JobShows, Shows
      <4> QED BY <4>1, <4>2 DEF JobShows
    <3>8. JobShows(more, r, Upload!Pics(j))
      <4>1. Given(more, v2[j], Upload!Pics(j))
        BY <2>5, <3>7 DEF JobShows
      <4>2. ASSUME NEW m \in 1 .. r.page
            PROVE  Numbered(more, r.base + m) = {Upload!Pics(j)[m]}
        <5>1. CASE m = v2[j].page + 1
          BY <2>1, <2>2, <2>6, <2>7, <3>5, <5>1
        <5>2. CASE m # v2[j].page + 1
          BY <2>6, <2>7, <4>1, <5>2 DEF Given
        <5> QED BY <5>1, <5>2
      <4>3. r.page <= Len(Upload!Pics(j))
        BY <2>5, <2>6, <2>7, BatchLength
      <4> QED BY <2>7, <4>2, <4>3 DEF JobShows, Given
    <3>9. \A i \in Upload!Jobs : JobShows(more, jobs[i], Upload!Pics(i))
      BY <2>9, <2>12, <3>7, <3>8
    <3>10. \A i \in Upload!Jobs : Numbering(jobs, i) => i = j
      BY <2>9, <2>12, <3>3 DEF Numbering
    <3>11. \A i \in Upload!Jobs : Ahead(more, jobs, i)
      <4>1. n = r.base + r.page
        BY <2>1, <2>6, <2>7
      <4> QED BY <2>9, <2>12, <3>5, <3>10, <4>1 DEF Ahead
    <3>12. OneNumbers(jobs)
      BY <3>10 DEF OneNumbers
    <3> QED BY <2>8, <3>6, <3>9, <3>11, <3>12 DEF Clear
  <2>14. v1'.status # "none"
    BY <1>0, <2>5, <2>8
  <2> QED BY <2>5, <2>11, <2>12, <2>13, <2>14 DEF PagesInv
<1>6. ASSUME NEW j \in Upload!Jobs, Upload!ExtractPages(j) PROVE PagesInv'
  <2>1. PICK v \in Upload!Verdicts[j] :
            v2' = [v2 EXCEPT ![j] = [v2[j] EXCEPT !.at = "save", !.status = v.status,
                                          !.lines = Upload!Shifted(v.lines, v2[j].base)]]
    BY <1>6 DEF Upload!ExtractPages, Upload!Advance
  <2>2. PICK lines : lines = Upload!Shifted(v.lines, v2[j].base)
    OBVIOUS
  <2>3. PICK r : r = [v2[j] EXCEPT !.at = "save", !.status = v.status, !.lines = lines]
    OBVIOUS
  <2>4. /\ v2' = [v2 EXCEPT ![j] = r] /\ v2[j].at = "render" /\ UNCHANGED <<v1, v3, v7>>
        /\ v2[j].page = Len(Upload!Pics(j))
    BY <1>6, <2>1, <2>2, <2>3 DEF Upload!ExtractPages
  <2>5. From(v.lines, Upload!Pics(j)) /\ v.status # "none" /\ \A l \in v.lines : IsStored(l)
    BY VerdictFrom, VerdictStores
  <2>6. PageJob(r) /\ r.at = "save" /\ r.lines = lines
    <3>1. PICK x : x = v2[j]
      OBVIOUS
    <3>2. PageJob(x) /\ r = [x EXCEPT !.at = "save", !.status = v.status, !.lines = lines]
      BY <1>0, <2>3, <3>1
    <3>3. PICK at, kind, base, page, old, status :
              x = [at |-> at, kind |-> kind, base |-> base, page |-> page, lines |-> old,
                   status |-> status]
      BY <3>2 DEF PageJob
    <3>4. r = [at |-> "save", kind |-> kind, base |-> base, page |-> page,
               lines |-> lines, status |-> v.status]
      BY <3>2, <3>3
    <3>5. base \in Nat /\ page \in Nat
      BY <3>2, <3>3 DEF PageJob
    <3> QED BY <2>5, <3>4, <3>5 DEF PageJob
  <2>7. /\ v2' = [i \in Upload!Jobs |-> v2'[i]] /\ v2'[j] = r
        /\ \A i \in Upload!Jobs \ {j} : v2'[i] = v2[i]
        /\ \A i \in Upload!Jobs : PageJob(v2'[i])
    BY <1>0, <2>4, <2>6, PageJobs
  <2>8. PagesType'
    BY <1>0, <2>4, <2>7 DEF PagesType, IsWhole
  <2>9. v1.status # "none"
    BY <2>4 DEF PagesInv, Unbegun
  <2>10. PICK jobs : jobs = v2'
    OBVIOUS
  <2>11. ASSUME ~v7 PROVE Clear(v1, jobs, v3)
    <3>1. Clear(v1, v2, v3)
      BY <2>11 DEF PagesInv
    <3>2. ASSUME v1.status \in {"review", "confirmed"}
          PROVE  /\ \A i \in Upload!Jobs : JobShows(v1.pages, jobs[i], Upload!Pics(i))
                 /\ \A i \in Upload!Jobs : Ahead(v1.pages, jobs, i)
                 /\ OneNumbers(jobs)
      <4>1. /\ \A i \in Upload!Jobs : JobShows(v1.pages, v2[i], Upload!Pics(i))
            /\ \A i \in Upload!Jobs : Ahead(v1.pages, v2, i)
            /\ OneNumbers(v2)
        BY <3>1, <3>2 DEF Clear
      <4>2. \A i \in Upload!Jobs : Numbering(jobs, i) => Numbering(v2, i) /\ jobs[i] = v2[i]
        BY <2>6, <2>7, <2>10 DEF Numbering
      <4>3. Given(v1.pages, v2[j], Upload!Pics(j))
        BY <2>4, <4>1 DEF JobShows
      <4>4. ASSUME NEW l \in lines PROVE Shows(v1.pages, l)
        <5>1. PICK x \in v.lines : l = [x EXCEPT !.page = @ + v2[j].base]
          BY <2>2 DEF Upload!Shifted
        <5>2. l.page = x.page + v2[j].base /\ l.pic = x.pic
          BY <2>5, <5>1 DEF IsStored
        <5>3. x.page \in 1 .. v2[j].page /\ x.pic = Upload!Pics(j)[x.page]
          BY <2>4, <2>5, BatchLength DEF From
        <5>4. v2[j].base \in Nat /\ v2[j].base + x.page = x.page + v2[j].base
          BY <1>0, <5>3 DEF PageJob
        <5> QED BY <4>3, <5>2, <5>3, <5>4 DEF Given, Shows
      <4>5. JobShows(v1.pages, r, Upload!Pics(j))
        BY <2>6, <4>4 DEF JobShows
      <4>6. \A i \in Upload!Jobs : JobShows(v1.pages, jobs[i], Upload!Pics(i))
        BY <2>7, <2>10, <4>1, <4>5
      <4> QED BY <4>1, <4>2, <4>6 DEF Ahead, OneNumbers
    <3> QED BY <3>1, <3>2 DEF Clear
  <2> QED BY <2>4, <2>8, <2>9, <2>10, <2>11 DEF PagesInv
<1>7. ASSUME NEW j \in Upload!Jobs, Upload!SaveLine(j) PROVE PagesInv'
  <2>1. PICK l : l = CHOOSE x \in v2[j].lines : TRUE
    OBVIOUS
  <2>2. PICK r : r = [v2[j] EXCEPT !.lines = @ \ {l}]
    OBVIOUS
  <2>3. PICK L : L = v1.lines \cup {l}
    OBVIOUS
  <2>4. /\ v2[j].at = "save" /\ v2[j].lines # {} /\ Upload!Stored /\ UNCHANGED <<v3, v7>>
        /\ v1' = [v1 EXCEPT !.lines = L] /\ v2' = [v2 EXCEPT ![j] = r]
    BY <1>7, <2>1, <2>2, <2>3 DEF Upload!SaveLine, Upload!Advance
  <2>5. l \in v2[j].lines
    BY <2>1, <2>4
  <2>6. PageJob(r) /\ r.at = "save" /\ r.lines = v2[j].lines \ {l}
    <3>1. PICK rest : rest = v2[j].lines \ {l}
      OBVIOUS
    <3>2. r = [v2[j] EXCEPT !.lines = rest]
      BY <2>2, <3>1
    <3> QED BY <1>0, <2>4, <3>1, <3>2, ReadSet
  <2>7. IsWhole(v1') /\ v1'.status = v1.status /\ v1'.pages = v1.pages /\ v1'.lines = L
    BY <1>0, <2>4, LinesSet
  <2>8. /\ v2' = [i \in Upload!Jobs |-> v2'[i]] /\ v2'[j] = r
        /\ \A i \in Upload!Jobs \ {j} : v2'[i] = v2[i]
        /\ \A i \in Upload!Jobs : PageJob(v2'[i])
    BY <1>0, <2>4, <2>6, PageJobs
  <2>9. PagesType'
    BY <1>0, <2>7, <2>8 DEF PagesType, IsWhole
  <2>10. PICK jobs : jobs = v2'
    OBVIOUS
  <2>11. ASSUME ~v7 PROVE Clear(v1', jobs, v3)
    <3>1. /\ AllShow(v1.pages, v1.lines) /\ AllShow(v1.pages, v3)
          /\ \A i \in Upload!Jobs : JobShows(v1.pages, v2[i], Upload!Pics(i))
          /\ \A i \in Upload!Jobs : Ahead(v1.pages, v2, i)
          /\ OneNumbers(v2)
      BY <1>0, <2>4, <2>11 DEF PagesInv, Clear
    <3>2. \A x \in v2[j].lines : Shows(v1.pages, x)
      BY <2>4, <3>1 DEF JobShows
    <3>3. AllShow(v1.pages, L)
      BY <2>3, <2>5, <3>1, <3>2 DEF AllShow
    <3>4. JobShows(v1.pages, r, Upload!Pics(j))
      BY <2>6, <3>2 DEF JobShows
    <3>5. \A i \in Upload!Jobs : JobShows(v1.pages, jobs[i], Upload!Pics(i))
      BY <2>8, <2>10, <3>1, <3>4
    <3>6. \A i \in Upload!Jobs : Numbering(jobs, i) => Numbering(v2, i) /\ jobs[i] = v2[i]
      BY <2>6, <2>8, <2>10 DEF Numbering
    <3>7. (\A i \in Upload!Jobs : Ahead(v1.pages, jobs, i)) /\ OneNumbers(jobs)
      BY <3>1, <3>6 DEF Ahead, OneNumbers
    <3> QED BY <2>7, <3>1, <3>3, <3>5, <3>7 DEF Clear
  <2>12. v1'.status # "none"
    BY <1>0, <2>4, <2>7
  <2> QED BY <2>4, <2>9, <2>10, <2>11, <2>12 DEF PagesInv
<1>8. ASSUME NEW j \in Upload!Jobs, NEW s, s # "none", v2[j].at = "save",
             v1' = (IF Upload!Stored THEN [v1 EXCEPT !.status = s] ELSE v1),
             v2' = [v2 EXCEPT ![j] = [Upload!idle EXCEPT !.at = "done"]], v3' = v3, v7' = v7
      PROVE  PagesInv'
  <2>1. PICK r : r = [Upload!idle EXCEPT !.at = "done"]
    OBVIOUS
  <2>2. PageJob(r) /\ r.at \notin {"render", "save"} /\ v2' = [v2 EXCEPT ![j] = r]
    BY <1>8, <2>1, IdlePages
  <2>3. /\ v2' = [i \in Upload!Jobs |-> v2'[i]] /\ \A i \in Upload!Jobs : PageJob(v2'[i])
        /\ \A i \in Upload!Jobs : v2'[i].at \in {"render", "save"} => v2'[i] = v2[i]
    BY <2>2, Stopped
  <2>4. /\ IsWhole(v1') /\ v1'.pages = v1.pages /\ v1'.lines = v1.lines
        /\ v1'.status # "none"
        /\ v1'.status \in {"review", "confirmed"} => v1.status \in {"review", "confirmed"}
    <3>1. CASE Upload!Stored
      BY <1>0, <1>8, <3>1, StatusSet
    <3>2. CASE ~Upload!Stored
      BY <1>0, <1>8, <3>2 DEF PagesInv, Unbegun
    <3> QED BY <3>1, <3>2
  <2> QED BY <1>8, <2>3, <2>4, OnlyShown
<1>9. ASSUME NEW j \in Upload!Jobs, Upload!SaveUpload(j) PROVE PagesInv'
  <2>1. v2[j].status # "none"
    BY <1>0 DEF PageJob
  <2>2. /\ v2[j].at = "save" /\ UNCHANGED <<v3, v7>>
        /\ v1' = IF Upload!Stored THEN [v1 EXCEPT !.status = v2[j].status] ELSE v1
        /\ v2' = [v2 EXCEPT ![j] = [Upload!idle EXCEPT !.at = "done"]]
    BY <1>9 DEF Upload!SaveUpload, Upload!Advance
  <2> QED BY <1>8, <2>1, <2>2
<1>10. ASSUME NEW j \in Upload!Jobs, Upload!SaveAdded(j) PROVE PagesInv'
  <2>1. /\ v2[j].at = "save" /\ UNCHANGED <<v3, v7>>
        /\ v1' = IF Upload!Stored THEN [v1 EXCEPT !.status = "review"] ELSE v1
        /\ v2' = [v2 EXCEPT ![j] = [Upload!idle EXCEPT !.at = "done"]]
    BY <1>10 DEF Upload!SaveAdded, Upload!Advance
  <2> QED BY <1>8, <2>1
<1>11. ASSUME NEW j \in Upload!Jobs, Upload!JobFails(j) PROVE PagesInv'
  <2>1. PICK r : r = [Upload!idle EXCEPT !.at = "error"]
    OBVIOUS
  <2>2. v2' = [v2 EXCEPT ![j] = r] /\ UNCHANGED <<v1, v3, v7>>
    BY <1>11, <2>1 DEF Upload!JobFails, Upload!Fails, Upload!Advance
  <2>3. PageJob(r) /\ r.at \notin {"render", "save"}
    BY <2>1, IdlePages
  <2>4. /\ v2' = [i \in Upload!Jobs |-> v2'[i]] /\ \A i \in Upload!Jobs : PageJob(v2'[i])
        /\ \A i \in Upload!Jobs : v2'[i].at \in {"render", "save"} => v2'[i] = v2[i]
    BY <2>2, <2>3, Stopped
  <2> QED BY <1>0, <2>2, <2>4, OnlyShown
<1>12. CASE Upload!OpenForm
  <2>1. Upload!Stored /\ v3' = v1.lines /\ UNCHANGED <<v1, v2, v7>>
    BY <1>12 DEF Upload!OpenForm
  <2> QED BY <1>0, <2>1, OnlyShown
<1>13. CASE Upload!Confirm
  <2>1. PICK L \in {v3, v3 \cup {Upload!ByHand}} : v1' = [v1 EXCEPT !.status = "confirmed", !.lines = L]
    BY <1>13 DEF Upload!Confirm
  <2>2. Upload!Stored /\ UNCHANGED <<v2, v3, v7>>
    BY <1>13 DEF Upload!Confirm
  <2>3. IsWhole(v1') /\ v1'.status = "confirmed" /\ v1'.pages = v1.pages /\ v1'.lines = L
    BY <1>0, <2>1 DEF IsWhole
  <2> QED BY <1>0, <2>1, <2>2, <2>3, OnlyShown
<1>14. CASE Upload!Rebuild
  <2>1. UNCHANGED <<v1, v2, v3, v7>>
    BY <1>14 DEF Upload!Rebuild
  <2> QED BY <1>0, <2>1, OnlyShown
<1>15. ASSUME NEW d, Upload!Moved([v1 EXCEPT !.deleted = d]) PROVE PagesInv'
  <2>1. v1' = [v1 EXCEPT !.deleted = d] /\ UNCHANGED <<v2, v3, v7>>
    BY <1>15 DEF Upload!Moved
  <2>2. IsWhole(v1') /\ v1'.status = v1.status /\ v1'.pages = v1.pages /\ v1'.lines = v1.lines
    BY <1>0, <2>1, DeletedSet
  <2> QED BY <1>0, <2>1, <2>2, OnlyShown
<1>16. CASE Upload!SoftDelete
  BY <1>15, <1>16 DEF Upload!SoftDelete
<1>17. CASE Upload!Restore
  BY <1>15, <1>17 DEF Upload!Restore
<1>18. CASE Upload!HardDelete
  <2>1. v1' = [Upload!NoBill EXCEPT !.status = "gone"] /\ UNCHANGED <<v2, v3, v7>>
    BY <1>18 DEF Upload!HardDelete
  <2>2. IsWhole(v1') /\ v1'.status = "gone" /\ v1'.pages = {} /\ v1'.lines = {}
    BY <2>1, NewBill, StatusSet
  <2>3. PagesType'
    BY <1>0, <2>1, <2>2, NoPages DEF PagesType, IsWhole
  <2>4. Clear(v1', v2, v3)
    BY <2>2, NoPages DEF Clear
  <2> QED BY <2>1, <2>2, <2>3, <2>4 DEF PagesInv
<1>19. ASSUME NEW replay \in BOOLEAN, Upload!Restart(replay) PROVE PagesInv'
  <2>1. PICK r : r = [Upload!idle EXCEPT !.at = "error"]
    OBVIOUS
  <2>2. /\ v2' = [j \in Upload!Jobs |-> IF v2[j] = Upload!idle THEN Upload!idle ELSE r]
        /\ UNCHANGED <<v1, v3, v7>>
    BY <1>19, <2>1 DEF Upload!Restart
  <2>3. /\ v2' = [i \in Upload!Jobs |-> v2'[i]] /\ \A i \in Upload!Jobs : PageJob(v2'[i])
        /\ \A i \in Upload!Jobs : v2'[i].at \notin {"render", "save"}
    BY <2>1, <2>2, IdlePages
  <2> QED BY <1>0, <2>2, <2>3, OnlyShown
<1> QED
  BY <1>2, <1>3, <1>4, <1>5, <1>6, <1>7, <1>9, <1>10, <1>11, <1>12, <1>13, <1>14, <1>16, <1>17,
     <1>18, <1>19 DEF Upload!Next

LEMMA PagesSame == ASSUME PagesInv, UNCHANGED allVars PROVE PagesInv'
BY DEF allVars, PagesInv, PagesType, Unbegun

LEMMA PagesMean == PagesInv => Upload!ItemsShowTheirPage
BY DEF Upload!ItemsShowTheirPage, PagesInv, Clear, AllShow, Shows, Numbered

-----------------------------------------------------------------------------
(***************************************************************************)
(* The old till's backups.  v2 = sale, v3 = stock, v4 = cash,              *)
(* v5 = expense, v6 = runs, v7 = importer, v8 = deleter, v10 = drift,      *)
(* v11 = leak.  A deletion has all sales of its run that exist, and of no  *)
(* other; what it has put back of them does not stand any more, and what   *)
(* is not in the drawer any more is about to go.                           *)
(***************************************************************************)
Invoiced == DOMAIN TillSales
Noted == DOMAIN TillDiary
SaleRow == [status : {"none", "paid", "credit", "refunded"}, items : BOOLEAN, run : Nat,
            synced : BOOLEAN]
DiaryRow == [rows : Nat, run : Nat, drawer : Nat]
ImportRow == [run : Nat, at : {"idle", "sales", "listing", "paying"},
              todo : SUBSET (Invoiced \cup Noted), entry : SUBSET Noted]
UndoRow == [at : {"idle", "stock", "cash", "sales", "entries", "mark"}, run : Nat,
            sales : SUBSET Invoiced, todo : SUBSET Invoiced, entries : SUBSET Noted]

TillType ==
    /\ v2 \in [Invoiced -> SaleRow] /\ v3 \in Int /\ v4 \in [Invoiced -> Int]
    /\ v5 \in [Noted -> DiaryRow] /\ v6 \in Seq({"importing", "imported", "deleted"})
    /\ v7 \in ImportRow /\ v8 \in [Workers -> UndoRow]

RunsOk ==
    /\ v7.at # "idle" => v7.run = Len(v6) /\ v7.run # 0
    /\ \A d \in Workers : v8[d].at # "idle" => /\ v8[d].run \in 1 .. Len(v6)
                                               /\ v7.at # "idle" => v8[d].run # v7.run
    /\ v7.at = "sales" => \A i \in v7.todo : i \in Invoiced /\ v2[i].status = "none" /\ v2[i].run = 0
    /\ v7.at \in {"listing", "paying"} =>
          \E e \in Noted : /\ v7.todo = {e}
                           /\ v5[e].run = IF v7.at = "listing" THEN 0 ELSE v7.run

UndoOk == \A d \in Workers : v8[d].at # "idle" =>
    /\ \A i \in Invoiced : v2[i].run = v8[d].run /\ v2[i].status # "none" =>
          i \in v8[d].sales /\ v8[d].at \notin {"entries", "mark"}
    /\ \A e \in Noted : v5[e].run = v8[d].run =>
          e \in v8[d].entries \/ (v5[e].rows = 0 /\ v5[e].drawer = 0)

Alive(row) == row.status \in {"paid", "credit"}
InPlace(s, u, i) == /\ Alive(s[i]) /\ s[i].items
                    /\ \A d \in Workers : u[d].at = "stock" => i \notin u[d].sales \ u[d].todo
Standing(s, u) == {i \in Invoiced : InPlace(s, u, i)}

UndoApart == \A d, o \in Workers :
    d # o /\ v8[d].at # "idle" /\ v8[o].at # "idle" => v8[d].run # v8[o].run
UndoHolds == \A d \in Workers :
    /\ v8[d].at = "stock" => /\ v8[d].todo \subseteq v8[d].sales
                             /\ \A i \in v8[d].sales : v2[i].run = v8[d].run
                             /\ \A i \in v8[d].todo : v2[i].items
    /\ v8[d].at \in {"cash", "sales"} =>
          \A i \in v8[d].sales : v2[i].run = v8[d].run => ~v2[i].items

StockOk == ~v10 => /\ UndoApart /\ UndoHolds
                   /\ v3 = 0 - SumFunctionOnSet(TillSales, Standing(v2, v8))

InTill(i) == IF i \in TillCredit THEN 0 ELSE TillSales[i]
CashDue(s, u, i) ==
    IF Alive(s[i]) /\ \A d \in Workers : u[d].at = "sales" /\ i \in u[d].sales => s[i].run # u[d].run
    THEN InTill(i) ELSE 0
Settled(x, m, e) ==
    IF m.at \in {"listing", "paying"} /\ e \in m.todo
    THEN x[e].rows = 1 /\ x[e].drawer = 0
    ELSE /\ x[e].rows = x[e].drawer /\ x[e].rows <= 1
         /\ x[e].run = 0 => x[e].rows = 0

CashOk == \A i \in Invoiced : v4[i] = CashDue(v2, v8, i)
DiaryOk == \A e \in Noted : Settled(v5, v7, e)
DrawerOk == ~v11 => CashOk /\ DiaryOk

TillInv == TillType /\ RunsOk /\ UndoOk /\ StockOk /\ DrawerOk

-----------------------------------------------------------------------------
(***************************************************************************)
(* What leaves a part of the invariant alone.                              *)
(***************************************************************************)
LEMMA StockStays ==
    ASSUME StockOk, v2' = v2, v3' = v3, v8' = v8, ~v10' => ~v10
    PROVE  StockOk'
BY DEF StockOk, UndoApart, UndoHolds

LEMMA CashStays ==
    ASSUME CashOk, v2' = v2, v4' = v4, v8' = v8
    PROVE  CashOk'
BY DEF CashOk

LEMMA DiaryStays ==
    ASSUME DiaryOk, v5' = v5, v7.at \notin {"listing", "paying"}, v7'.at \notin {"listing", "paying"}
    PROVE  DiaryOk'
BY DEF DiaryOk, Settled

LEMMA DiaryStays2 == ASSUME DiaryOk, v5' = v5, v7' = v7 PROVE DiaryOk'
BY DEF DiaryOk

LEMMA StandingStays ==
    ASSUME NEW s, NEW t, NEW u, NEW w, \A i \in Invoiced : InPlace(t, w, i) <=> InPlace(s, u, i)
    PROVE  Standing(t, w) = Standing(s, u)
BY DEF Standing

LEMMA StandingFinite == \A s, u : /\ IsFiniteSet(Standing(s, u)) /\ Standing(s, u) \subseteq Invoiced
                                  /\ \A i \in Standing(s, u) : TillSales[i] \in Int
<1>1. \A s, u : Standing(s, u) \subseteq Invoiced
  BY DEF Standing
<1>2. IsFiniteSet(Invoiced) /\ \A i \in Invoiced : TillSales[i] \in Int
  BY ExchangeAssumption DEF Invoiced
<1> QED BY <1>1, <1>2, FS_Subset

\* One sale more or less.
LEMMA StandingJoins ==
    ASSUME NEW s, NEW t, NEW u, NEW w, NEW i \in Invoiced,
           ~InPlace(s, u, i), InPlace(t, w, i),
           \A j \in Invoiced \ {i} : InPlace(t, w, j) <=> InPlace(s, u, j)
    PROVE  /\ SumFunctionOnSet(TillSales, Standing(t, w)) =
                 SumFunctionOnSet(TillSales, Standing(s, u)) + TillSales[i]
           /\ SumFunctionOnSet(TillSales, Standing(s, u)) \in Int /\ TillSales[i] \in Int
<1>1. i \notin Standing(s, u) /\ Standing(t, w) = Standing(s, u) \cup {i}
  BY DEF Standing
<1>2. TillSales[i] \in Int
  BY ExchangeAssumption DEF Invoiced
<1>3. PICK S : S = Standing(s, u)
  OBVIOUS
<1>4. IsFiniteSet(S) /\ \A j \in S : TillSales[j] \in Int
  BY <1>3, StandingFinite
<1>5. SumFunctionOnSet(TillSales, S) \in Int
  BY <1>4, SumType
<1>6. SumFunctionOnSet(TillSales, S \cup {i}) = TillSales[i] + SumFunctionOnSet(TillSales, S)
  BY <1>1, <1>2, <1>3, <1>4, SumAdd
<1> QED BY <1>1, <1>2, <1>3, <1>5, <1>6

LEMMA StandingLeaves ==
    ASSUME NEW s, NEW t, NEW u, NEW w, NEW i \in Invoiced,
           InPlace(s, u, i), ~InPlace(t, w, i),
           \A j \in Invoiced \ {i} : InPlace(t, w, j) <=> InPlace(s, u, j)
    PROVE  /\ SumFunctionOnSet(TillSales, Standing(t, w)) =
                 SumFunctionOnSet(TillSales, Standing(s, u)) - TillSales[i]
           /\ SumFunctionOnSet(TillSales, Standing(t, w)) \in Int /\ TillSales[i] \in Int
<1>1. /\ SumFunctionOnSet(TillSales, Standing(s, u)) =
            SumFunctionOnSet(TillSales, Standing(t, w)) + TillSales[i]
      /\ SumFunctionOnSet(TillSales, Standing(t, w)) \in Int /\ TillSales[i] \in Int
  <2>1. \A j \in Invoiced \ {i} : InPlace(s, u, j) <=> InPlace(t, w, j)
    OBVIOUS
  <2> QED BY <2>1, StandingJoins
<1> QED BY <1>1

LEMMA RunMarked ==
    ASSUME NEW S, NEW q \in Seq(S), NEW n, NEW x \in S
    PROVE  [q EXCEPT ![n] = x] \in Seq(S) /\ Len([q EXCEPT ![n] = x]) = Len(q)
<1>1. PICK k \in Nat : k = Len(q)
  OBVIOUS
<1>2. PICK p : p = [q EXCEPT ![n] = x]
  OBVIOUS
<1>3. q \in [1 .. k -> S]
  BY <1>1
<1>4. p \in [1 .. k -> S]
  BY <1>2, <1>3
<1>5. p \in Seq(S) /\ Len(p) = k
  BY <1>1, <1>4
<1> QED BY <1>1, <1>2, <1>5

LEMMA SaleMoves ==
    ASSUME v2 \in [Invoiced -> SaleRow], NEW i \in Invoiced, NEW s \in SaleRow,
           v2' = [v2 EXCEPT ![i] = s]
    PROVE  /\ v2' \in [Invoiced -> SaleRow] /\ v2'[i] = s
           /\ \A j \in Invoiced \ {i} : v2'[j] = v2[j]
OBVIOUS

LEMMA UndoMoves ==
    ASSUME v8 \in [Workers -> UndoRow], NEW d \in Workers, NEW r \in UndoRow,
           v8' = [v8 EXCEPT ![d] = r]
    PROVE  /\ v8' \in [Workers -> UndoRow] /\ v8'[d] = r
           /\ \A o \in Workers \ {d} : v8'[o] = v8[o]
OBVIOUS

LEMMA DiaryMoves ==
    ASSUME v5 \in [Noted -> DiaryRow], NEW e \in Noted, NEW x \in DiaryRow,
           v5' = [v5 EXCEPT ![e] = x]
    PROVE  /\ v5' \in [Noted -> DiaryRow] /\ v5'[e] = x
           /\ \A f \in Noted \ {e} : v5'[f] = v5[f]
OBVIOUS

LEMMA QuietTyped == TillImport!quiet \in ImportRow /\ TillImport!quiet.at = "idle"
BY DEF TillImport!quiet, ImportRow

LEMMA RestingTyped == TillImport!resting \in UndoRow /\ TillImport!resting.at = "idle"
BY DEF TillImport!resting, UndoRow

LEMMA FreeIsIdle == TillImport!LoopFree => v7.at = "idle"
BY QuietTyped DEF TillImport!LoopFree

LEMMA TillSame == ASSUME TillInv, UNCHANGED allVars PROVE TillInv'
BY DEF TillInv, TillType, RunsOk, UndoOk, StockOk, UndoApart, UndoHolds, DrawerOk, CashOk, DiaryOk, allVars

-----------------------------------------------------------------------------
(***************************************************************************)
(* The old till, and importing.                                            *)
(***************************************************************************)
LEMMA TillStart == TillImport!Init => TillInv
<1> SUFFICES ASSUME TillImport!Init PROVE TillInv
  OBVIOUS
<1>1. PICK s : s = TillImport!NoSale
  OBVIOUS
<1>2. s \in SaleRow /\ s.status = "none" /\ s.run = 0
  BY <1>1 DEF TillImport!NoSale, SaleRow
<1>3. PICK x : x = TillImport!NoExpense
  OBVIOUS
<1>4. x \in DiaryRow /\ x.rows = 0 /\ x.drawer = 0 /\ x.run = 0
  BY <1>3 DEF TillImport!NoExpense, DiaryRow
<1>5. /\ v2 = [i \in Invoiced |-> s] /\ v3 = 0 /\ v4 = [i \in Invoiced |-> 0]
      /\ v5 = [e \in Noted |-> x] /\ v6 = <<>> /\ v7 = TillImport!quiet
      /\ v8 = [d \in Workers |-> TillImport!resting]
  BY <1>1, <1>3 DEF TillImport!Init, TillImport!Bills, TillImport!Entries, Invoiced, Noted
<1>6. v7.at = "idle" /\ \A d \in Workers : v8[d].at = "idle"
  BY <1>5, QuietTyped, RestingTyped
<1>7. TillType
  BY <1>2, <1>4, <1>5, QuietTyped, RestingTyped DEF TillType
<1>8. RunsOk /\ UndoOk
  BY <1>6 DEF RunsOk, UndoOk
<1>9. StockOk
  <2>1. Standing(v2, v8) = {}
    BY <1>2, <1>5 DEF Standing, InPlace, Alive
  <2>2. SumFunctionOnSet(TillSales, Standing(v2, v8)) = 0
    BY <2>1, SumEmpty
  <2>3. v3 = 0 - SumFunctionOnSet(TillSales, Standing(v2, v8))
    <3>1. v3 = 0
      BY <1>5
    <3> QED BY <2>2, <3>1
  <2> QED BY <1>6, <2>3 DEF StockOk, UndoApart, UndoHolds
<1>10. DrawerOk
  <2>1. CashOk
    BY <1>2, <1>5 DEF CashOk, CashDue, Alive
  <2>2. DiaryOk
    BY <1>4, <1>5, <1>6 DEF DiaryOk, Settled
  <2> QED BY <2>1, <2>2 DEF DrawerOk
<1> QED BY <1>7, <1>8, <1>9, <1>10 DEF TillInv

\* The till, a dry run and the end of an upload touch no book.
LEMMA TillQuiet ==
    ASSUME TillInv, UNCHANGED <<v2, v3, v4, v5, v8, v10, v11>>,
           v7.at \notin {"listing", "paying"}, v7' = v7 \/ v7' = TillImport!quiet,
           v6' \in Seq({"importing", "imported", "deleted"}), Len(v6') = Len(v6)
    PROVE  TillInv'
<1>1. v7' \in ImportRow /\ (v7' = v7 \/ v7'.at = "idle") /\ v7'.at \notin {"listing", "paying"}
  BY QuietTyped DEF TillInv, TillType
<1>2. TillType'
  BY <1>1 DEF TillInv, TillType
<1>3. RunsOk' /\ UndoOk'
  BY <1>1 DEF TillInv, RunsOk, UndoOk
<1>4. StockOk'
  BY StockStays DEF TillInv
<1>5. DrawerOk'
  BY <1>1, CashStays, DiaryStays DEF TillInv, DrawerOk
<1> QED BY <1>2, <1>3, <1>4, <1>5 DEF TillInv

LEMMA TillOutside ==
    ASSUME TillInv, TillImport!LoopFree, UNCHANGED <<v2, v3, v4, v5, v6, v7, v8, v10, v11>>
    PROVE  TillInv'
BY FreeIsIdle, TillQuiet DEF TillInv, TillType

LEMMA FinalizeKeeps == ASSUME TillInv, TillImport!Finalize PROVE TillInv'
<1>1. /\ v7.at = "sales" /\ v7' = TillImport!quiet /\ v6' = [v6 EXCEPT ![v7.run] = "imported"]
      /\ UNCHANGED <<v2, v3, v4, v5, v8, v10, v11>>
  BY DEF TillImport!Finalize, TillImport!money
<1>2. v6' \in Seq({"importing", "imported", "deleted"}) /\ Len(v6') = Len(v6)
  <2>1. v6 \in Seq({"importing", "imported", "deleted"})
    BY DEF TillInv, TillType
  <2>2. PICK S : S = {"importing", "imported", "deleted"}
    OBVIOUS
  <2>3. PICK q, n, x : q = v6 /\ n = v7.run /\ x = "imported"
    OBVIOUS
  <2>4. q \in Seq(S) /\ x \in S
    BY <2>1, <2>2, <2>3
  <2>5. [q EXCEPT ![n] = x] \in Seq(S) /\ Len([q EXCEPT ![n] = x]) = Len(q)
    BY <2>4, RunMarked
  <2>6. v6' = [q EXCEPT ![n] = x]
    BY <1>1, <2>3
  <2> QED BY <2>2, <2>3, <2>5, <2>6
<1> QED BY <1>1, <1>2, TillQuiet

LEMMA UploadKeepsTill == ASSUME TillInv, TillImport!Upload PROVE TillInv'
<1>1. PICK r, n : /\ n = Len(v6) + 1
                  /\ r = [run |-> n, at |-> "sales", entry |-> v1 \cap Noted,
                          todo |-> {i \in v1 \cap Invoiced : v2[i].run = 0 /\ v2[i].status = "none"}]
  OBVIOUS
<1>2. /\ v7.at = "idle" /\ v7' = r /\ v6' = Append(v6, "importing")
      /\ UNCHANGED <<v2, v3, v4, v5, v8, v10, v11>>
  BY <1>1, FreeIsIdle DEF TillImport!Upload, TillImport!money, TillImport!Exists, TillImport!Bills,
                          TillImport!Entries, Invoiced, Noted
<1>3. /\ TillType /\ v6 \in Seq({"importing", "imported", "deleted"}) /\ Len(v6) \in Nat
  BY DEF TillInv, TillType
<1>4. /\ r \in ImportRow /\ r.at = "sales" /\ r.run = n /\ n \in Nat
      /\ \A i \in r.todo : i \in Invoiced /\ v2[i].status = "none" /\ v2[i].run = 0
  BY <1>1, <1>3 DEF ImportRow
<1>5. v6' \in Seq({"importing", "imported", "deleted"}) /\ Len(v6') = n
  BY <1>1, <1>2, <1>3
<1>6. TillType'
  BY <1>2, <1>3, <1>4, <1>5 DEF TillType
<1>7. RunsOk'
  <2>1. \A d \in Workers : v8[d].at # "idle" => v8[d].run \in 1 .. Len(v6)
    BY DEF TillInv, RunsOk
  <2> QED BY <1>1, <1>2, <1>3, <1>4, <1>5, <2>1 DEF RunsOk
<1>8. UndoOk' /\ StockOk'
  BY <1>2, StockStays DEF TillInv, UndoOk
<1>9. DrawerOk'
  BY <1>2, <1>4, CashStays, DiaryStays DEF TillInv, DrawerOk
<1> QED BY <1>6, <1>7, <1>8, <1>9 DEF TillInv

LEMMA ImportSaleKeeps ==
    ASSUME TillInv, NEW i \in Invoiced, TillImport!ImportSale(i) PROVE TillInv'
<1>1. PICK s : s = [status |-> IF i \in TillCredit THEN "credit" ELSE "paid",
                    items |-> TRUE, run |-> v7.run, synced |-> FALSE]
  OBVIOUS
<1>2. PICK m : m = [v7 EXCEPT !.todo = @ \ {i}]
  OBVIOUS
<1>3. /\ v7.at = "sales" /\ i \in v7.todo /\ v2' = [v2 EXCEPT ![i] = s]
      /\ v3' = IF TillSales[i] > 0 THEN v3 - TillSales[i] ELSE v3
      /\ v4' = [v4 EXCEPT ![i] = InTill(i)] /\ v7' = m
      /\ ~v10' => ~v10 /\ ~(TillSales[i] < 0)
      /\ UNCHANGED <<v5, v6, v8, v11>>
  BY <1>1, <1>2 DEF TillImport!ImportSale, TillImport!Sold, TillImport!InDrawer, InTill
<1>4. /\ TillType /\ v2 \in [Invoiced -> SaleRow] /\ v3 \in Int /\ v4 \in [Invoiced -> Int]
      /\ v7 \in ImportRow /\ v7.run \in Nat /\ TillSales[i] \in Int
  BY ExchangeAssumption DEF TillInv, TillType, ImportRow, Invoiced
<1>5. s \in SaleRow /\ Alive(s) /\ s.items /\ s.run = v7.run /\ s.status # "none"
  BY <1>1, <1>4 DEF SaleRow, Alive
<1>6. m \in ImportRow /\ m.at = "sales" /\ m.run = v7.run /\ m.todo = v7.todo \ {i}
  BY <1>2, <1>3, <1>4 DEF ImportRow
<1>7. /\ v2' \in [Invoiced -> SaleRow] /\ v2'[i] = s
      /\ \A j \in Invoiced \ {i} : v2'[j] = v2[j]
  BY <1>3, <1>4, <1>5, SaleMoves
<1>8. InTill(i) \in Int /\ v4' \in [Invoiced -> Int]
  BY <1>3, <1>4 DEF InTill
<1>9. TillType'
  BY <1>3, <1>4, <1>6, <1>7, <1>8 DEF TillType
<1>10. /\ v2[i].status = "none" /\ v2[i].run = 0 /\ v7.run # 0
       /\ \A d \in Workers : v8[d].at # "idle" => v8[d].run # v7.run /\ v8[d].run # 0
  BY <1>3 DEF TillInv, RunsOk
<1>11. RunsOk'
  BY <1>3, <1>6, <1>7 DEF TillInv, RunsOk
<1>12. UndoOk'
  BY <1>3, <1>5, <1>7, <1>10 DEF TillInv, UndoOk
<1>13. StockOk'
  <2> SUFFICES ASSUME ~v10' PROVE StockOk'
    BY DEF StockOk
  <2>1. ~v10 /\ UndoApart /\ UndoHolds /\ v3 = 0 - SumFunctionOnSet(TillSales, Standing(v2, v8))
    BY <1>3 DEF TillInv, StockOk
  <2>2. UndoApart' /\ UndoHolds'
    BY <1>3, <1>5, <1>7, <1>10, <2>1 DEF UndoApart, UndoHolds
  <2>3. ~InPlace(v2, v8, i)
    BY <1>10 DEF InPlace, Alive
  <2>4. InPlace(v2', v8', i)
    BY <1>3, <1>5, <1>7, <1>10, <2>1 DEF InPlace, UndoHolds
  <2>5. \A j \in Invoiced \ {i} : InPlace(v2', v8', j) <=> InPlace(v2, v8, j)
    BY <1>3, <1>7 DEF InPlace
  <2>6. /\ SumFunctionOnSet(TillSales, Standing(v2', v8')) =
              SumFunctionOnSet(TillSales, Standing(v2, v8)) + TillSales[i]
        /\ SumFunctionOnSet(TillSales, Standing(v2, v8)) \in Int /\ TillSales[i] \in Int
    BY <2>3, <2>4, <2>5, StandingJoins
  <2>7. v3' = v3 - TillSales[i]
    BY <1>3, <1>4
  <2> QED BY <2>1, <2>2, <2>6, <2>7 DEF StockOk
<1>14. DrawerOk'
  <2> SUFFICES ASSUME ~v11' PROVE CashOk' /\ DiaryOk'
    BY DEF DrawerOk
  <2>1. CashOk /\ DiaryOk
    BY <1>3 DEF TillInv, DrawerOk
  <2>2. CashDue(v2', v8', i) = InTill(i)
    BY <1>3, <1>5, <1>7, <1>10 DEF CashDue
  <2>3. \A j \in Invoiced \ {i} : CashDue(v2', v8', j) = CashDue(v2, v8, j) /\ v4'[j] = v4[j]
    BY <1>3, <1>4, <1>7 DEF CashDue
  <2>4. v4'[i] = InTill(i)
    BY <1>3, <1>4
  <2>5. CashOk'
    BY <2>1, <2>2, <2>3, <2>4 DEF CashOk
  <2>6. DiaryOk'
    BY <1>3, <1>6, <2>1, DiaryStays
  <2> QED BY <2>5, <2>6
<1> QED BY <1>9, <1>11, <1>12, <1>13, <1>14 DEF TillInv

\* A step of the import of one entry: its row changes and the importer moves on.
LEMMA EntryKeeps ==
    ASSUME TillInv, NEW e \in Noted, NEW x \in DiaryRow, NEW m \in ImportRow,
           v5' = [v5 EXCEPT ![e] = x], v7' = m, UNCHANGED <<v2, v3, v4, v6, v8, v10, v11>>,
           m.run = v7.run, m.at # "idle", v7.at # "idle",
           m.at = "sales" => m.todo = {},
           m.at \in {"listing", "paying"} =>
                m.todo = {e} /\ x.run = IF m.at = "listing" THEN 0 ELSE m.run,
           x.run \in {0, m.run},
           v7.at \in {"listing", "paying"} => v7.todo = {e},
           ~v11 => Settled(v5', m, e)
    PROVE  TillInv'
<1>1. TillType /\ v5 \in [Noted -> DiaryRow]
  BY DEF TillInv, TillType
<1>2. /\ v5' \in [Noted -> DiaryRow] /\ v5'[e] = x
      /\ \A f \in Noted \ {e} : v5'[f] = v5[f]
  BY <1>1, DiaryMoves
<1>3. TillType'
  BY <1>1, <1>2 DEF TillType
<1>4. m.at \in {"idle", "sales", "listing", "paying"}
  BY DEF ImportRow
<1>5. RunsOk'
  BY <1>2, <1>4 DEF TillInv, RunsOk
<1>6. \A d \in Workers : v8[d].at # "idle" => x.run # v8[d].run
  BY DEF TillInv, RunsOk
<1>7. UndoOk'
  BY <1>2, <1>6 DEF TillInv, UndoOk
<1>8. StockOk'
  BY StockStays DEF TillInv
<1>9. ASSUME ~v11 PROVE DiaryOk'
  <2>1. DiaryOk
    BY <1>9 DEF TillInv, DrawerOk
  <2>2. ASSUME NEW f \in Noted, f # e PROVE Settled(v5', m, f)
    <3>1. Settled(v5, v7, f)
      BY <2>1 DEF DiaryOk
    <3>2. ~(v7.at \in {"listing", "paying"} /\ f \in v7.todo)
      BY <2>2
    <3>3. ~(m.at \in {"listing", "paying"} /\ f \in m.todo)
      BY <2>2
    <3> QED BY <1>2, <2>2, <3>1, <3>2, <3>3 DEF Settled
  <2> QED BY <1>9, <2>2 DEF DiaryOk
<1>10. DrawerOk'
  BY <1>9, CashStays DEF TillInv, DrawerOk
<1> QED BY <1>3, <1>5, <1>7, <1>8, <1>10 DEF TillInv

LEMMA ExpenseRowKeeps ==
    ASSUME TillInv, NEW e \in Noted, TillImport!ExpenseRow(e) PROVE TillInv'
<1>1. /\ v7.at = "sales" /\ v7.todo = {} /\ UNCHANGED <<v2, v3, v4, v6, v8, v10, v11>>
  BY DEF TillImport!ExpenseRow, TillImport!money
<1>2. /\ TillType /\ v7 \in ImportRow /\ v5 \in [Noted -> DiaryRow] /\ v5[e] \in DiaryRow
  BY DEF TillInv, TillType
<1>3. CASE v5[e].run = 0
  <2>1. PICK x : x = [v5[e] EXCEPT !.rows = @ + 1]
    OBVIOUS
  <2>2. PICK m : m = [v7 EXCEPT !.at = "listing", !.todo = {e}]
    OBVIOUS
  <2>3. v5' = [v5 EXCEPT ![e] = x] /\ v7' = m
    BY <1>3, <2>1, <2>2 DEF TillImport!ExpenseRow
  <2>4. x \in DiaryRow /\ x.run = 0 /\ x.drawer = v5[e].drawer /\ x.rows = v5[e].rows + 1
    BY <1>2, <1>3, <2>1 DEF DiaryRow
  <2>5. m \in ImportRow /\ m.at = "listing" /\ m.todo = {e} /\ m.run = v7.run
    BY <1>2, <2>2 DEF ImportRow
  <2>6. ASSUME ~v11 PROVE Settled(v5', m, e)
    <3>1. Settled(v5, v7, e)
      BY <2>6 DEF TillInv, DrawerOk, DiaryOk
    <3>2. v5[e].rows = 0 /\ v5[e].drawer = 0
      BY <1>1, <1>3, <3>1 DEF Settled
    <3>3. v5'[e] = x
      BY <1>2, <2>3
    <3> QED BY <2>4, <2>5, <3>2, <3>3 DEF Settled
  <2> QED BY <1>1, <2>3, <2>4, <2>5, <2>6, EntryKeeps
<1>4. CASE v5[e].run # 0
  <2>1. PICK m : m = [v7 EXCEPT !.entry = @ \ {e}]
    OBVIOUS
  <2>2. v7' = m /\ v5' = v5
    BY <1>4, <2>1 DEF TillImport!ExpenseRow
  <2>3. m \in ImportRow /\ m.at = "sales" /\ m.todo = {} /\ m.run = v7.run
    BY <1>1, <1>2, <2>1 DEF ImportRow
  <2>4. TillType'
    BY <1>1, <1>2, <2>2, <2>3 DEF TillType
  <2>5. RunsOk' /\ UndoOk'
    BY <1>1, <2>2, <2>3 DEF TillInv, RunsOk, UndoOk
  <2>6. StockOk'
    BY <1>1, StockStays DEF TillInv
  <2>7. DrawerOk'
    BY <1>1, <2>2, <2>3, CashStays, DiaryStays DEF TillInv, DrawerOk
  <2> QED BY <2>4, <2>5, <2>6, <2>7 DEF TillInv
<1> QED BY <1>3, <1>4

LEMMA ExpenseListedKeeps == ASSUME TillInv, TillImport!ExpenseListed PROVE TillInv'
<1>1. PICK e \in Noted : v7.todo = {e} /\ v7.at = "listing"
  BY DEF TillImport!ExpenseListed, TillInv, RunsOk
<1>2. PICK x : x = [v5[e] EXCEPT !.run = v7.run]
  OBVIOUS
<1>3. PICK m : m = [v7 EXCEPT !.at = "paying"]
  OBVIOUS
<1>4. v7' = m /\ v5' = [v5 EXCEPT ![e] = x] /\ UNCHANGED <<v2, v3, v4, v6, v8, v10, v11>>
  BY <1>1, <1>2, <1>3 DEF TillImport!ExpenseListed, TillImport!money
<1>5. /\ TillType /\ v7 \in ImportRow /\ v5 \in [Noted -> DiaryRow] /\ v5[e] \in DiaryRow
      /\ v7.run \in Nat
  BY DEF TillInv, TillType, ImportRow
<1>6. x \in DiaryRow /\ x.run = v7.run /\ x.drawer = v5[e].drawer /\ x.rows = v5[e].rows
  BY <1>2, <1>5 DEF DiaryRow
<1>7. m \in ImportRow /\ m.at = "paying" /\ m.todo = {e} /\ m.run = v7.run
  BY <1>1, <1>3, <1>5 DEF ImportRow
<1>8. ASSUME ~v11 PROVE Settled(v5', m, e)
  <2>1. Settled(v5, v7, e)
    BY <1>8 DEF TillInv, DrawerOk, DiaryOk
  <2>2. v5[e].rows = 1 /\ v5[e].drawer = 0
    BY <1>1, <2>1 DEF Settled
  <2>3. v5'[e] = x
    BY <1>4, <1>5
  <2> QED BY <1>6, <1>7, <2>2, <2>3 DEF Settled
<1> QED BY <1>1, <1>4, <1>6, <1>7, <1>8, EntryKeeps

LEMMA ExpensePaidKeeps == ASSUME TillInv, TillImport!ExpensePaid PROVE TillInv'
<1>1. PICK e \in Noted : v7.todo = {e} /\ v7.at = "paying" /\ v5[e].run = v7.run
  BY DEF TillImport!ExpensePaid, TillInv, RunsOk
<1>2. PICK x : x = [v5[e] EXCEPT !.drawer = @ + 1]
  OBVIOUS
<1>3. PICK m : m = [v7 EXCEPT !.at = "sales", !.entry = @ \ v7.todo, !.todo = {}]
  OBVIOUS
<1>4. v7' = m /\ v5' = [v5 EXCEPT ![e] = x] /\ UNCHANGED <<v2, v3, v4, v6, v8, v10, v11>>
  BY <1>1, <1>2, <1>3 DEF TillImport!ExpensePaid, TillImport!money
<1>5. /\ TillType /\ v7 \in ImportRow /\ v5 \in [Noted -> DiaryRow] /\ v5[e] \in DiaryRow
  BY DEF TillInv, TillType
<1>6. x \in DiaryRow /\ x.run = v7.run /\ x.drawer = v5[e].drawer + 1 /\ x.rows = v5[e].rows
  BY <1>1, <1>2, <1>5 DEF DiaryRow
<1>7. m \in ImportRow /\ m.at = "sales" /\ m.todo = {} /\ m.run = v7.run
  BY <1>3, <1>5 DEF ImportRow
<1>8. ASSUME ~v11 PROVE Settled(v5', m, e)
  <2>1. Settled(v5, v7, e)
    BY <1>8 DEF TillInv, DrawerOk, DiaryOk
  <2>2. v5[e].rows = 1 /\ v5[e].drawer = 0
    BY <1>1, <2>1 DEF Settled
  <2>3. v5'[e] = x
    BY <1>4, <1>5
  <2>4. v7.run # 0
    BY <1>1 DEF TillInv, RunsOk
  <2> QED BY <1>6, <1>7, <2>2, <2>3, <2>4 DEF Settled
<1> QED BY <1>1, <1>4, <1>6, <1>7, <1>8, EntryKeeps

-----------------------------------------------------------------------------
(***************************************************************************)
(* Undoing sales.                                                          *)
(***************************************************************************)
\* A sale that stands and that no deletion has in hand goes, and gives back what it moved.
LEMMA ReversedKeeps ==
    ASSUME TillInv, NEW i \in Invoiced, NEW s \in SaleRow, v2' = [v2 EXCEPT ![i] = s],
           TillImport!ReverseCore(i), Alive(v2[i]),
           s.status = "refunded", s.items = v2[i].items, s.run = v2[i].run,
           UNCHANGED <<v5, v6, v7, v8>>
    PROVE  TillInv'
<1>1. /\ v3' = IF TillSales[i] > 0 /\ v2[i].items THEN v3 + TillSales[i] ELSE v3
      /\ v4' = [v4 EXCEPT ![i] = IF TillSales[i] > 0 THEN @ - TillSales[i] ELSE @]
      /\ v11' = (v11 \/ TillImport!BeingDeleted(i) \/ i \in TillCredit \/ TillSales[i] < 0)
      /\ v10' = (v10 \/ TillImport!BeingDeleted(i) \/ TillSales[i] < 0)
  BY DEF TillImport!ReverseCore
<1>2. ~TillImport!BeingDeleted(i) => \A d \in Workers : v8[d].at # "idle" => i \notin v8[d].sales
  BY DEF TillImport!BeingDeleted
<1>3. /\ TillType /\ v2 \in [Invoiced -> SaleRow] /\ v3 \in Int /\ v4 \in [Invoiced -> Int]
      /\ TillSales[i] \in Int
  BY ExchangeAssumption DEF TillInv, TillType, Invoiced
<1>4. /\ v2' \in [Invoiced -> SaleRow] /\ v2'[i] = s
      /\ \A j \in Invoiced \ {i} : v2'[j] = v2[j]
  BY <1>3, SaleMoves
<1>5. v3' \in Int /\ v4' \in [Invoiced -> Int]
  BY <1>1, <1>3
<1>6. TillType'
  BY <1>3, <1>4, <1>5 DEF TillType
<1>7. v2[i].status # "none" /\ ~Alive(s)
  BY DEF Alive
<1>8. RunsOk'
  BY <1>4, <1>7 DEF TillInv, RunsOk
<1>9. UndoOk'
  BY <1>4, <1>7 DEF TillInv, UndoOk
<1>10. StockOk'
  <2> SUFFICES ASSUME ~v10' PROVE StockOk'
    BY DEF StockOk
  <2>1. /\ ~v10 /\ ~(TillSales[i] < 0)
        /\ \A d \in Workers : v8[d].at # "idle" => i \notin v8[d].sales
    BY <1>1, <1>2
  <2>2. UndoApart /\ UndoHolds /\ v3 = 0 - SumFunctionOnSet(TillSales, Standing(v2, v8))
    BY <2>1 DEF TillInv, StockOk
  <2>3. UndoApart' /\ UndoHolds'
    BY <1>4, <2>2 DEF UndoApart, UndoHolds
  <2>4. ~InPlace(v2', v8', i)
    BY <1>4, <1>7 DEF InPlace
  <2>5. \A j \in Invoiced \ {i} : InPlace(v2', v8', j) <=> InPlace(v2, v8, j)
    BY <1>4 DEF InPlace
  <2>6. CASE v2[i].items
    <3>1. InPlace(v2, v8, i)
      BY <2>1, <2>6 DEF InPlace
    <3>2. /\ SumFunctionOnSet(TillSales, Standing(v2', v8')) =
                SumFunctionOnSet(TillSales, Standing(v2, v8)) - TillSales[i]
          /\ SumFunctionOnSet(TillSales, Standing(v2', v8')) \in Int /\ TillSales[i] \in Int
      <4>1. PICK s0, s1, u0, u1 : s0 = v2 /\ s1 = v2' /\ u0 = v8 /\ u1 = v8'
        OBVIOUS
      <4>2. /\ InPlace(s0, u0, i) /\ ~InPlace(s1, u1, i)
            /\ \A j \in Invoiced \ {i} : InPlace(s1, u1, j) <=> InPlace(s0, u0, j)
        BY <2>4, <2>5, <3>1, <4>1
      <4>3. /\ SumFunctionOnSet(TillSales, Standing(s1, u1)) =
                  SumFunctionOnSet(TillSales, Standing(s0, u0)) - TillSales[i]
            /\ SumFunctionOnSet(TillSales, Standing(s1, u1)) \in Int /\ TillSales[i] \in Int
        BY <4>2, StandingLeaves
      <4> QED BY <4>1, <4>3
    <3>3. v3' = v3 + TillSales[i]
      BY <1>1, <1>3, <2>1, <2>6
    <3>4. SumFunctionOnSet(TillSales, Standing(v2, v8)) \in Int
      BY StandingFinite, SumType
    <3> QED BY <2>2, <2>3, <3>2, <3>3, <3>4 DEF StockOk
  <2>7. CASE ~v2[i].items
    <3>1. ~InPlace(v2, v8, i)
      BY <2>7 DEF InPlace
    <3>2. \A j \in Invoiced : InPlace(v2', v8', j) <=> InPlace(v2, v8, j)
      BY <2>4, <2>5, <3>1
    <3>4. Standing(v2', v8') = Standing(v2, v8)
      BY <3>2 DEF Standing
    <3>3. v3' = v3
      BY <1>1, <2>7
    <3> QED BY <2>2, <2>3, <3>3, <3>4 DEF StockOk
  <2> QED BY <2>6, <2>7
<1>11. DrawerOk'
  <2> SUFFICES ASSUME ~v11' PROVE CashOk' /\ DiaryOk'
    BY DEF DrawerOk
  <2>1. /\ ~v11 /\ ~(TillSales[i] < 0) /\ i \notin TillCredit
        /\ \A d \in Workers : v8[d].at # "idle" => i \notin v8[d].sales
    BY <1>1, <1>2
  <2>2. CashOk /\ DiaryOk
    BY <2>1 DEF TillInv, DrawerOk
  <2>3. v4[i] = TillSales[i]
    BY <2>1, <2>2 DEF CashOk, CashDue, InTill
  <2>4. v4'[i] = 0
    BY <1>1, <1>3, <2>1, <2>3
  <2>5. CashDue(v2', v8', i) = 0
    BY <1>4, <1>7 DEF CashDue
  <2>6. \A j \in Invoiced \ {i} : CashDue(v2', v8', j) = CashDue(v2, v8, j) /\ v4'[j] = v4[j]
    BY <1>1, <1>3, <1>4 DEF CashDue
  <2>7. CashOk'
    BY <2>2, <2>4, <2>5, <2>6 DEF CashOk
  <2> QED BY <2>2, <2>7, DiaryStays2
<1> QED BY <1>6, <1>8, <1>9, <1>10, <1>11 DEF TillInv

\* Only that the deletion was seen is noted.
LEMMA SyncedKeeps ==
    ASSUME TillInv, NEW i \in Invoiced, NEW s \in SaleRow, v2' = [v2 EXCEPT ![i] = s],
           s.status = v2[i].status, s.items = v2[i].items, s.run = v2[i].run,
           UNCHANGED <<v3, v4, v5, v6, v7, v8, v10, v11>>
    PROVE  TillInv'
<1>1. TillType /\ v2 \in [Invoiced -> SaleRow]
  BY DEF TillInv, TillType
<1>2. /\ v2' \in [Invoiced -> SaleRow]
      /\ \A j \in Invoiced : /\ v2'[j].status = v2[j].status /\ v2'[j].items = v2[j].items
                             /\ v2'[j].run = v2[j].run
  BY <1>1, SaleMoves
<1>3. TillType'
  BY <1>1, <1>2 DEF TillType
<1>4. RunsOk' /\ UndoOk'
  BY <1>2 DEF TillInv, RunsOk, UndoOk
<1>5. StockOk'
  <2>1. Standing(v2', v8') = Standing(v2, v8)
    BY <1>2 DEF Standing, InPlace, Alive
  <2> QED BY <1>2, <2>1 DEF TillInv, StockOk, UndoApart, UndoHolds
<1>6. DrawerOk'
  <2>1. \A j \in Invoiced : CashDue(v2', v8', j) = CashDue(v2, v8, j)
    BY <1>2 DEF CashDue, Alive
  <2> QED BY <2>1, DiaryStays2 DEF TillInv, DrawerOk, CashOk
<1> QED BY <1>3, <1>4, <1>5, <1>6 DEF TillInv

LEMMA RefundKeeps == ASSUME TillInv, NEW i \in Invoiced, TillImport!Refund(i) PROVE TillInv'
<1>1. PICK s : s = [v2[i] EXCEPT !.status = "refunded"]
  OBVIOUS
<1>2. /\ TillImport!ReverseCore(i) /\ Alive(v2[i]) /\ v2' = [v2 EXCEPT ![i] = s]
      /\ UNCHANGED <<v5, v6, v7, v8>>
  BY <1>1 DEF TillImport!Refund, TillImport!Live, Alive
<1>3. v2[i] \in SaleRow
  BY DEF TillInv, TillType
<1>4. s \in SaleRow /\ s.status = "refunded" /\ s.items = v2[i].items /\ s.run = v2[i].run
  BY <1>1, <1>3 DEF SaleRow
<1> QED BY <1>2, <1>4, ReversedKeeps

LEMMA ApplyDeletionKeeps ==
    ASSUME TillInv, NEW i \in Invoiced, TillImport!ApplyDeletion(i) PROVE TillInv'
<1>1. v2 \in [Invoiced -> SaleRow] /\ v2[i] \in SaleRow
  BY DEF TillInv, TillType
<1>2. CASE Alive(v2[i])
  <2>1. PICK s : s = [v2[i] EXCEPT !.status = "refunded", !.synced = TRUE]
    OBVIOUS
  <2>2. /\ TillImport!ReverseCore(i) /\ UNCHANGED <<v5, v6, v7, v8>>
        /\ v2' = [v2 EXCEPT ![i].status = "refunded", ![i].synced = TRUE]
    BY <1>2 DEF TillImport!ApplyDeletion, TillImport!Live, Alive
  <2>3. v2' = [v2 EXCEPT ![i] = s]
    BY <1>1, <2>1, <2>2
  <2>4. s \in SaleRow /\ s.status = "refunded" /\ s.items = v2[i].items /\ s.run = v2[i].run
    BY <1>1, <2>1 DEF SaleRow
  <2> QED BY <1>2, <2>2, <2>3, <2>4, ReversedKeeps
<1>3. CASE ~Alive(v2[i])
  <2>1. PICK b \in BOOLEAN : b = TillImport!Exists(i)
    BY DEF TillImport!Exists
  <2>2. PICK s : s = [v2[i] EXCEPT !.synced = b]
    OBVIOUS
  <2>3. v2' = [v2 EXCEPT ![i] = s] /\ UNCHANGED <<v3, v4, v5, v6, v7, v8, v10, v11>>
    BY <1>3, <2>1, <2>2 DEF TillImport!ApplyDeletion, TillImport!Live, Alive, TillImport!money
  <2>4. s \in SaleRow /\ s.status = v2[i].status /\ s.items = v2[i].items /\ s.run = v2[i].run
    BY <1>1, <2>2 DEF SaleRow
  <2> QED BY <2>3, <2>4, SyncedKeeps
<1> QED BY <1>2, <1>3

-----------------------------------------------------------------------------
(***************************************************************************)
(* Deleting a run, and crashes.                                            *)
(***************************************************************************)
LEMMA DeleteCollectKeeps ==
    ASSUME TillInv, NEW d \in Workers, NEW r \in DOMAIN v6, TillImport!DeleteCollect(d, r)
    PROVE  TillInv'
<1>1. PICK mine : mine = {i \in Invoiced : v2[i].run = r /\ v2[i].status # "none"}
  OBVIOUS
<1>2. PICK x : x = [at |-> "stock", run |-> r, sales |-> mine, todo |-> {i \in mine : v2[i].items},
                    entries |-> {e \in Noted : v5[e].run = r}]
  OBVIOUS
<1>3. /\ v7.at = "idle" /\ v8[d].at = "idle" /\ v8' = [v8 EXCEPT ![d] = x]
      /\ v10' = (v10 \/ \E o \in Workers : v8[o].run = r)
      /\ UNCHANGED <<v2, v3, v4, v5, v6, v7, v11>>
  <2>1. mine = {i \in TillImport!OfRun(r) : TillImport!Exists(i)}
    BY <1>1 DEF TillImport!OfRun, TillImport!Exists, TillImport!Bills, Invoiced
  <2> QED BY <1>2, <2>1, FreeIsIdle DEF TillImport!DeleteCollect, TillImport!At, TillImport!money,
                                         TillImport!Entries, Noted
<1>4. /\ TillType /\ v8 \in [Workers -> UndoRow] /\ r \in 1 .. Len(v6) /\ r \in Nat /\ r # 0
  BY DEF TillInv, TillType
<1>5. x \in UndoRow /\ x.at = "stock" /\ x.run = r /\ x.sales = mine
      /\ x.todo = {i \in mine : v2[i].items} /\ x.entries = {e \in Noted : v5[e].run = r}
  BY <1>1, <1>2, <1>4 DEF UndoRow
<1>6. /\ v8' \in [Workers -> UndoRow] /\ v8'[d] = x
      /\ \A o \in Workers \ {d} : v8'[o] = v8[o]
  BY <1>3, <1>4, <1>5, UndoMoves
<1>7. TillType'
  BY <1>3, <1>6 DEF TillInv, TillType
<1>8. RunsOk'
  BY <1>3, <1>4, <1>5, <1>6 DEF TillInv, RunsOk
<1>9. UndoOk'
  BY <1>1, <1>3, <1>5, <1>6 DEF TillInv, UndoOk
<1>10. StockOk'
  <2> SUFFICES ASSUME ~v10' PROVE StockOk'
    BY DEF StockOk
  <2>1. /\ UndoApart /\ UndoHolds /\ v3 = 0 - SumFunctionOnSet(TillSales, Standing(v2, v8))
        /\ \A o \in Workers : v8[o].run # r
    BY <1>3 DEF TillInv, StockOk
  <2>2. UndoApart'
    BY <1>3, <1>5, <1>6, <2>1 DEF UndoApart
  <2>3. UndoHolds'
    BY <1>1, <1>3, <1>5, <1>6, <2>1 DEF UndoHolds
  <2>4. \A i \in Invoiced : InPlace(v2', v8', i) <=> InPlace(v2, v8, i)
    BY <1>3, <1>5, <1>6 DEF InPlace
  <2>5. Standing(v2', v8') = Standing(v2, v8)
    BY <2>4 DEF Standing
  <2> QED BY <1>3, <2>1, <2>2, <2>3, <2>5 DEF StockOk
<1>11. DrawerOk'
  <2>1. \A i \in Invoiced : CashDue(v2', v8', i) = CashDue(v2, v8, i)
    BY <1>3, <1>5, <1>6 DEF CashDue
  <2> QED BY <1>3, <2>1, DiaryStays2 DEF TillInv, DrawerOk, CashOk
<1> QED BY <1>7, <1>8, <1>9, <1>10, <1>11 DEF TillInv

LEMMA DeleteStockKeeps ==
    ASSUME TillInv, NEW d \in Workers, NEW i \in Invoiced, TillImport!DeleteStock(d, i)
    PROVE  TillInv'
<1>1. PICK x : x = [v8[d] EXCEPT !.todo = @ \ {i}]
  OBVIOUS
<1>2. /\ v8[d].at = "stock" /\ i \in v8[d].todo /\ v8' = [v8 EXCEPT ![d] = x]
      /\ v3' = v3 + TillSales[i] /\ v10' = (v10 \/ ~Alive(v2[i]))
      /\ UNCHANGED <<v2, v4, v5, v6, v7, v11>>
  BY <1>1 DEF TillImport!DeleteStock, TillImport!At, TillImport!money, TillImport!Live, Alive
<1>3. /\ TillType /\ v8 \in [Workers -> UndoRow] /\ v8[d] \in UndoRow /\ v3 \in Int
      /\ TillSales[i] \in Int
  BY ExchangeAssumption DEF TillInv, TillType, Invoiced
<1>4. /\ x \in UndoRow /\ x.at = "stock" /\ x.run = v8[d].run /\ x.sales = v8[d].sales
      /\ x.todo = v8[d].todo \ {i} /\ x.entries = v8[d].entries
  BY <1>1, <1>2, <1>3 DEF UndoRow
<1>5. /\ v8' \in [Workers -> UndoRow] /\ v8'[d] = x
      /\ \A o \in Workers \ {d} : v8'[o] = v8[o]
  BY <1>2, <1>3, <1>4, UndoMoves
<1>6. TillType'
  BY <1>2, <1>3, <1>5 DEF TillType
<1>7. RunsOk'
  BY <1>2, <1>4, <1>5 DEF TillInv, RunsOk
<1>8. UndoOk'
  BY <1>2, <1>4, <1>5 DEF TillInv, UndoOk
<1>9. StockOk'
  <2> SUFFICES ASSUME ~v10' PROVE StockOk'
    BY DEF StockOk
  <2>1. /\ UndoApart /\ UndoHolds /\ v3 = 0 - SumFunctionOnSet(TillSales, Standing(v2, v8))
        /\ Alive(v2[i])
    BY <1>2 DEF TillInv, StockOk
  <2>2. UndoApart'
    BY <1>2, <1>4, <1>5, <2>1 DEF UndoApart
  <2>3. UndoHolds'
    BY <1>2, <1>4, <1>5, <2>1 DEF UndoHolds
  <2>4. v2[i].items /\ i \in v8[d].sales /\ v2[i].run = v8[d].run
    BY <1>2, <2>1 DEF UndoHolds
  <2>5. \A o \in Workers \ {d} : v8[o].at = "stock" => i \notin v8[o].sales
    BY <1>2, <2>1, <2>4 DEF UndoHolds, UndoApart
  <2>6. InPlace(v2, v8, i)
    BY <1>2, <2>1, <2>4, <2>5 DEF InPlace
  <2>7. ~InPlace(v2', v8', i)
    BY <1>2, <1>4, <1>5, <2>4 DEF InPlace
  <2>8. \A j \in Invoiced \ {i} : InPlace(v2', v8', j) <=> InPlace(v2, v8, j)
    BY <1>2, <1>4, <1>5 DEF InPlace
  <2>9. /\ SumFunctionOnSet(TillSales, Standing(v2', v8')) =
              SumFunctionOnSet(TillSales, Standing(v2, v8)) - TillSales[i]
        /\ SumFunctionOnSet(TillSales, Standing(v2', v8')) \in Int
    <3>1. PICK s0, s1, u0, u1 : s0 = v2 /\ s1 = v2' /\ u0 = v8 /\ u1 = v8'
      OBVIOUS
    <3>2. /\ InPlace(s0, u0, i) /\ ~InPlace(s1, u1, i)
          /\ \A j \in Invoiced \ {i} : InPlace(s1, u1, j) <=> InPlace(s0, u0, j)
      BY <2>6, <2>7, <2>8, <3>1
    <3>3. /\ SumFunctionOnSet(TillSales, Standing(s1, u1)) =
                SumFunctionOnSet(TillSales, Standing(s0, u0)) - TillSales[i]
          /\ SumFunctionOnSet(TillSales, Standing(s1, u1)) \in Int /\ TillSales[i] \in Int
      BY <3>2, StandingLeaves
    <3> QED BY <3>1, <3>3
  <2>10. SumFunctionOnSet(TillSales, Standing(v2, v8)) \in Int
    BY StandingFinite, SumType
  <2> QED BY <1>2, <1>3, <2>1, <2>2, <2>3, <2>9, <2>10 DEF StockOk
<1>10. DrawerOk'
  <2>1. \A j \in Invoiced : CashDue(v2', v8', j) = CashDue(v2, v8, j)
    BY <1>2, <1>4, <1>5 DEF CashDue
  <2> QED BY <1>2, <2>1, DiaryStays2 DEF TillInv, DrawerOk, CashOk
<1> QED BY <1>6, <1>7, <1>8, <1>9, <1>10 DEF TillInv

LEMMA DeleteItemsKeeps ==
    ASSUME TillInv, NEW d \in Workers, TillImport!DeleteItems(d) PROVE TillInv'
<1>1. PICK x : x = [v8[d] EXCEPT !.at = "cash"]
  OBVIOUS
<1>2. /\ v8[d].at = "stock" /\ v8[d].todo = {} /\ v8' = [v8 EXCEPT ![d] = x]
      /\ v2' = [i \in Invoiced |-> IF i \in v8[d].sales /\ v2[i].run = v8[d].run
                                   THEN [v2[i] EXCEPT !.items = FALSE] ELSE v2[i]]
      /\ UNCHANGED <<v3, v4, v5, v6, v7, v10, v11>>
  BY <1>1 DEF TillImport!DeleteItems, TillImport!At, TillImport!Goes, TillImport!money,
              TillImport!Doomed, TillImport!Bills, Invoiced
<1>3. /\ TillType /\ v8 \in [Workers -> UndoRow] /\ v8[d] \in UndoRow /\ v2 \in [Invoiced -> SaleRow]
  BY DEF TillInv, TillType
<1>4. /\ x \in UndoRow /\ x.at = "cash" /\ x.run = v8[d].run /\ x.sales = v8[d].sales
      /\ x.todo = {} /\ x.entries = v8[d].entries
  BY <1>1, <1>2, <1>3 DEF UndoRow
<1>5. /\ v8' \in [Workers -> UndoRow] /\ v8'[d] = x
      /\ \A o \in Workers \ {d} : v8'[o] = v8[o]
  BY <1>2, <1>3, <1>4, UndoMoves
<1>6. /\ v2' \in [Invoiced -> SaleRow]
      /\ \A i \in Invoiced :
            /\ v2'[i].status = v2[i].status /\ v2'[i].run = v2[i].run
            /\ v2'[i].items = (v2[i].items /\ ~(i \in v8[d].sales /\ v2[i].run = v8[d].run))
  <2>1. ASSUME NEW i \in Invoiced
        PROVE  /\ v2'[i] \in SaleRow
               /\ v2'[i].status = v2[i].status /\ v2'[i].run = v2[i].run
               /\ v2'[i].items = (v2[i].items /\ ~(i \in v8[d].sales /\ v2[i].run = v8[d].run))
    <3>1. v2[i] \in SaleRow
      BY <1>3
    <3>2. PICK s : s = [v2[i] EXCEPT !.items = FALSE]
      OBVIOUS
    <3>3. s \in SaleRow /\ s.status = v2[i].status /\ s.run = v2[i].run /\ s.items = FALSE
      BY <3>1, <3>2 DEF SaleRow
    <3>4. v2[i].items \in BOOLEAN
      BY <3>1 DEF SaleRow
    <3>5. v2'[i] = IF i \in v8[d].sales /\ v2[i].run = v8[d].run THEN s ELSE v2[i]
      BY <1>2, <3>2
    <3> QED BY <3>1, <3>3, <3>4, <3>5
  <2>2. v2' \in [Invoiced -> SaleRow]
    BY <1>2, <2>1
  <2> QED BY <2>1, <2>2
<1>7. TillType'
  BY <1>2, <1>3, <1>5, <1>6 DEF TillType
<1>8. RunsOk'
  BY <1>2, <1>4, <1>5, <1>6 DEF TillInv, RunsOk
<1>9. UndoOk'
  BY <1>2, <1>4, <1>5, <1>6 DEF TillInv, UndoOk
<1>10. StockOk'
  <2> SUFFICES ASSUME ~v10' PROVE StockOk'
    BY DEF StockOk
  <2>1. UndoApart /\ UndoHolds /\ v3 = 0 - SumFunctionOnSet(TillSales, Standing(v2, v8))
    BY <1>2 DEF TillInv, StockOk
  <2>2. UndoApart'
    BY <1>2, <1>4, <1>5, <2>1 DEF UndoApart
  <2>3. \A o \in Workers \ {d} : v8[o].at = "stock" =>
           \A i \in v8[o].sales : v2[i].run # v8[d].run
    BY <1>2, <2>1 DEF UndoApart, UndoHolds
  <2>4. \A o \in Workers : v8[o].sales \subseteq Invoiced /\ v8[o].todo \subseteq Invoiced
    BY <1>3 DEF UndoRow
  <2>5. UndoHolds'
    BY <1>2, <1>4, <1>5, <1>6, <2>1, <2>3, <2>4 DEF UndoHolds
  <2>6. \A i \in v8[d].sales : v2[i].run = v8[d].run
    BY <1>2, <2>1 DEF UndoHolds
  <2>7. \A i \in Invoiced : InPlace(v2', v8', i) <=> InPlace(v2, v8, i)
    BY <1>2, <1>4, <1>5, <1>6, <2>6 DEF InPlace, Alive
  <2>8. Standing(v2', v8') = Standing(v2, v8)
    BY <2>7 DEF Standing
  <2> QED BY <1>2, <2>1, <2>2, <2>5, <2>8 DEF StockOk
<1>11. DrawerOk'
  <2>1. \A i \in Invoiced : CashDue(v2', v8', i) = CashDue(v2, v8, i)
    BY <1>2, <1>4, <1>5, <1>6 DEF CashDue, Alive
  <2> QED BY <1>2, <2>1, DiaryStays2 DEF TillInv, DrawerOk, CashOk
<1> QED BY <1>7, <1>8, <1>9, <1>10, <1>11 DEF TillInv

LEMMA DeleteDrawerKeeps ==
    ASSUME TillInv, NEW d \in Workers, TillImport!DeleteCash(d) PROVE TillInv'
<1>1. PICK x : x = [v8[d] EXCEPT !.at = "sales"]
  OBVIOUS
<1>2. /\ v8[d].at = "cash" /\ v8' = [v8 EXCEPT ![d] = x]
      /\ v4' = [i \in Invoiced |-> IF i \in v8[d].sales /\ v2[i].run = v8[d].run THEN 0 ELSE v4[i]]
      /\ UNCHANGED <<v2, v3, v5, v6, v7, v10, v11>>
  BY <1>1 DEF TillImport!DeleteCash, TillImport!At, TillImport!Goes, TillImport!Doomed,
              TillImport!Bills, Invoiced
<1>3. /\ TillType /\ v8 \in [Workers -> UndoRow] /\ v8[d] \in UndoRow /\ v4 \in [Invoiced -> Int]
  BY DEF TillInv, TillType
<1>4. /\ x \in UndoRow /\ x.at = "sales" /\ x.run = v8[d].run /\ x.sales = v8[d].sales
      /\ x.todo = v8[d].todo /\ x.entries = v8[d].entries
  BY <1>1, <1>3 DEF UndoRow
<1>5. /\ v8' \in [Workers -> UndoRow] /\ v8'[d] = x
      /\ \A o \in Workers \ {d} : v8'[o] = v8[o]
  BY <1>2, <1>3, <1>4, UndoMoves
<1>6. v4' \in [Invoiced -> Int]
  BY <1>2, <1>3
<1>7. TillType'
  BY <1>2, <1>3, <1>5, <1>6 DEF TillType
<1>8. RunsOk'
  BY <1>2, <1>4, <1>5 DEF TillInv, RunsOk
<1>9. UndoOk'
  BY <1>2, <1>4, <1>5 DEF TillInv, UndoOk
<1>10. StockOk'
  <2> SUFFICES ASSUME ~v10' PROVE StockOk'
    BY DEF StockOk
  <2>1. UndoApart /\ UndoHolds /\ v3 = 0 - SumFunctionOnSet(TillSales, Standing(v2, v8))
    BY <1>2 DEF TillInv, StockOk
  <2>2. UndoApart' /\ UndoHolds'
    BY <1>2, <1>4, <1>5, <2>1 DEF UndoApart, UndoHolds
  <2>3. \A i \in Invoiced : InPlace(v2', v8', i) <=> InPlace(v2, v8, i)
    BY <1>2, <1>4, <1>5 DEF InPlace
  <2>4. Standing(v2', v8') = Standing(v2, v8)
    BY <2>3 DEF Standing
  <2> QED BY <1>2, <2>1, <2>2, <2>4 DEF StockOk
<1>11. DrawerOk'
  <2>1. ASSUME CashOk, NEW i \in Invoiced PROVE v4'[i] = CashDue(v2', v8', i)
    <3>1. v4[i] = CashDue(v2, v8, i)
      BY <2>1 DEF CashOk
    <3>2. CASE i \in v8[d].sales /\ v2[i].run = v8[d].run
      <4>1. v4'[i] = 0
        BY <1>2, <3>2
      <4>2. CashDue(v2', v8', i) = 0
        BY <1>2, <1>4, <1>5, <3>2 DEF CashDue
      <4> QED BY <4>1, <4>2
    <3>3. CASE ~(i \in v8[d].sales /\ v2[i].run = v8[d].run)
      <4>1. v4'[i] = v4[i]
        BY <1>2, <3>3
      <4>2. CashDue(v2', v8', i) = CashDue(v2, v8, i)
        BY <1>2, <1>4, <1>5, <3>3 DEF CashDue
      <4> QED BY <3>1, <4>1, <4>2
    <3> QED BY <3>2, <3>3
  <2> QED BY <1>2, <2>1, DiaryStays2 DEF TillInv, DrawerOk, CashOk
<1> QED BY <1>7, <1>8, <1>9, <1>10, <1>11 DEF TillInv

LEMMA DeleteSalesKeeps ==
    ASSUME TillInv, NEW d \in Workers, TillImport!DeleteSales(d) PROVE TillInv'
<1>1. PICK x : x = [v8[d] EXCEPT !.at = "entries"]
  OBVIOUS
<1>2. /\ v8[d].at = "sales" /\ v8' = [v8 EXCEPT ![d] = x]
      /\ v2' = [i \in Invoiced |-> IF i \in v8[d].sales /\ v2[i].run = v8[d].run
                                   THEN [v2[i] EXCEPT !.status = "none"] ELSE v2[i]]
      /\ UNCHANGED <<v3, v4, v5, v6, v7, v10, v11>>
  BY <1>1 DEF TillImport!DeleteSales, TillImport!At, TillImport!Goes, TillImport!money,
              TillImport!Doomed, TillImport!Bills, Invoiced
<1>3. /\ TillType /\ v8 \in [Workers -> UndoRow] /\ v8[d] \in UndoRow /\ v2 \in [Invoiced -> SaleRow]
  BY DEF TillInv, TillType
<1>4. /\ x \in UndoRow /\ x.at = "entries" /\ x.run = v8[d].run /\ x.sales = v8[d].sales
      /\ x.todo = v8[d].todo /\ x.entries = v8[d].entries
  BY <1>1, <1>3 DEF UndoRow
<1>5. /\ v8' \in [Workers -> UndoRow] /\ v8'[d] = x
      /\ \A o \in Workers \ {d} : v8'[o] = v8[o]
  BY <1>2, <1>3, <1>4, UndoMoves
<1>6. /\ v2' \in [Invoiced -> SaleRow]
      /\ \A i \in Invoiced :
            /\ v2'[i].items = v2[i].items /\ v2'[i].run = v2[i].run
            /\ v2'[i].status = IF i \in v8[d].sales /\ v2[i].run = v8[d].run THEN "none"
                               ELSE v2[i].status
  <2>1. ASSUME NEW i \in Invoiced
        PROVE  /\ v2'[i] \in SaleRow
               /\ v2'[i].items = v2[i].items /\ v2'[i].run = v2[i].run
               /\ v2'[i].status = IF i \in v8[d].sales /\ v2[i].run = v8[d].run THEN "none"
                                  ELSE v2[i].status
    <3>1. v2[i] \in SaleRow
      BY <1>3
    <3>2. PICK s : s = [v2[i] EXCEPT !.status = "none"]
      OBVIOUS
    <3>3. s \in SaleRow /\ s.items = v2[i].items /\ s.run = v2[i].run /\ s.status = "none"
      BY <3>1, <3>2 DEF SaleRow
    <3>4. v2'[i] = IF i \in v8[d].sales /\ v2[i].run = v8[d].run THEN s ELSE v2[i]
      BY <1>2, <3>2
    <3> QED BY <3>1, <3>3, <3>4
  <2>2. v2' \in [Invoiced -> SaleRow]
    BY <1>2, <2>1
  <2> QED BY <2>1, <2>2
<1>7. TillType'
  BY <1>2, <1>3, <1>5, <1>6 DEF TillType
<1>8. RunsOk'
  BY <1>2, <1>4, <1>5, <1>6 DEF TillInv, RunsOk
<1>9. UndoOk'
  BY <1>2, <1>4, <1>5, <1>6 DEF TillInv, UndoOk
<1>10. StockOk'
  <2> SUFFICES ASSUME ~v10' PROVE StockOk'
    BY DEF StockOk
  <2>1. UndoApart /\ UndoHolds /\ v3 = 0 - SumFunctionOnSet(TillSales, Standing(v2, v8))
    BY <1>2 DEF TillInv, StockOk
  <2>2. \A o \in Workers : v8[o].sales \subseteq Invoiced /\ v8[o].todo \subseteq Invoiced
    BY <1>3 DEF UndoRow
  <2>3. UndoApart' /\ UndoHolds'
    BY <1>2, <1>4, <1>5, <1>6, <2>1, <2>2 DEF UndoApart, UndoHolds
  <2>4. \A i \in v8[d].sales : v2[i].run = v8[d].run => ~v2[i].items
    BY <1>2, <2>1 DEF UndoHolds
  <2>5. \A i \in Invoiced : InPlace(v2', v8', i) <=> InPlace(v2, v8, i)
    BY <1>2, <1>4, <1>5, <1>6, <2>4 DEF InPlace, Alive
  <2>6. Standing(v2', v8') = Standing(v2, v8)
    BY <2>5 DEF Standing
  <2> QED BY <1>2, <2>1, <2>3, <2>6 DEF StockOk
<1>11. DrawerOk'
  <2>1. \A i \in Invoiced : CashDue(v2', v8', i) = CashDue(v2, v8, i)
    BY <1>2, <1>4, <1>5, <1>6 DEF CashDue, Alive
  <2> QED BY <1>2, <2>1, DiaryStays2 DEF TillInv, DrawerOk, CashOk
<1> QED BY <1>7, <1>8, <1>9, <1>10, <1>11 DEF TillInv

LEMMA ApartStays ==
    ASSUME UndoApart, NEW d \in Workers, v8[d].at # "idle", v8'[d].run = v8[d].run,
           \A o \in Workers \ {d} : v8'[o] = v8[o]
    PROVE  UndoApart'
BY DEF UndoApart

LEMMA DeleteEntryKeeps ==
    ASSUME TillInv, NEW d \in Workers, NEW e \in Noted, TillImport!DeleteEntry(d, e)
    PROVE  TillInv'
<1>1. PICK x : x = [v8[d] EXCEPT !.entries = @ \ {e}]
  OBVIOUS
<1>2. PICK L : L = {f \in Noted : TillDiary[f] = TillDiary[e]}
  OBVIOUS
<1>3. /\ v8[d].at = "entries" /\ e \in v8[d].entries /\ v8' = [v8 EXCEPT ![d] = x]
      /\ v5' = [f \in Noted |-> [v5[f] EXCEPT !.rows = IF f = e THEN 0 ELSE @,
                                              !.drawer = IF f \in L THEN 0 ELSE @]]
      /\ v11' = (v11 \/ v5[e].run # v8[d].run \/ \E f \in L \ {e} : v5[f].drawer > 0)
      /\ UNCHANGED <<v2, v3, v4, v6, v7, v10>>
  BY <1>1, <1>2 DEF TillImport!DeleteEntry, TillImport!At, TillImport!Lookalikes,
                    TillImport!Entries, Noted
<1>4. /\ TillType /\ v8 \in [Workers -> UndoRow] /\ v8[d] \in UndoRow /\ v5 \in [Noted -> DiaryRow]
  BY DEF TillInv, TillType
<1>5. /\ x \in UndoRow /\ x.at = "entries" /\ x.run = v8[d].run /\ x.sales = v8[d].sales
      /\ x.todo = v8[d].todo /\ x.entries = v8[d].entries \ {e}
  BY <1>1, <1>3, <1>4 DEF UndoRow
<1>6. /\ v8' \in [Workers -> UndoRow] /\ v8'[d] = x
      /\ \A o \in Workers \ {d} : v8'[o] = v8[o]
  BY <1>3, <1>4, <1>5, UndoMoves
<1>7. /\ v5' \in [Noted -> DiaryRow]
      /\ \A f \in Noted : /\ v5'[f].run = v5[f].run
                          /\ v5'[f].rows = IF f = e THEN 0 ELSE v5[f].rows
                          /\ v5'[f].drawer = IF f \in L THEN 0 ELSE v5[f].drawer
  <2>1. ASSUME NEW f \in Noted
        PROVE  /\ v5'[f] \in DiaryRow /\ v5'[f].run = v5[f].run
               /\ v5'[f].rows = IF f = e THEN 0 ELSE v5[f].rows
               /\ v5'[f].drawer = IF f \in L THEN 0 ELSE v5[f].drawer
    <3>1. v5[f] \in DiaryRow
      BY <1>4
    <3>2. PICK y : y = [v5[f] EXCEPT !.rows = IF f = e THEN 0 ELSE @,
                                     !.drawer = IF f \in L THEN 0 ELSE @]
      OBVIOUS
    <3>3. /\ y \in DiaryRow /\ y.run = v5[f].run
          /\ y.rows = IF f = e THEN 0 ELSE v5[f].rows
          /\ y.drawer = IF f \in L THEN 0 ELSE v5[f].drawer
      BY <3>1, <3>2 DEF DiaryRow
    <3>4. v5'[f] = y
      BY <1>3, <3>2
    <3> QED BY <3>3, <3>4
  <2>2. v5' \in [Noted -> DiaryRow]
    BY <1>3, <2>1
  <2> QED BY <2>1, <2>2
<1>8. e \in L
  BY <1>2
<1>9. TillType'
  BY <1>3, <1>4, <1>6, <1>7 DEF TillType
<1>10. RunsOk'
  BY <1>3, <1>5, <1>6, <1>7 DEF TillInv, RunsOk
<1>11. UndoOk'
  <2>1. ASSUME NEW o \in Workers, v8'[o].at # "idle"
        PROVE  /\ v8[o].at # "idle" /\ v8'[o].run = v8[o].run /\ v8'[o].at = v8[o].at
               /\ v8'[o].sales = v8[o].sales
               /\ v8'[o].entries = v8[o].entries \/ v8'[o].entries = v8[o].entries \ {e}
    BY <1>3, <1>5, <1>6, <2>1
  <2>2. ASSUME NEW o \in Workers, v8'[o].at # "idle", NEW i \in Invoiced,
               v2'[i].run = v8'[o].run, v2'[i].status # "none"
        PROVE  i \in v8'[o].sales /\ v8'[o].at \notin {"entries", "mark"}
    BY <1>3, <2>1, <2>2 DEF TillInv, UndoOk
  <2>3. ASSUME NEW o \in Workers, v8'[o].at # "idle", NEW f \in Noted, v5'[f].run = v8'[o].run
        PROVE  f \in v8'[o].entries \/ (v5'[f].rows = 0 /\ v5'[f].drawer = 0)
    <3>1. f \in v8[o].entries \/ (v5[f].rows = 0 /\ v5[f].drawer = 0)
      BY <1>7, <2>1, <2>3 DEF TillInv, UndoOk
    <3>2. CASE f = e
      BY <1>7, <1>8, <3>2
    <3>3. CASE f # e
      BY <1>7, <2>1, <2>3, <3>1, <3>3
    <3> QED BY <3>2, <3>3
  <2> QED BY <2>2, <2>3 DEF UndoOk
<1>12. StockOk'
  <2> SUFFICES ASSUME ~v10' PROVE StockOk'
    BY DEF StockOk
  <2>1. UndoApart /\ UndoHolds /\ v3 = 0 - SumFunctionOnSet(TillSales, Standing(v2, v8))
    BY <1>3 DEF TillInv, StockOk
  <2>2. UndoApart'
    BY <1>3, <1>5, <1>6, <2>1, ApartStays
  <2>5. UndoHolds'
    BY <1>3, <1>5, <1>6, <2>1 DEF UndoHolds
  <2>3. \A i \in Invoiced : InPlace(v2', v8', i) <=> InPlace(v2, v8, i)
    BY <1>3, <1>5, <1>6 DEF InPlace
  <2>4. Standing(v2', v8') = Standing(v2, v8)
    BY <2>3 DEF Standing
  <2> QED BY <1>3, <2>1, <2>2, <2>4, <2>5 DEF StockOk
<1>13. DrawerOk'
  <2> SUFFICES ASSUME ~v11' PROVE CashOk' /\ DiaryOk'
    BY DEF DrawerOk
  <2>1. ~v11 /\ v5[e].run = v8[d].run /\ \A f \in L \ {e} : ~(v5[f].drawer > 0)
    BY <1>3
  <2>2. CashOk /\ DiaryOk
    BY <2>1 DEF TillInv, DrawerOk
  <2>3. \A i \in Invoiced : CashDue(v2', v8', i) = CashDue(v2, v8, i)
    BY <1>3, <1>5, <1>6 DEF CashDue
  <2>4. ~(v7.at \in {"listing", "paying"} /\ e \in v7.todo)
    <3>1. v8[d].run # 0 /\ (v7.at # "idle" => v8[d].run # v7.run)
      <4>1. v8[d].at # "idle"
        BY <1>3
      <4>2. \A o \in Workers : v8[o].at # "idle" => v8[o].run # 0
        BY DEF TillInv, RunsOk
      <4>3. v7.at # "idle" => v8[d].run # v7.run
        BY <4>1 DEF TillInv, RunsOk
      <4> QED BY <4>1, <4>2, <4>3
    <3>2. ASSUME v7.at \in {"listing", "paying"}, e \in v7.todo PROVE FALSE
      <4>1. v5[e].run = IF v7.at = "listing" THEN 0 ELSE v7.run
        BY <3>2 DEF TillInv, RunsOk
      <4> QED BY <2>1, <3>1, <3>2, <4>1
    <3> QED BY <3>2
  <2>5. \A f \in L \ {e} : v5[f].drawer = 0
    BY <1>2, <1>4, <2>1 DEF DiaryRow
  <2>6. ASSUME NEW f \in Noted PROVE Settled(v5', v7, f)
    <3>1. CASE f = e
      BY <1>7, <1>8, <2>4, <3>1 DEF Settled
    <3>2. CASE f # e
      <4>1. v5'[f].run = v5[f].run /\ v5'[f].rows = v5[f].rows /\ v5'[f].drawer = v5[f].drawer
        BY <1>7, <2>5, <3>2
      <4>2. Settled(v5, v7, f)
        BY <2>2 DEF DiaryOk
      <4> QED BY <4>1, <4>2 DEF Settled
    <3> QED BY <3>1, <3>2
  <2> QED BY <1>3, <2>2, <2>3, <2>6 DEF CashOk, DiaryOk
<1> QED BY <1>9, <1>10, <1>11, <1>12, <1>13 DEF TillInv

LEMMA DeleteListsKeeps ==
    ASSUME TillInv, NEW d \in Workers, TillImport!DeleteLists(d) PROVE TillInv'
<1>1. PICK x : x = [v8[d] EXCEPT !.at = "mark"]
  OBVIOUS
<1>freed. PICK sales, entries :
             /\ sales = [i \in Invoiced |-> IF v2[i].run = v8[d].run
                                     THEN [v2[i] EXCEPT !.run = 0, !.synced = FALSE] ELSE v2[i]]
             /\ entries = [e \in Noted |-> IF v5[e].run = v8[d].run
                                   THEN [v5[e] EXCEPT !.run = 0] ELSE v5[e]]
  OBVIOUS
<1>2. /\ v8[d].at = "entries" /\ v8[d].entries = {} /\ v8' = [v8 EXCEPT ![d] = x]
      /\ v2' = sales /\ v5' = entries
      /\ UNCHANGED <<v3, v4, v6, v7, v10, v11>>
  BY <1>1, <1>freed DEF TillImport!DeleteLists, TillImport!At, TillImport!Goes, TillImport!money,
              TillImport!Bills, TillImport!Entries, Invoiced, Noted
<1>3. /\ TillType /\ v8 \in [Workers -> UndoRow] /\ v8[d] \in UndoRow /\ v2 \in [Invoiced -> SaleRow]
      /\ v5 \in [Noted -> DiaryRow]
  BY DEF TillInv, TillType
<1>4. /\ x \in UndoRow /\ x.at = "mark" /\ x.run = v8[d].run /\ x.sales = v8[d].sales
      /\ x.todo = v8[d].todo /\ x.entries = v8[d].entries
  BY <1>1, <1>3 DEF UndoRow
<1>5. /\ v8' \in [Workers -> UndoRow] /\ v8'[d] = x
      /\ \A o \in Workers \ {d} : v8'[o] = v8[o]
  BY <1>2, <1>3, <1>4, UndoMoves
<1>6. /\ v2' \in [Invoiced -> SaleRow]
      /\ \A i \in Invoiced :
            /\ v2'[i].status = v2[i].status /\ v2'[i].items = v2[i].items
            /\ v2'[i].run = IF v2[i].run = v8[d].run THEN 0 ELSE v2[i].run
  <2>1. ASSUME NEW i \in Invoiced
        PROVE  /\ v2'[i] \in SaleRow /\ v2'[i].status = v2[i].status
               /\ v2'[i].items = v2[i].items
               /\ v2'[i].run = IF v2[i].run = v8[d].run THEN 0 ELSE v2[i].run
    <3>1. v2[i] \in SaleRow
      BY <1>3
    <3>2. PICK s : s = [v2[i] EXCEPT !.run = 0, !.synced = FALSE]
      OBVIOUS
    <3>3. s \in SaleRow /\ s.status = v2[i].status /\ s.items = v2[i].items /\ s.run = 0
      BY <3>1, <3>2 DEF SaleRow
    <3>4. v2'[i] = IF v2[i].run = v8[d].run THEN s ELSE v2[i]
      BY <1>freed, <1>2, <3>2
    <3> QED BY <3>1, <3>3, <3>4
  <2>2. v2' \in [Invoiced -> SaleRow]
    <3>1. v2' = [i \in Invoiced |-> v2'[i]]
      BY <1>freed, <1>2
    <3> QED BY <2>1, <3>1
  <2> QED BY <2>1, <2>2
<1>7. /\ v5' \in [Noted -> DiaryRow]
      /\ \A e \in Noted :
            /\ v5'[e].rows = v5[e].rows /\ v5'[e].drawer = v5[e].drawer
            /\ v5'[e].run = IF v5[e].run = v8[d].run THEN 0 ELSE v5[e].run
  <2>1. ASSUME NEW e \in Noted
        PROVE  /\ v5'[e] \in DiaryRow /\ v5'[e].rows = v5[e].rows
               /\ v5'[e].drawer = v5[e].drawer
               /\ v5'[e].run = IF v5[e].run = v8[d].run THEN 0 ELSE v5[e].run
    <3>1. v5[e] \in DiaryRow
      BY <1>3
    <3>2. PICK y : y = [v5[e] EXCEPT !.run = 0]
      OBVIOUS
    <3>3. y \in DiaryRow /\ y.rows = v5[e].rows /\ y.drawer = v5[e].drawer /\ y.run = 0
      BY <3>1, <3>2 DEF DiaryRow
    <3>4. v5'[e] = IF v5[e].run = v8[d].run THEN y ELSE v5[e]
      BY <1>freed, <1>2, <3>2
    <3> QED BY <3>1, <3>3, <3>4
  <2>2. v5' \in [Noted -> DiaryRow]
    <3>1. v5' = [e \in Noted |-> v5'[e]]
      BY <1>freed, <1>2
    <3> QED BY <2>1, <3>1
  <2> QED BY <2>1, <2>2
<1>8. /\ \A o \in Workers : v8[o].at # "idle" => v8[o].run # 0
      /\ \A i \in Invoiced : v2[i].run = v8[d].run => v2[i].status = "none"
      /\ \A e \in Noted : v5[e].run = v8[d].run => v5[e].rows = 0 /\ v5[e].drawer = 0
      /\ v7.at # "idle" => v7.run # v8[d].run
  <2>1. \A o \in Workers : v8[o].at # "idle" => v8[o].run # 0
    BY DEF TillInv, RunsOk
  <2>2. /\ \A i \in Invoiced : v2[i].run = v8[d].run => v2[i].status = "none"
        /\ \A e \in Noted : v5[e].run = v8[d].run => v5[e].rows = 0 /\ v5[e].drawer = 0
    BY <1>2 DEF TillInv, UndoOk
  <2>3. v7.at # "idle" => v7.run # v8[d].run
    BY <1>2 DEF TillInv, RunsOk
  <2> QED BY <2>1, <2>2, <2>3
<1>9. TillType'
  BY <1>2, <1>3, <1>5, <1>6, <1>7 DEF TillType
<1>10. RunsOk'
  <2>1. v7'.at # "idle" => v7'.run = Len(v6') /\ v7'.run # 0
    BY <1>2 DEF TillInv, RunsOk
  <2>2. \A o \in Workers : v8'[o].at # "idle" => /\ v8'[o].run \in 1 .. Len(v6')
                                                 /\ v7'.at # "idle" => v8'[o].run # v7'.run
    BY <1>2, <1>4, <1>5 DEF TillInv, RunsOk
  <2>3. v7'.at = "sales" =>
           \A i \in v7'.todo : i \in Invoiced /\ v2'[i].status = "none" /\ v2'[i].run = 0
    <3>1. v7.at = "sales" =>
             \A i \in v7.todo : i \in Invoiced /\ v2[i].status = "none" /\ v2[i].run = 0
      BY DEF TillInv, RunsOk
    <3> QED BY <1>2, <1>6, <3>1
  <2>4. v7'.at \in {"listing", "paying"} =>
           \E e \in Noted : /\ v7'.todo = {e}
                            /\ v5'[e].run = IF v7'.at = "listing" THEN 0 ELSE v7'.run
    BY <1>2, <1>7, <1>8 DEF TillInv, RunsOk
  <2> QED BY <2>1, <2>2, <2>3, <2>4 DEF RunsOk
<1>11. UndoOk'
  <2>1. ASSUME NEW o \in Workers, v8'[o].at # "idle"
        PROVE  /\ v8[o].at # "idle" /\ v8'[o].run = v8[o].run /\ v8'[o].run # 0
               /\ v8'[o].sales = v8[o].sales /\ v8'[o].entries = v8[o].entries
               /\ v8'[o] = v8[o] \/ v8'[o].run = v8[d].run
    BY <1>2, <1>4, <1>5, <1>8, <2>1
  <2>2. ASSUME NEW o \in Workers, v8'[o].at # "idle", NEW i \in Invoiced,
               v2'[i].run = v8'[o].run, v2'[i].status # "none"
        PROVE  i \in v8'[o].sales /\ v8'[o].at \notin {"entries", "mark"}
    <3>1. v2[i].run = v8[o].run /\ v2[i].status # "none" /\ v2[i].run # v8[d].run
      BY <1>6, <2>1, <2>2
    <3> QED BY <2>1, <2>2, <3>1 DEF TillInv, UndoOk
  <2>3. ASSUME NEW o \in Workers, v8'[o].at # "idle", NEW e \in Noted, v5'[e].run = v8'[o].run
        PROVE  e \in v8'[o].entries \/ (v5'[e].rows = 0 /\ v5'[e].drawer = 0)
    <3>1. v5[e].run = v8[o].run /\ v5'[e].rows = v5[e].rows /\ v5'[e].drawer = v5[e].drawer
      BY <1>7, <2>1, <2>3
    <3> QED BY <2>1, <2>3, <3>1 DEF TillInv, UndoOk
  <2> QED BY <2>2, <2>3 DEF UndoOk
<1>12. StockOk'
  <2> SUFFICES ASSUME ~v10' PROVE StockOk'
    BY DEF StockOk
  <2>1. UndoApart /\ UndoHolds /\ v3 = 0 - SumFunctionOnSet(TillSales, Standing(v2, v8))
    BY <1>2 DEF TillInv, StockOk
  <2>2. UndoApart'
    BY <1>2, <1>4, <1>5, <2>1, ApartStays
  <2>3. \A o \in Workers : v8[o].sales \subseteq Invoiced /\ v8[o].todo \subseteq Invoiced
    BY <1>3 DEF UndoRow
  <2>4. \A o \in Workers \ {d} : v8[o].at # "idle" => v8[o].run # v8[d].run
    BY <1>2, <2>1 DEF UndoApart
  <2>5. UndoHolds'
    <3>1. \A o \in Workers : v8'[o].at \in {"stock", "cash", "sales"} =>
             o # d /\ v8'[o] = v8[o] /\ v8[o].run # v8[d].run /\ v8[o].run # 0
      BY <1>2, <1>4, <1>5, <1>8, <2>4
    <3>2. ASSUME NEW o \in Workers, v8'[o].at = "stock"
          PROVE  /\ v8'[o].todo \subseteq v8'[o].sales
                 /\ \A i \in v8'[o].sales : v2'[i].run = v8'[o].run
                 /\ \A i \in v8'[o].todo : v2'[i].items
      BY <1>6, <2>1, <2>3, <3>1, <3>2 DEF UndoHolds
    <3>3. ASSUME NEW o \in Workers, v8'[o].at \in {"cash", "sales"}
          PROVE  \A i \in v8'[o].sales : v2'[i].run = v8'[o].run => ~v2'[i].items
      BY <1>6, <2>1, <2>3, <3>1, <3>3 DEF UndoHolds
    <3> QED BY <3>2, <3>3 DEF UndoHolds
  <2>6. \A i \in Invoiced : InPlace(v2', v8', i) <=> InPlace(v2, v8, i)
    BY <1>2, <1>4, <1>5, <1>6 DEF InPlace, Alive
  <2>7. Standing(v2', v8') = Standing(v2, v8)
    BY <2>6 DEF Standing
  <2>8. v3' = 0 - SumFunctionOnSet(TillSales, Standing(v2', v8'))
    BY <1>2, <2>1, <2>7
  <2> QED BY <2>2, <2>5, <2>8 DEF StockOk
<1>13. DrawerOk'
  <2> SUFFICES ASSUME ~v11' PROVE CashOk' /\ DiaryOk'
    BY DEF DrawerOk
  <2>1. CashOk /\ DiaryOk
    BY <1>2 DEF TillInv, DrawerOk
  <2>2. ASSUME NEW i \in Invoiced PROVE CashDue(v2', v8', i) = CashDue(v2, v8, i)
    <3>1. CASE ~Alive(v2[i])
      BY <1>6, <3>1 DEF CashDue, Alive
    <3>2. CASE Alive(v2[i])
      <4>1. v2'[i].run = v2[i].run /\ Alive(v2'[i])
        BY <1>6, <1>8, <3>2 DEF Alive
      <4> QED BY <1>2, <1>4, <1>5, <3>2, <4>1 DEF CashDue
    <3> QED BY <3>1, <3>2
  <2>3. ASSUME NEW e \in Noted PROVE Settled(v5', v7, e)
    <3>1. Settled(v5, v7, e)
      BY <2>1 DEF DiaryOk
    <3> QED BY <1>7, <1>8, <3>1 DEF Settled
  <2> QED BY <1>2, <2>1, <2>2, <2>3 DEF CashOk, DiaryOk
<1> QED BY <1>9, <1>10, <1>11, <1>12, <1>13 DEF TillInv

LEMMA DeleteMarkKeeps ==
    ASSUME TillInv, NEW d \in Workers, TillImport!DeleteMark(d) PROVE TillInv'
<1>1. PICK x : x = TillImport!resting
  OBVIOUS
<1>2. /\ v8[d].at = "mark" /\ v8' = [v8 EXCEPT ![d] = x]
      /\ v6' = [v6 EXCEPT ![v8[d].run] = "deleted"]
      /\ UNCHANGED <<v2, v3, v4, v5, v7, v10, v11>>
  BY <1>1 DEF TillImport!DeleteMark, TillImport!At, TillImport!money
<1>3. TillType /\ v8 \in [Workers -> UndoRow]
  BY DEF TillInv, TillType
<1>4. x \in UndoRow /\ x.at = "idle"
  BY <1>1, RestingTyped
<1>5. /\ v8' \in [Workers -> UndoRow] /\ v8'[d] = x
      /\ \A o \in Workers \ {d} : v8'[o] = v8[o]
  BY <1>2, <1>3, <1>4, UndoMoves
<1>6. v6' \in Seq({"importing", "imported", "deleted"}) /\ Len(v6') = Len(v6)
  <2>1. v6 \in Seq({"importing", "imported", "deleted"})
    BY DEF TillInv, TillType
  <2>2. PICK S : S = {"importing", "imported", "deleted"}
    OBVIOUS
  <2>3. PICK q, n, y : q = v6 /\ n = v8[d].run /\ y = "deleted"
    OBVIOUS
  <2>4. q \in Seq(S) /\ y \in S
    BY <2>1, <2>2, <2>3
  <2>5. [q EXCEPT ![n] = y] \in Seq(S) /\ Len([q EXCEPT ![n] = y]) = Len(q)
    BY <2>4, RunMarked
  <2>6. v6' = [q EXCEPT ![n] = y]
    BY <1>2, <2>3
  <2> QED BY <2>2, <2>3, <2>5, <2>6
<1>7. TillType'
  BY <1>2, <1>3, <1>5, <1>6 DEF TillType
<1>8. RunsOk'
  BY <1>2, <1>4, <1>5, <1>6 DEF TillInv, RunsOk
<1>9. UndoOk'
  BY <1>2, <1>4, <1>5 DEF TillInv, UndoOk
<1>10. StockOk'
  <2> SUFFICES ASSUME ~v10' PROVE StockOk'
    BY DEF StockOk
  <2>1. UndoApart /\ UndoHolds /\ v3 = 0 - SumFunctionOnSet(TillSales, Standing(v2, v8))
    BY <1>2 DEF TillInv, StockOk
  <2>2. UndoApart' /\ UndoHolds'
    BY <1>2, <1>4, <1>5, <2>1 DEF UndoApart, UndoHolds
  <2>3. \A i \in Invoiced : InPlace(v2', v8', i) <=> InPlace(v2, v8, i)
    BY <1>2, <1>4, <1>5 DEF InPlace
  <2>4. Standing(v2', v8') = Standing(v2, v8)
    BY <2>3 DEF Standing
  <2> QED BY <1>2, <2>1, <2>2, <2>4 DEF StockOk
<1>11. DrawerOk'
  <2>1. \A i \in Invoiced : CashDue(v2', v8', i) = CashDue(v2, v8, i)
    BY <1>2, <1>4, <1>5 DEF CashDue
  <2> QED BY <1>2, <2>1, DiaryStays2 DEF TillInv, DrawerOk, CashOk
<1> QED BY <1>7, <1>8, <1>9, <1>10, <1>11 DEF TillInv

-----------------------------------------------------------------------------
\* The library's sum, here and in the instance.
LEMMA TillSums == \A f, S : TillImport!SumFunctionOnSet(f, S) = SumFunctionOnSet(f, S)
BY Zenon DEF TillImport!SumFunctionOnSet, SumFunctionOnSet, TillImport!FoldFunctionOnSet,
             FoldFunctionOnSet, TillImport!MapThenFoldSet, MapThenFoldSet

\* Where no deletion puts pieces back, what stands is what a replay finds.
LEMMA StandingReplayed ==
    ASSUME NEW u, \A d \in Workers : u[d].at # "stock"
    PROVE  TillImport!Replayed = Standing(v2, u)
BY DEF TillImport!Replayed, TillImport!Live, TillImport!Bills, Standing, InPlace, Alive, Invoiced

LEMMA CrashKeeps == ASSUME TillInv, TillImport!CrashAndBoot PROVE TillInv'
<1>1. PICK x : x = TillImport!resting
  OBVIOUS
<1>2. /\ v7' = TillImport!quiet /\ v8' = [d \in Workers |-> x] /\ ~v10'
      /\ v3' = TillImport!Expected
      /\ v11' = (v11 \/ v7.at \in {"listing", "paying"} \/ TillImport!Undoing(TillImport!Delicate))
      /\ UNCHANGED <<v2, v4, v5, v6>>
  BY <1>1 DEF TillImport!CrashAndBoot
<1>3. x \in UndoRow /\ x.at = "idle"
  BY <1>1, RestingTyped
<1>4. v7' \in ImportRow /\ v7'.at = "idle"
  BY <1>2, QuietTyped
<1>5. v8' \in [Workers -> UndoRow] /\ \A d \in Workers : v8'[d].at = "idle"
  BY <1>2, <1>3
<1>6. v3' = 0 - SumFunctionOnSet(TillSales, Standing(v2, v8'))
  <2>1. PICK u : u = v8'
    OBVIOUS
  <2>2. \A d \in Workers : u[d].at # "stock"
    BY <1>5, <2>1
  <2>3. TillImport!Replayed = Standing(v2, u)
    BY <2>2, StandingReplayed
  <2>4. v3' = 0 - TillImport!SumFunctionOnSet(TillSales, TillImport!Replayed)
    BY <1>2 DEF TillImport!Expected
  <2>5. TillImport!SumFunctionOnSet(TillSales, TillImport!Replayed)
            = SumFunctionOnSet(TillSales, TillImport!Replayed)
    BY TillSums
  <2> QED BY <2>1, <2>3, <2>4, <2>5
<1>7. v3' \in Int
  <2>1. PICK S, u : u = v8' /\ S = Standing(v2, u)
    OBVIOUS
  <2>2. IsFiniteSet(S) /\ \A i \in S : TillSales[i] \in Int
    BY <2>1, StandingFinite
  <2>3. SumFunctionOnSet(TillSales, S) \in Int
    BY <2>2, SumType
  <2>4. v3' = 0 - SumFunctionOnSet(TillSales, S)
    BY <1>6, <2>1
  <2> QED BY <2>3, <2>4
<1>8. TillType'
  BY <1>2, <1>4, <1>5, <1>7 DEF TillInv, TillType
<1>9. RunsOk' /\ UndoOk'
  BY <1>4, <1>5 DEF RunsOk, UndoOk
<1>10. StockOk'
  <2>1. UndoApart' /\ UndoHolds'
    BY <1>5 DEF UndoApart, UndoHolds
  <2>2. Standing(v2', v8') = Standing(v2, v8')
    BY <1>2
  <2> QED BY <1>6, <2>1, <2>2 DEF StockOk
<1>11. DrawerOk'
  <2> SUFFICES ASSUME ~v11' PROVE CashOk' /\ DiaryOk'
    BY DEF DrawerOk
  <2>1. /\ ~v11 /\ v7.at \notin {"listing", "paying"}
        /\ \A d \in Workers : v8[d].at # "sales"
    BY <1>2 DEF TillImport!Undoing, TillImport!Delicate
  <2>2. CashOk /\ DiaryOk
    BY <2>1 DEF TillInv, DrawerOk
  <2>3. \A i \in Invoiced : CashDue(v2', v8', i) = CashDue(v2, v8, i)
    BY <1>2, <1>5, <2>1 DEF CashDue
  <2> QED BY <1>2, <1>4, <2>1, <2>2, <2>3, DiaryStays DEF CashOk
<1> QED BY <1>8, <1>9, <1>10, <1>11 DEF TillInv

LEMMA TillStep == ASSUME TillInv, TillImport!Next PROVE TillInv'
<1>1. CASE \E i \in Invoiced : TillImport!TillSells(i) \/ TillImport!TillDeletes(i)
  BY <1>1, TillOutside DEF TillImport!TillSells, TillImport!TillDeletes, TillImport!money
<1>2. CASE \E e \in Noted : TillImport!TillNotes(e)
  BY <1>2, TillOutside DEF TillImport!TillNotes, TillImport!money
<1>3. CASE \E r \in DOMAIN v6 : TillImport!DetectDeletions(r)
  BY <1>3, TillOutside DEF TillImport!DetectDeletions, TillImport!money
<1>4. CASE \E i \in Invoiced : \/ TillImport!ImportSale(i) \/ TillImport!Refund(i)
                               \/ TillImport!ApplyDeletion(i)
  BY <1>4, ImportSaleKeeps, RefundKeeps, ApplyDeletionKeeps
<1>5. CASE \/ TillImport!Upload \/ TillImport!ExpenseListed \/ TillImport!ExpensePaid
           \/ TillImport!Finalize \/ TillImport!CrashAndBoot
  BY <1>5, UploadKeepsTill, ExpenseListedKeeps, ExpensePaidKeeps, FinalizeKeeps, CrashKeeps
<1>6. CASE \E e \in Noted : TillImport!ExpenseRow(e)
  BY <1>6, ExpenseRowKeeps
<1>7. CASE \E d \in Workers, r \in DOMAIN v6 : TillImport!DeleteCollect(d, r)
  BY <1>7, DeleteCollectKeeps
<1>8. CASE \E d \in Workers : \/ TillImport!DeleteItems(d) \/ TillImport!DeleteCash(d)
                              \/ TillImport!DeleteSales(d) \/ TillImport!DeleteLists(d)
                              \/ TillImport!DeleteMark(d)
  BY <1>8, DeleteItemsKeeps, DeleteDrawerKeeps, DeleteSalesKeeps, DeleteListsKeeps, DeleteMarkKeeps
<1>9. CASE \E d \in Workers, i \in Invoiced : TillImport!DeleteStock(d, i)
  BY <1>9, DeleteStockKeeps
<1>10. CASE \E d \in Workers, e \in Noted : TillImport!DeleteEntry(d, e)
  BY <1>10, DeleteEntryKeeps
<1> QED BY <1>1, <1>2, <1>3, <1>4, <1>5, <1>6, <1>7, <1>8, <1>9, <1>10
        DEF TillImport!Next, TillImport!Bills, TillImport!Entries, Invoiced, Noted

-----------------------------------------------------------------------------
(***************************************************************************)
(* What the invariant says of the properties.                              *)
(***************************************************************************)
LEMMA TillStockMeans == TillInv => TillImport!StockFollowsImports
<1> SUFFICES ASSUME TillInv, ~v10, ~TillImport!Undoing({"stock"})
             PROVE  v3 = TillImport!Expected
  BY DEF TillImport!StockFollowsImports
<1>1. \A d \in Workers : v8[d].at # "stock"
  BY DEF TillImport!Undoing
<1>2. v3 = 0 - SumFunctionOnSet(TillSales, Standing(v2, v8))
  BY DEF TillInv, StockOk
<1>3. PICK u : u = v8
  OBVIOUS
<1>4. TillImport!Replayed = Standing(v2, u)
  BY <1>1, <1>3, StandingReplayed
<1>5. TillImport!Expected = 0 - TillImport!SumFunctionOnSet(TillSales, TillImport!Replayed)
  BY DEF TillImport!Expected
<1>6. TillImport!SumFunctionOnSet(TillSales, TillImport!Replayed)
          = SumFunctionOnSet(TillSales, TillImport!Replayed)
  BY TillSums
<1> QED BY <1>2, <1>3, <1>4, <1>5, <1>6

LEMMA TillDrawerMeans == TillInv => TillImport!DrawerFollowsImports
<1> SUFFICES ASSUME TillInv, ~v11, ~TillImport!Undoing({"sales", "entries"}),
                    v7.at \notin {"listing", "paying"}
             PROVE  /\ \A i \in Invoiced :
                          v4[i] = IF TillImport!Live(i) THEN TillImport!InDrawer(i) ELSE 0
                    /\ \A e \in Noted : v5[e].rows = v5[e].drawer /\ v5[e].rows <= 1
  BY DEF TillImport!DrawerFollowsImports, TillImport!Bills, TillImport!Entries, Invoiced, Noted
<1>1. \A d \in Workers : v8[d].at # "sales"
  BY DEF TillImport!Undoing
<1>2. CashOk /\ DiaryOk
  BY DEF TillInv, DrawerOk
<1>3. ASSUME NEW i \in Invoiced
      PROVE  v4[i] = IF TillImport!Live(i) THEN TillImport!InDrawer(i) ELSE 0
  BY <1>1, <1>2 DEF CashOk, CashDue, Alive, InTill, TillImport!Live, TillImport!InDrawer
<1>4. \A e \in Noted : v5[e].rows = v5[e].drawer /\ v5[e].rows <= 1
  BY <1>2 DEF DiaryOk, Settled
<1> QED BY <1>3, <1>4

-----------------------------------------------------------------------------
(***************************************************************************)
(* Challans and the central purchase.  v1 = pool, v2 = challans,           *)
(* v3 = purchase, v4 = worker, v5 = tries, v6 = books, v7 = blurred,       *)
(* v8 = marks.  Accounted is inductive once the rows are typed and a       *)
(* request holds what its next statement needs.  PurchaseFollowsChallans   *)
(* is not: between two statements of a distribution its challan is ahead   *)
(* of what the purchase says remains, and what it will still take must fit *)
(* in that; and the rows of one category go down together.                 *)
(***************************************************************************)
Loads == Seq(Challans!Line)

\* the pieces and the worth of a category, as functions of lines
Tally(g) == [s \in Loads |-> SumFunctionOnSet([i \in DOMAIN s |-> g[s[i]]], DOMAIN s)]
PiecesIn(c) == [l \in Challans!Line |-> IF l.cat = c THEN l.qty ELSE 0]
WorthIn(c) == [l \in Challans!Line |-> IF l.cat = c THEN l.qty * l.cost ELSE 0]
QtyOf(c) == Tally(PiecesIn(c))
ValueOf(c) == Tally(WorthIn(c))

\* what F amounts to on the challans of K, and in the hands of requests
OnChallans(F, cs, K) == SumFunctionOnSet([k \in DOMAIN cs |-> F[cs[k].items]], K)
InHand(F, reqs) == SumFunctionOnSet([w \in Workers |-> F[Challans!InHands(reqs[w])]], Workers)
AwayIn(cs) == {k \in DOMAIN cs : cs[k].status # "accepted"}
CentralIn(cs) == {k \in DOMAIN cs : cs[k].central}
Outstanding(F, cs, reqs) == OnChallans(F, cs, AwayIn(cs)) + InHand(F, reqs)

\* by how much a distribution's challan is ahead of the purchase, and what it will take in all
Lead(r, c) == IF r.at = "items" THEN QtyOf(c)[r.done] - QtyOf(c)[r.todo]
              ELSE IF r.at = "remain" THEN QtyOf(c)[r.todo] ELSE 0
Pledge(r, c) == IF r.at = "ship" THEN QtyOf(c)[r.done] + QtyOf(c)[r.todo]
                ELSE IF r.at = "items" THEN QtyOf(c)[r.done]
                ELSE IF r.at = "remain" THEN QtyOf(c)[r.todo] ELSE 0
Leads(reqs, c) == SumFunctionOnSet([w \in Workers |-> Lead(reqs[w], c)], Workers)
Pledges(reqs, c) == SumFunctionOnSet([w \in Workers |-> Pledge(reqs[w], c)], Workers)

ChallanRow == [status : {"in_transit", "accepted", "rejected"}, central : BOOLEAN,
               items : Loads]
PoolRow == [qty : Int, value : Int, avg : Int]
BookRow == [qty : Int, value : Int]
BoughtRow == [cat : Goods, qty : Int, remaining : Int, cost : Int]
BoughtRows == [status : {"none", "recorded", "distributed"}, items : Seq(BoughtRow)]
HaulRow == [at : {"idle", "reject", "buy"} \cup Challans!OnPurchase,
            todo : Loads, done : Loads, id : Nat]

\* the rows of a category, and the one that distributions look at
RowsFor(rows, c) == {i \in DOMAIN rows : rows[i].cat = c}
LastFor(rows, c) == CHOOSE i \in RowsFor(rows, c) : \A j \in RowsFor(rows, c) : j <= i
NoCatRow(c) == [cat |-> c, qty |-> 0, remaining |-> 0, cost |-> 0]
CatRow(rows, c) == IF RowsFor(rows, c) = {} THEN NoCatRow(c) ELSE rows[LastFor(rows, c)]
HasLast(rows) == \A c : RowsFor(rows, c) # {} => LastFor(rows, c) \in RowsFor(rows, c)

TransType ==
    /\ v1 \in [Goods -> PoolRow]
    /\ v2 \in Seq(ChallanRow)
    /\ v3 \in BoughtRows
    /\ HasLast(v3.items)
    /\ v4 \in [Workers -> HaulRow]
    /\ v6 \in [Goods -> BookRow]
    /\ v7 \in BOOLEAN

\* what the next statements of a request need
Ready(r, cs) ==
    /\ r.at \in {"reject", "items"} => r.id \in DOMAIN cs
    /\ r.at \in {"buyitems", "items", "remain"} => r.todo # <<>>
    /\ r.at = "buy" => r.todo # <<>> \/ r.done # <<>>
    /\ r.at = "items" => /\ cs[r.id].central /\ r.done # <<>>
                         /\ \A c \in Goods : QtyOf(c)[r.todo] <= QtyOf(c)[r.done]

HaulsOk == \A w \in Workers : Ready(v4[w], v2)

\* pieces and value of a category in the pool and outside it
QtyHeld(c) == v1[c].qty + Outstanding(QtyOf(c), v2, v4)
ValueHeld(c) == v1[c].value + Outstanding(ValueOf(c), v2, v4)

GoodOk(c) ==
    /\ ~Challans!Doubled(c) => QtyHeld(c) <= v6[c].qty
    /\ ~Challans!Missed(c) => QtyHeld(c) >= v6[c].qty
    /\ ~(Challans!Doubled(c) \/ Challans!Missed(c) \/ Challans!Revalued(c)) =>
         v6[c].value = ValueHeld(c)

GoodsOk == \A c \in Goods : GoodOk(c)

OneServes ==
    /\ \A w, o \in Workers :
         v4[w].at \in {"buy"} \cup Challans!OnPurchase /\ v4[o].at \in {"buy"} \cup Challans!OnPurchase
           => w = o
    /\ \A w \in Workers : /\ v4[w].at = "buy" => v3.status = "none"
                          /\ v4[w].at \in Challans!OnPurchase => v3.status # "none"
                          /\ v4[w].at = "buyitems" => v3.status = "recorded"
    /\ v3.status = "none" \/ (\E w \in Workers : v4[w].at = "buyitems") => CentralIn(v2) = {}

Fitting ==
    \A c \in Goods :
        /\ CatRow(v3.items, c).remaining + OnChallans(QtyOf(c), v2, CentralIn(v2))
             = CatRow(v3.items, c).qty + Leads(v4, c)
        /\ Pledges(v4, c) <= CatRow(v3.items, c).remaining

Alike(rows) ==
    \A i \in DOMAIN rows :
        rows[i].qty - rows[i].remaining = CatRow(rows, rows[i].cat).qty - CatRow(rows, rows[i].cat).remaining

Spent == v3.status = "distributed" => \A i \in DOMAIN v3.items : v3.items[i].remaining <= 0

PurchaseOk == ~v7 => OneServes /\ Fitting /\ Alike(v3.items) /\ Spent

TransInv == TransType /\ HaulsOk /\ GoodsOk /\ PurchaseOk

-----------------------------------------------------------------------------
(***************************************************************************)
(* Amounts of lines.                                                       *)
(***************************************************************************)
Additive(F) ==
    /\ F \in [Loads -> Int]
    /\ F[<<>>] = 0
    /\ \A s \in Loads, l \in Challans!Line : F[Append(s, l)] = F[s] + F[<<l>>]
    /\ \A s \in Loads : s # <<>> => F[s] = F[<<Head(s)>>] + F[Tail(s)]

LEMMA DomainFinite == \A s : s \in Seq(Challans!Line) => IsFiniteSet(DOMAIN s)
<1> SUFFICES ASSUME NEW s \in Seq(Challans!Line) PROVE IsFiniteSet(DOMAIN s)
  OBVIOUS
<1>1. DOMAIN s = 1 .. Len(s) /\ Len(s) \in Nat
  OBVIOUS
<1> QED BY <1>1, FS_Interval

LEMMA LoadAt == \A s \in Loads : \A i \in DOMAIN s : s[i] \in Challans!Line
BY DEF Loads

LEMMA TallyTyped ==
    ASSUME NEW g \in [Challans!Line -> Int] PROVE Tally(g) \in [Loads -> Int]
<1> SUFFICES ASSUME NEW s \in Loads
             PROVE  SumFunctionOnSet([i \in DOMAIN s |-> g[s[i]]], DOMAIN s) \in Int
  BY DEF Tally
<1>1. \A i \in DOMAIN s : [j \in DOMAIN s |-> g[s[j]]][i] \in Int
  BY DEF Loads
<1> QED BY <1>1, DomainFinite, SumType DEF Loads

LEMMA TallyOne ==
    ASSUME NEW g \in [Challans!Line -> Int], NEW l \in Challans!Line
    PROVE  Tally(g)[<<l>>] = g[l] /\ g[l] \in Int
<1>1. <<l>> \in Loads /\ DOMAIN <<l>> = {1}
  BY DEF Loads
<1>2. PICK f : f = [i \in DOMAIN <<l>> |-> g[<<l>>[i]]]
  OBVIOUS
<1>3. f[1] = g[l] /\ g[l] \in Int
  BY <1>1, <1>2
<1>4. Tally(g)[<<l>>] = SumFunctionOnSet(f, {1})
  BY <1>1, <1>2 DEF Tally
<1>5. SumFunctionOnSet(f, {1}) = f[1]
  BY <1>3, SumSingleton
<1> QED BY <1>3, <1>4, <1>5

LEMMA TallyNone ==
    ASSUME NEW g PROVE Tally(g)[<<>>] = 0
<1>1. <<>> \in Loads /\ DOMAIN <<>> = {}
  BY DEF Loads
<1> QED BY <1>1, SumEmpty DEF Tally

LEMMA TallyAppend ==
    ASSUME NEW g \in [Challans!Line -> Int], NEW s \in Loads, NEW l \in Challans!Line
    PROVE  Tally(g)[Append(s, l)] = Tally(g)[s] + g[l]
<1>1. PICK t : t = Append(s, l)
  OBVIOUS
<1>2. PICK n \in Nat : n = Len(s)
  BY DEF Loads
<1>3. /\ t \in Loads /\ DOMAIN s = 1 .. n /\ DOMAIN t = (1 .. n) \cup {n + 1}
      /\ t[n + 1] = l /\ \A i \in 1 .. n : t[i] = s[i] /\ s[i] \in Challans!Line
  BY <1>1, <1>2 DEF Loads
<1>4. PICK f : f = [i \in DOMAIN s |-> g[s[i]]]
  OBVIOUS
<1>5. PICK h : h = [i \in DOMAIN t |-> g[t[i]]]
  OBVIOUS
<1>6. /\ \A i \in 1 .. n : f[i] \in Int /\ h[i] = f[i]
      /\ h[n + 1] = g[l] /\ h[n + 1] \in Int /\ n + 1 \notin 1 .. n
  BY <1>3, <1>4, <1>5
<1>7. SumFunctionOnSet(h, (1 .. n) \cup {n + 1}) = SumFunctionOnSet(f, 1 .. n) + h[n + 1]
  <2>1. IsFiniteSet(1 .. n)
    BY FS_Interval
  <2> QED BY <1>6, <2>1, SumJoin
<1>8. /\ Tally(g)[s] = SumFunctionOnSet(f, 1 .. n)
      /\ Tally(g)[t] = SumFunctionOnSet(h, (1 .. n) \cup {n + 1})
  BY <1>3, <1>4, <1>5 DEF Tally
<1> QED BY <1>1, <1>6, <1>7, <1>8

LEMMA TallyTail ==
    ASSUME NEW g \in [Challans!Line -> Int], NEW s \in Loads, s # <<>>
    PROVE  Tally(g)[s] = g[Head(s)] + Tally(g)[Tail(s)]
<1>1. PICK t : t = Tail(s)
  OBVIOUS
<1>2. PICK n \in Nat : n + 1 = Len(s)
  <2>1. Len(s) \in Nat /\ Len(s) # 0
    BY DEF Loads
  <2>2. Len(s) - 1 \in Nat /\ (Len(s) - 1) + 1 = Len(s)
    BY <2>1
  <2> QED BY <2>2
<1>3. /\ t \in Loads /\ DOMAIN t = 1 .. n /\ DOMAIN s = 1 .. (n + 1)
      /\ Head(s) = s[1] /\ \A i \in 1 .. n : t[i] = s[i + 1] /\ s[i + 1] \in Challans!Line
      /\ s[1] \in Challans!Line
  BY <1>1, <1>2 DEF Loads
<1>4. PICK f : f = [i \in DOMAIN s |-> g[s[i]]]
  OBVIOUS
<1>5. PICK h : h = [i \in DOMAIN t |-> g[t[i]]]
  OBVIOUS
<1>6. PICK name : name = [i \in 1 .. n |-> i + 1]
  OBVIOUS
<1>7. /\ \A i \in 1 .. n : h[i] \in Int /\ f[name[i]] = h[i]
      /\ \A i, j \in 1 .. n : name[i] = name[j] => i = j
      /\ f[1] = g[Head(s)] /\ f[1] \in Int
      /\ \A i \in DOMAIN s : f[i] \in Int
  <2>1. \A i \in DOMAIN s : f[i] = g[s[i]] /\ f[i] \in Int
    BY <1>4, LoadAt
  <2>2. \A i \in 1 .. n : i + 1 \in DOMAIN s /\ name[i] = i + 1 /\ h[i] = g[s[i + 1]]
    BY <1>3, <1>5, <1>6
  <2>3. \A i \in 1 .. n : h[i] \in Int /\ f[name[i]] = h[i]
    BY <2>1, <2>2
  <2>4. \A i, j \in 1 .. n : name[i] = name[j] => i = j
    BY <1>6
  <2>5. 1 \in DOMAIN s
    BY <1>3
  <2> QED BY <1>3, <2>1, <2>3, <2>4, <2>5
<1>8. {name[i] : i \in 1 .. n} = DOMAIN s \ {1}
  <2>1. \A x \in DOMAIN s \ {1} : x - 1 \in 1 .. n /\ name[x - 1] = x
    BY <1>3, <1>6
  <2>2. \A i \in 1 .. n : name[i] \in DOMAIN s \ {1}
    BY <1>3, <1>6
  <2> QED BY <2>1, <2>2
<1>9. SumFunctionOnSet(f, {name[i] : i \in 1 .. n}) = SumFunctionOnSet(h, 1 .. n)
  <2>1. IsFiniteSet(1 .. n)
    BY FS_Interval
  <2>2. \A i \in 1 .. n : h[i] \in Int
    BY <1>7
  <2> QED BY <1>7, <2>1, <2>2, SumRenamed
<1>10. 1 \in DOMAIN s /\ IsFiniteSet(DOMAIN s)
  BY <1>3, DomainFinite DEF Loads
<1>11. SumFunctionOnSet(f, DOMAIN s) = f[1] + SumFunctionOnSet(f, DOMAIN s \ {1})
  BY <1>7, <1>10, SumRemove
<1>12. /\ Tally(g)[s] = SumFunctionOnSet(f, DOMAIN s)
       /\ Tally(g)[t] = SumFunctionOnSet(h, 1 .. n)
  BY <1>3, <1>4, <1>5 DEF Tally
<1> QED BY <1>1, <1>7, <1>8, <1>9, <1>11, <1>12

LEMMA TallyAdditive ==
    ASSUME NEW g \in [Challans!Line -> Int] PROVE Additive(Tally(g))
<1>1. \A s \in Loads, l \in Challans!Line : Tally(g)[Append(s, l)] = Tally(g)[s] + Tally(g)[<<l>>]
  BY TallyAppend, TallyOne
<1>2. ASSUME NEW s \in Loads, s # <<>>
      PROVE  Tally(g)[s] = Tally(g)[<<Head(s)>>] + Tally(g)[Tail(s)]
  <2>1. Head(s) \in Challans!Line
    BY <1>2 DEF Loads
  <2> QED BY <1>2, <2>1, TallyTail, TallyOne
<1> QED BY <1>1, <1>2, TallyTyped, TallyNone DEF Additive

LEMMA WeightsTyped ==
    \A c : PiecesIn(c) \in [Challans!Line -> Int] /\ WorthIn(c) \in [Challans!Line -> Int]
BY DEF PiecesIn, WorthIn, Challans!Line

LEMMA AmountsAdditive == \A c : Additive(QtyOf(c)) /\ Additive(ValueOf(c))
BY WeightsTyped, TallyAdditive DEF QtyOf, ValueOf

\* what one line amounts to
LEMMA LineAmount ==
    ASSUME NEW c, NEW l \in Challans!Line
    PROVE  /\ QtyOf(c)[<<l>>] = IF l.cat = c THEN l.qty ELSE 0
           /\ ValueOf(c)[<<l>>] = IF l.cat = c THEN l.qty * l.cost ELSE 0
           /\ l.qty \in Nat \ {0} /\ l.cost \in Int /\ l.cat \in Goods
           /\ QtyOf(c)[<<l>>] \in Nat
<1>1. l.qty \in Nat \ {0} /\ l.cost \in Int /\ l.cat \in Goods
  BY DEF Challans!Line
<1>2. /\ Tally(PiecesIn(c))[<<l>>] = PiecesIn(c)[l]
      /\ Tally(WorthIn(c))[<<l>>] = WorthIn(c)[l]
  BY WeightsTyped, TallyOne
<1>3. /\ PiecesIn(c)[l] = IF l.cat = c THEN l.qty ELSE 0
      /\ WorthIn(c)[l] = IF l.cat = c THEN l.qty * l.cost ELSE 0
  BY DEF PiecesIn, WorthIn
<1> QED BY <1>1, <1>2, <1>3 DEF QtyOf, ValueOf

\* pieces are never negative
LEMMA QtyNat == \A c, s : s \in Loads => QtyOf(c)[s] \in Nat
<1> SUFFICES ASSUME NEW c, NEW s \in Loads PROVE QtyOf(c)[s] \in Nat
  OBVIOUS
<1>1. PICK f : f = [i \in DOMAIN s |-> PiecesIn(c)[s[i]]]
  OBVIOUS
<1>2. \A i \in DOMAIN s : f[i] \in Nat
  <2>1. \A l \in Challans!Line : PiecesIn(c)[l] \in Nat
    BY DEF PiecesIn, Challans!Line
  <2> QED BY <1>1, <2>1, LoadAt
<1>3. QtyOf(c)[s] = SumFunctionOnSet(f, DOMAIN s)
  BY <1>1 DEF QtyOf, Tally
<1> QED BY <1>2, <1>3, DomainFinite, SumNat DEF Loads

\* lines of other categories only
LEMMA AmountNone ==
    ASSUME NEW c, NEW s \in Loads, ~\E i \in DOMAIN s : s[i].cat = c
    PROVE  QtyOf(c)[s] = 0 /\ ValueOf(c)[s] = 0
<1>1. PICK f : f = [i \in DOMAIN s |-> PiecesIn(c)[s[i]]]
  OBVIOUS
<1>2. PICK h : h = [i \in DOMAIN s |-> WorthIn(c)[s[i]]]
  OBVIOUS
<1>3. \A i \in DOMAIN s : f[i] = 0 /\ h[i] = 0
  BY <1>1, <1>2 DEF PiecesIn, WorthIn, Loads
<1>4. QtyOf(c)[s] = SumFunctionOnSet(f, DOMAIN s) /\ ValueOf(c)[s] = SumFunctionOnSet(h, DOMAIN s)
  BY <1>1, <1>2 DEF QtyOf, ValueOf, Tally
<1> QED BY <1>3, <1>4, DomainFinite, SumZero DEF Loads

\* at most one line of a category
LEMMA AmountDistinct ==
    ASSUME NEW c, NEW s \in Loads, Challans!Distinct(s), NEW k \in DOMAIN s, s[k].cat = c
    PROVE  QtyOf(c)[s] = s[k].qty
<1>1. PICK f : f = [i \in DOMAIN s |-> PiecesIn(c)[s[i]]]
  OBVIOUS
<1>2. \A i \in DOMAIN s : s[i] \in Challans!Line
  BY DEF Loads
<1>3. \A i \in DOMAIN s : f[i] = IF i = k THEN s[k].qty ELSE 0
  BY <1>1, <1>2 DEF PiecesIn, Challans!Distinct
<1>4. s[k].qty \in Int
  BY <1>2 DEF Challans!Line
<1>5. QtyOf(c)[s] = SumFunctionOnSet(f, DOMAIN s)
  BY <1>1 DEF QtyOf, Tally
<1>6. IsFiniteSet(DOMAIN s) /\ IsFiniteSet(DOMAIN s \ {k})
  BY DomainFinite, FS_Subset DEF Loads
<1>7. \A i \in DOMAIN s : f[i] \in Int
  BY <1>3, <1>4
<1>8. SumFunctionOnSet(f, DOMAIN s) = f[k] + SumFunctionOnSet(f, DOMAIN s \ {k})
  BY <1>6, <1>7, SumRemove
<1>9. SumFunctionOnSet(f, DOMAIN s \ {k}) = 0
  BY <1>3, <1>6, SumZero
<1> QED BY <1>3, <1>4, <1>5, <1>8, <1>9

-----------------------------------------------------------------------------
(***************************************************************************)
(* What challans and hands hold, when one of them changes.                 *)
(***************************************************************************)
LEMMA ChallanAt ==
    ASSUME NEW cs \in Seq(ChallanRow)
    PROVE  /\ IsFiniteSet(DOMAIN cs)
           /\ \A k \in DOMAIN cs : cs[k] \in ChallanRow /\ cs[k].items \in Loads
           /\ AwayIn(cs) \subseteq DOMAIN cs /\ CentralIn(cs) \subseteq DOMAIN cs
<1>1. DOMAIN cs = 1 .. Len(cs) /\ Len(cs) \in Nat
  OBVIOUS
<1>2. IsFiniteSet(DOMAIN cs)
  BY <1>1, FS_Interval
<1>3. \A k \in DOMAIN cs : cs[k] \in ChallanRow
  OBVIOUS
<1>4. \A k \in DOMAIN cs : cs[k].items \in Loads
  BY <1>3 DEF ChallanRow
<1> QED BY <1>2, <1>3, <1>4 DEF AwayIn, CentralIn

\* the items as a function of the challan
LEMMA OnChallansIs ==
    ASSUME NEW F, Additive(F), NEW cs \in Seq(ChallanRow), NEW K \in SUBSET DOMAIN cs
    PROVE  \E f : /\ \A k \in DOMAIN cs : f[k] = F[cs[k].items] /\ f[k] \in Int
                  /\ OnChallans(F, cs, K) = SumFunctionOnSet(f, K)
                  /\ IsFiniteSet(K) /\ OnChallans(F, cs, K) \in Int
<1>1. PICK f : f = [k \in DOMAIN cs |-> F[cs[k].items]]
  OBVIOUS
<1>2. \A k \in DOMAIN cs : f[k] = F[cs[k].items] /\ f[k] \in Int
  BY <1>1, ChallanAt DEF Additive
<1>3. IsFiniteSet(K)
  BY ChallanAt, FS_Subset
<1>4. OnChallans(F, cs, K) = SumFunctionOnSet(f, K)
  BY <1>1 DEF OnChallans
<1>5. SumFunctionOnSet(f, K) \in Int
  BY <1>2, <1>3, SumType
<1> QED BY <1>2, <1>3, <1>4, <1>5

LEMMA ChallansStay ==
    ASSUME NEW F, Additive(F), NEW cs \in Seq(ChallanRow), NEW ds \in Seq(ChallanRow),
           NEW K \in SUBSET DOMAIN cs, K \subseteq DOMAIN ds,
           \A k \in K : ds[k].items = cs[k].items
    PROVE  OnChallans(F, ds, K) = OnChallans(F, cs, K)
<1>1. PICK f : /\ \A k \in DOMAIN cs : f[k] = F[cs[k].items] /\ f[k] \in Int
               /\ OnChallans(F, cs, K) = SumFunctionOnSet(f, K)
               /\ IsFiniteSet(K)
  BY OnChallansIs
<1>2. PICK h : /\ \A k \in DOMAIN ds : h[k] = F[ds[k].items] /\ h[k] \in Int
               /\ OnChallans(F, ds, K) = SumFunctionOnSet(h, K)
  BY OnChallansIs
<1>3. \A k \in K : f[k] = h[k]
  BY <1>1, <1>2
<1> QED BY <1>1, <1>2, <1>3, SumEqual

LEMMA ChallanJoins ==
    ASSUME NEW F, Additive(F), NEW cs \in Seq(ChallanRow), NEW ds \in Seq(ChallanRow),
           NEW K \in SUBSET DOMAIN cs, NEW n \in DOMAIN ds, n \notin K, K \subseteq DOMAIN ds,
           \A k \in K : ds[k].items = cs[k].items
    PROVE  OnChallans(F, ds, K \cup {n}) = OnChallans(F, cs, K) + F[ds[n].items]
<1>1. PICK f : /\ \A k \in DOMAIN cs : f[k] = F[cs[k].items] /\ f[k] \in Int
               /\ OnChallans(F, cs, K) = SumFunctionOnSet(f, K)
               /\ IsFiniteSet(K)
  BY OnChallansIs
<1>2. PICK h : /\ \A k \in DOMAIN ds : h[k] = F[ds[k].items] /\ h[k] \in Int
               /\ OnChallans(F, ds, K \cup {n}) = SumFunctionOnSet(h, K \cup {n})
  <2>1. K \cup {n} \in SUBSET DOMAIN ds
    OBVIOUS
  <2> QED BY <2>1, OnChallansIs
<1>3. /\ \A k \in K : h[k] = f[k] /\ f[k] \in Int
      /\ h[n] = F[ds[n].items] /\ h[n] \in Int
  BY <1>1, <1>2
<1>4. SumFunctionOnSet(h, K \cup {n}) = SumFunctionOnSet(f, K) + h[n]
  BY <1>1, <1>3, SumJoin
<1> QED BY <1>1, <1>2, <1>3, <1>4

LEMMA ChallanLeaves ==
    ASSUME NEW F, Additive(F), NEW cs \in Seq(ChallanRow), NEW ds \in Seq(ChallanRow),
           NEW K \in SUBSET DOMAIN cs, NEW n \in K, K \subseteq DOMAIN ds,
           \A k \in K \ {n} : ds[k].items = cs[k].items
    PROVE  OnChallans(F, ds, K \ {n}) = OnChallans(F, cs, K) - F[cs[n].items]
<1>1. PICK f : /\ \A k \in DOMAIN cs : f[k] = F[cs[k].items] /\ f[k] \in Int
               /\ OnChallans(F, cs, K) = SumFunctionOnSet(f, K)
               /\ IsFiniteSet(K)
  BY OnChallansIs
<1>2. PICK h : /\ \A k \in DOMAIN ds : h[k] = F[ds[k].items] /\ h[k] \in Int
               /\ OnChallans(F, ds, K \ {n}) = SumFunctionOnSet(h, K \ {n})
  <2>1. K \ {n} \in SUBSET DOMAIN ds
    OBVIOUS
  <2> QED BY <2>1, OnChallansIs
<1>3. /\ \A k \in K : f[k] \in Int
      /\ \A k \in K \ {n} : h[k] = f[k]
      /\ f[n] = F[cs[n].items]
  BY <1>1, <1>2
<1>4. SumFunctionOnSet(h, K \ {n}) = SumFunctionOnSet(f, K) - f[n]
  <2>1. PICK T : T = K \ {n}
    OBVIOUS
  <2>2. \A k \in T : h[k] = f[k]
    BY <1>3, <2>1
  <2>3. \A k \in K : f[k] \in Int
    BY <1>3
  <2>4. SumFunctionOnSet(h, T) = SumFunctionOnSet(f, K) - f[n]
    <3>1. IsFiniteSet(K)
      BY <1>1
    <3> QED BY <3>1, <2>1, <2>2, <2>3, SumLeave
  <2> QED BY <2>1, <2>4
<1> QED BY <1>1, <1>2, <1>3, <1>4

\* a line more on one of them
LEMMA ChallanGrows ==
    ASSUME NEW F, Additive(F), NEW cs \in Seq(ChallanRow), NEW ds \in Seq(ChallanRow),
           NEW K \in SUBSET DOMAIN cs, NEW n \in K, NEW l \in Challans!Line, K \subseteq DOMAIN ds,
           ds[n].items = Append(cs[n].items, l),
           \A k \in K \ {n} : ds[k].items = cs[k].items
    PROVE  OnChallans(F, ds, K) = OnChallans(F, cs, K) + F[<<l>>]
<1>1. PICK f : /\ \A k \in DOMAIN cs : f[k] = F[cs[k].items] /\ f[k] \in Int
               /\ OnChallans(F, cs, K) = SumFunctionOnSet(f, K)
               /\ IsFiniteSet(K) /\ OnChallans(F, cs, K) \in Int
  BY OnChallansIs
<1>2. PICK h : /\ \A k \in DOMAIN ds : h[k] = F[ds[k].items] /\ h[k] \in Int
               /\ OnChallans(F, ds, K) = SumFunctionOnSet(h, K)
  BY OnChallansIs
<1>3. /\ \A k \in K : f[k] \in Int
      /\ \A k \in K : k # n => h[k] = f[k]
      /\ h[n] \in Int
  BY <1>1, <1>2
<1>4. SumFunctionOnSet(h, K) = SumFunctionOnSet(f, K) - f[n] + h[n]
  BY <1>1, <1>3, SumOneChanged
<1>5. cs[n].items \in Loads
  BY ChallanAt
<1>6. h[n] = f[n] + F[<<l>>] /\ f[n] \in Int /\ h[n] \in Int
  <2>1. F[Append(cs[n].items, l)] = F[cs[n].items] + F[<<l>>]
    BY <1>5 DEF Additive
  <2>2. n \in DOMAIN cs /\ n \in DOMAIN ds
    OBVIOUS
  <2> QED BY <1>1, <1>2, <2>1, <2>2
<1>7. F[<<l>>] \in Int
  <2>1. <<l>> \in Loads
    BY DEF Loads
  <2> QED BY <2>1 DEF Additive
<1> QED BY <1>1, <1>2, <1>4, <1>6, <1>7

LEMMA HandsTyped == \A r \in HaulRow : Challans!InHands(r) \in Loads
BY DEF HaulRow, Challans!InHands, Loads

\* one request's share changes
Shares(share, reqs) == SumFunctionOnSet([o \in Workers |-> share[reqs[o]]], Workers)

LEMMA ShareChanged ==
    ASSUME NEW share \in [HaulRow -> Int], NEW reqs \in [Workers -> HaulRow],
           NEW w \in Workers, NEW r \in HaulRow, NEW next \in [Workers -> HaulRow],
           next[w] = r, \A o \in Workers : o # w => next[o] = reqs[o]
    PROVE  /\ Shares(share, next) = Shares(share, reqs) - share[reqs[w]] + share[r]
           /\ Shares(share, reqs) \in Int /\ share[reqs[w]] \in Int /\ share[r] \in Int
<1>1. PICK f : f = [o \in Workers |-> share[reqs[o]]]
  OBVIOUS
<1>2. PICK h : h = [o \in Workers |-> share[next[o]]]
  OBVIOUS
<1>3. /\ \A o \in Workers : f[o] \in Int
      /\ \A o \in Workers : o # w => h[o] = f[o]
      /\ f[w] = share[reqs[w]] /\ h[w] = share[r] /\ h[w] \in Int
  BY <1>1, <1>2
<1>4. SumFunctionOnSet(h, Workers) = SumFunctionOnSet(f, Workers) - f[w] + h[w]
  BY <1>3, PartsAssumption, SumOneChanged
<1>5. SumFunctionOnSet(f, Workers) \in Int
  BY <1>3, PartsAssumption, SumType
<1> QED BY <1>1, <1>2, <1>3, <1>4, <1>5 DEF Shares

HandShare(F) == [r \in HaulRow |-> F[Challans!InHands(r)]]
LeadShare(c) == [r \in HaulRow |-> Lead(r, c)]
PledgeShare(c) == [r \in HaulRow |-> Pledge(r, c)]

LEMMA SharesTyped ==
    /\ \A F : Additive(F) => HandShare(F) \in [HaulRow -> Int]
    /\ \A c : LeadShare(c) \in [HaulRow -> Int] /\ PledgeShare(c) \in [HaulRow -> Int]
<1>1. \A F : Additive(F) => HandShare(F) \in [HaulRow -> Int]
  BY HandsTyped DEF HandShare, Additive
<1>2. \A c : \A r \in HaulRow : QtyOf(c)[r.done] \in Nat /\ QtyOf(c)[r.todo] \in Nat
  BY QtyNat DEF HaulRow
<1>3. \A c : \A r \in HaulRow : Lead(r, c) \in Int /\ Pledge(r, c) \in Int
  BY <1>2 DEF Lead, Pledge
<1> QED BY <1>1, <1>3 DEF LeadShare, PledgeShare

LEMMA SharesAre ==
    ASSUME NEW reqs \in [Workers -> HaulRow]
    PROVE  /\ \A F : InHand(F, reqs) = Shares(HandShare(F), reqs)
           /\ \A c : /\ Leads(reqs, c) = Shares(LeadShare(c), reqs)
                    /\ Pledges(reqs, c) = Shares(PledgeShare(c), reqs)
<1>1. \A F : [w \in Workers |-> F[Challans!InHands(reqs[w])]] = [o \in Workers |-> HandShare(F)[reqs[o]]]
  BY DEF HandShare
<1>2. \A c : [w \in Workers |-> Lead(reqs[w], c)] = [o \in Workers |-> LeadShare(c)[reqs[o]]]
  BY DEF LeadShare
<1>3. \A c : [w \in Workers |-> Pledge(reqs[w], c)] = [o \in Workers |-> PledgeShare(c)[reqs[o]]]
  BY DEF PledgeShare
<1> QED BY <1>1, <1>2, <1>3 DEF InHand, Leads, Pledges, Shares

LEMMA HandChanged ==
    ASSUME NEW reqs \in [Workers -> HaulRow], NEW w \in Workers, NEW r \in HaulRow,
           NEW next \in [Workers -> HaulRow], next[w] = r,
           \A o \in Workers : o # w => next[o] = reqs[o]
    PROVE  \A F : Additive(F) =>
             /\ InHand(F, next) = InHand(F, reqs) - F[Challans!InHands(reqs[w])] + F[Challans!InHands(r)]
             /\ InHand(F, reqs) \in Int
<1> SUFFICES ASSUME NEW F, Additive(F)
             PROVE  /\ InHand(F, next) = InHand(F, reqs) - F[Challans!InHands(reqs[w])]
                                            + F[Challans!InHands(r)]
                    /\ InHand(F, reqs) \in Int
  OBVIOUS
<1>2. PICK share : share = HandShare(F)
  OBVIOUS
<1>3. share \in [HaulRow -> Int]
  BY <1>2, SharesTyped
<1>4. InHand(F, next) = Shares(share, next) /\ InHand(F, reqs) = Shares(share, reqs)
  BY <1>2, SharesAre
<1>5. share[reqs[w]] = F[Challans!InHands(reqs[w])] /\ share[r] = F[Challans!InHands(r)]
  BY <1>2 DEF HandShare
<1>6. Shares(share, next) = Shares(share, reqs) - share[reqs[w]] + share[r] /\ Shares(share, reqs) \in Int
  BY <1>3, ShareChanged
<1> QED BY <1>4, <1>5, <1>6

LeadStep(reqs, next, w, r) ==
    \A c : /\ Leads(next, c) = Leads(reqs, c) - Lead(reqs[w], c) + Lead(r, c)
          /\ Pledges(next, c) = Pledges(reqs, c) - Pledge(reqs[w], c) + Pledge(r, c)
          /\ Leads(reqs, c) \in Int /\ Lead(reqs[w], c) \in Int /\ Lead(r, c) \in Int
          /\ Pledges(reqs, c) \in Int /\ Pledge(reqs[w], c) \in Int /\ Pledge(r, c) \in Int

LEMMA LeadChanged ==
    ASSUME NEW reqs \in [Workers -> HaulRow], NEW w \in Workers, NEW r \in HaulRow,
           NEW next \in [Workers -> HaulRow], next[w] = r,
           \A o \in Workers : o # w => next[o] = reqs[o]
    PROVE  LeadStep(reqs, next, w, r)
<1> SUFFICES ASSUME NEW c
             PROVE  /\ Leads(next, c) = Leads(reqs, c) - Lead(reqs[w], c) + Lead(r, c)
                    /\ Pledges(next, c) = Pledges(reqs, c) - Pledge(reqs[w], c) + Pledge(r, c)
                    /\ Leads(reqs, c) \in Int /\ Lead(reqs[w], c) \in Int /\ Lead(r, c) \in Int
                    /\ Pledges(reqs, c) \in Int /\ Pledge(reqs[w], c) \in Int /\ Pledge(r, c) \in Int
  BY DEF LeadStep
<1>2. PICK p, q : p = LeadShare(c) /\ q = PledgeShare(c)
  OBVIOUS
<1>3. p \in [HaulRow -> Int] /\ q \in [HaulRow -> Int]
  BY <1>2, SharesTyped
<1>4. /\ Leads(next, c) = Shares(p, next) /\ Leads(reqs, c) = Shares(p, reqs)
      /\ Pledges(next, c) = Shares(q, next) /\ Pledges(reqs, c) = Shares(q, reqs)
  BY <1>2, SharesAre
<1>5. /\ p[reqs[w]] = Lead(reqs[w], c) /\ p[r] = Lead(r, c)
      /\ q[reqs[w]] = Pledge(reqs[w], c) /\ q[r] = Pledge(r, c)
  BY <1>2 DEF LeadShare, PledgeShare
<1>6. Shares(p, next) = Shares(p, reqs) - p[reqs[w]] + p[r] /\ Shares(p, reqs) \in Int
      /\ p[reqs[w]] \in Int /\ p[r] \in Int
  BY <1>3, ShareChanged
<1>7. Shares(q, next) = Shares(q, reqs) - q[reqs[w]] + q[r] /\ Shares(q, reqs) \in Int
      /\ q[reqs[w]] \in Int /\ q[r] \in Int
  BY <1>3, ShareChanged
<1> QED BY <1>4, <1>5, <1>6, <1>7

\* while nobody serves the purchase, no challan is ahead of it
LEMMA NobodyLeads ==
    ASSUME NEW reqs \in [Workers -> HaulRow], NEW c,
           \A w \in Workers : reqs[w].at \notin {"ship", "items", "remain"}
    PROVE  Leads(reqs, c) = 0 /\ Pledges(reqs, c) = 0
<1>1. \A w \in Workers : Lead(reqs[w], c) = 0 /\ Pledge(reqs[w], c) = 0
  BY DEF Lead, Pledge
<1>2. PICK f, h : f = [w \in Workers |-> Lead(reqs[w], c)] /\ h = [w \in Workers |-> Pledge(reqs[w], c)]
  OBVIOUS
<1>3. \A w \in Workers : f[w] = 0 /\ h[w] = 0
  BY <1>1, <1>2
<1>4. SumFunctionOnSet(f, Workers) = 0 /\ SumFunctionOnSet(h, Workers) = 0
  BY <1>3, PartsAssumption, SumZero
<1> QED BY <1>2, <1>4 DEF Leads, Pledges

\* a challan is never ahead by less than nothing, nor by more than was pledged
LEMMA LeadsWithinPledges ==
    ASSUME NEW reqs \in [Workers -> HaulRow], NEW c \in Goods,
           \A w \in Workers : reqs[w].at = "items" => QtyOf(c)[reqs[w].todo] <= QtyOf(c)[reqs[w].done]
    PROVE  /\ Leads(reqs, c) \in Nat /\ Pledges(reqs, c) \in Nat
           /\ Leads(reqs, c) <= Pledges(reqs, c)
<1>1. PICK f, h : f = [w \in Workers |-> Lead(reqs[w], c)] /\ h = [w \in Workers |-> Pledge(reqs[w], c)]
  OBVIOUS
<1>2. \A w \in Workers : QtyOf(c)[reqs[w].done] \in Nat /\ QtyOf(c)[reqs[w].todo] \in Nat
  BY QtyNat DEF HaulRow
<1>3. \A w \in Workers : f[w] \in Nat /\ h[w] \in Nat /\ f[w] <= h[w]
  BY <1>1, <1>2 DEF Lead, Pledge
<1>4. SumFunctionOnSet(f, Workers) \in Nat /\ SumFunctionOnSet(h, Workers) \in Nat
  BY <1>3, PartsAssumption, SumNat
<1>5. SumFunctionOnSet(f, Workers) <= SumFunctionOnSet(h, Workers)
  BY <1>3, PartsAssumption, SumBelow
<1> QED BY <1>1, <1>4, <1>5 DEF Leads, Pledges

-----------------------------------------------------------------------------
(***************************************************************************)
(* What Transfers calls them, and what they do to the pool and the books.  *)
(***************************************************************************)
LEMMA ChallanSums == \A f, S : Challans!SumFunctionOnSet(f, S) = SumFunctionOnSet(f, S)
BY Zenon DEF SumFunctionOnSet, FoldFunctionOnSet, MapThenFoldSet, Challans!SumFunctionOnSet,
             Challans!FoldFunctionOnSet, Challans!MapThenFoldSet

LEMMA ChallanSum == \A f : Challans!SumFunction(f) = SumFunctionOnSet(f, DOMAIN f)
BY ChallanSums DEF Challans!SumFunction

LEMMA PiecesAre ==
    \A s \in Loads : \A c : /\ Challans!Pieces(s, c) = QtyOf(c)[s]
                            /\ Challans!Worth(s, c) = ValueOf(c)[s]
<1> SUFFICES ASSUME NEW s \in Loads, NEW c
             PROVE  Challans!Pieces(s, c) = QtyOf(c)[s] /\ Challans!Worth(s, c) = ValueOf(c)[s]
  OBVIOUS
<1>1. PICK f : f = [i \in DOMAIN s |-> PiecesIn(c)[s[i]]]
  OBVIOUS
<1>2. PICK h : h = [i \in DOMAIN s |-> WorthIn(c)[s[i]]]
  OBVIOUS
<1>3. f = [i \in DOMAIN s |-> IF s[i].cat = c THEN s[i].qty ELSE 0]
  BY <1>1, LoadAt DEF PiecesIn
<1>4. h = [i \in DOMAIN s |-> IF s[i].cat = c THEN s[i].qty * s[i].cost ELSE 0]
  BY <1>2, LoadAt DEF WorthIn
<1>5. DOMAIN f = DOMAIN s /\ DOMAIN h = DOMAIN s
  BY <1>1, <1>2
<1>6. Challans!Pieces(s, c) = Challans!SumFunction(f)
  BY <1>3 DEF Challans!Pieces
<1>7. Challans!Worth(s, c) = Challans!SumFunction(h)
  BY <1>4 DEF Challans!Worth
<1>8. QtyOf(c)[s] = SumFunctionOnSet(f, DOMAIN s)
  BY <1>1 DEF QtyOf, Tally
<1>9. ValueOf(c)[s] = SumFunctionOnSet(h, DOMAIN s)
  BY <1>2 DEF ValueOf, Tally
<1> QED BY <1>5, <1>6, <1>7, <1>8, <1>9, ChallanSum

LEMMA AmountsTyped == \A s \in Loads : \A c : QtyOf(c)[s] \in Int /\ ValueOf(c)[s] \in Int
BY AmountsAdditive DEF Additive

\* pieces leave at the average, which stays
LEMMA ShippedIs ==
    ASSUME NEW p \in [Goods -> PoolRow], NEW s \in Loads
    PROVE  /\ Challans!Shipped(p, s) \in [Goods -> PoolRow]
           /\ \A c \in Goods :
                /\ Challans!Shipped(p, s)[c].qty = p[c].qty - QtyOf(c)[s]
                /\ Challans!Shipped(p, s)[c].value = p[c].value - QtyOf(c)[s] * p[c].avg
                /\ Challans!Shipped(p, s)[c].avg = p[c].avg
<1>1. ASSUME NEW c \in Goods
      PROVE  /\ Challans!ApplySale(p[c], Challans!Pieces(s, c)) \in PoolRow
             /\ Challans!ApplySale(p[c], Challans!Pieces(s, c)).qty = p[c].qty - QtyOf(c)[s]
             /\ Challans!ApplySale(p[c], Challans!Pieces(s, c)).value = p[c].value - QtyOf(c)[s] * p[c].avg
             /\ Challans!ApplySale(p[c], Challans!Pieces(s, c)).avg = p[c].avg
  <2>1. PICK q : q = QtyOf(c)[s]
    OBVIOUS
  <2>2. q \in Int /\ Challans!Pieces(s, c) = q
    BY <2>1, PiecesAre, AmountsTyped
  <2>3. PICK a \in PoolRow : a = p[c]
    OBVIOUS
  <2>4. Challans!ApplySale(a, q) = [qty |-> a.qty - q, value |-> a.value - q * a.avg, avg |-> a.avg]
    BY DEF Challans!ApplySale, Challans!Pool
  <2>5. q * a.avg \in Int /\ a.qty \in Int /\ a.value \in Int /\ a.avg \in Int
    BY <2>2 DEF PoolRow
  <2> QED BY <2>1, <2>2, <2>3, <2>4, <2>5 DEF PoolRow
<1> QED BY <1>1 DEF Challans!Shipped

\* pieces join at what they cost
LEMMA BookedInIs ==
    ASSUME NEW p \in [Goods -> PoolRow], NEW s \in Loads
    PROVE  /\ Challans!BookedIn(p, s) \in [Goods -> PoolRow]
           /\ \A c \in Goods :
                /\ Challans!BookedIn(p, s)[c].qty = p[c].qty + QtyOf(c)[s]
                /\ Challans!BookedIn(p, s)[c].value = p[c].value + ValueOf(c)[s]
<1> DEFINE row(c) == IF \E i \in DOMAIN s : s[i].cat = c
                     THEN Challans!Averaged(p[c].qty + Challans!Pieces(s, c),
                                            p[c].value + Challans!Worth(s, c))
                     ELSE p[c]
<1>1. ASSUME NEW c \in Goods
      PROVE  /\ row(c) \in PoolRow
             /\ row(c).qty = p[c].qty + QtyOf(c)[s]
             /\ row(c).value = p[c].value + ValueOf(c)[s]
  <2>1. PICK q, x : q = QtyOf(c)[s] /\ x = ValueOf(c)[s]
    OBVIOUS
  <2>2. q \in Int /\ x \in Int /\ Challans!Pieces(s, c) = q /\ Challans!Worth(s, c) = x
    BY <2>1, PiecesAre, AmountsTyped
  <2>3. PICK a \in PoolRow : a = p[c]
    OBVIOUS
  <2>4. a.qty \in Int /\ a.value \in Int /\ a.avg \in Int
    BY DEF PoolRow
  <2>5. CASE \E i \in DOMAIN s : s[i].cat = c
    <3>1. PICK m, n : m = a.qty + q /\ n = a.value + x
      OBVIOUS
    <3>2. m \in Int /\ n \in Int
      BY <2>2, <2>4, <3>1
    <3>3. row(c) = Challans!Averaged(m, n)
      BY <2>2, <2>3, <2>5, <3>1
    <3>4. m > 0 => Challans!Rounded(n, m) \in Int
      BY <3>2 DEF Challans!Rounded
    <3>5. PICK g \in Int : Challans!Averaged(m, n) = [qty |-> m, value |-> n, avg |-> g]
      BY <3>4 DEF Challans!Averaged, Challans!Pool
    <3> HIDE DEF row
    <3> QED BY <2>1, <2>3, <3>1, <3>2, <3>3, <3>5 DEF PoolRow
  <2>6. CASE ~\E i \in DOMAIN s : s[i].cat = c
    <3>1. q = 0 /\ x = 0
      BY <2>1, <2>6, AmountNone
    <3>2. row(c) = a
      BY <2>3, <2>6
    <3> HIDE DEF row
    <3> QED BY <2>1, <2>3, <2>4, <3>1, <3>2
  <2> QED BY <2>5, <2>6
<1>2. Challans!BookedIn(p, s) = [c \in Goods |-> row(c)]
  BY DEF Challans!BookedIn
<1> HIDE DEF row
<1> QED BY <1>1, <1>2

LEMMA EnteredIs ==
    ASSUME v6 \in [Goods -> BookRow], NEW g \in Goods, NEW q \in Int, NEW x \in Int
    PROVE  /\ Challans!Entered(g, q, x) \in [Goods -> BookRow]
           /\ \A c \in Goods :
                /\ Challans!Entered(g, q, x)[c].qty = v6[c].qty + IF c = g THEN q ELSE 0
                /\ Challans!Entered(g, q, x)[c].value = v6[c].value + IF c = g THEN x ELSE 0
<1>1. PICK b : b = [qty |-> v6[g].qty + q, value |-> v6[g].value + x]
  OBVIOUS
<1>2. \A c \in Goods : v6[c].qty \in Int /\ v6[c].value \in Int
  BY DEF BookRow
<1>3. b \in BookRow /\ b.qty = v6[g].qty + q /\ b.value = v6[g].value + x
  BY <1>1, <1>2 DEF BookRow
<1>4. Challans!Entered(g, q, x) = [v6 EXCEPT ![g] = b]
  BY <1>1 DEF Challans!Entered
<1> QED BY <1>2, <1>3, <1>4

\* the same lines at other costs
LEMMA AmountPriced ==
    ASSUME NEW s \in Loads, NEW t \in Loads, DOMAIN t = DOMAIN s, NEW c, NEW a \in Int,
           \A i \in DOMAIN s : /\ t[i].cat = s[i].cat /\ t[i].qty = s[i].qty
                               /\ s[i].cat = c => t[i].cost = a
    PROVE  QtyOf(c)[t] = QtyOf(c)[s] /\ ValueOf(c)[t] = QtyOf(c)[s] * a
<1>1. PICK f : f = [i \in DOMAIN s |-> PiecesIn(c)[s[i]]]
  OBVIOUS
<1>2. PICK h : h = [i \in DOMAIN t |-> PiecesIn(c)[t[i]]]
  OBVIOUS
<1>3. PICK x : x = [i \in DOMAIN t |-> WorthIn(c)[t[i]]]
  OBVIOUS
<1>4. ASSUME NEW i \in DOMAIN s
      PROVE  f[i] \in Int /\ h[i] = f[i] /\ x[i] = a * f[i]
  <2>1. /\ f[i] = IF s[i].cat = c THEN s[i].qty ELSE 0
        /\ h[i] = IF t[i].cat = c THEN t[i].qty ELSE 0
        /\ x[i] = IF t[i].cat = c THEN t[i].qty * t[i].cost ELSE 0
    BY <1>1, <1>2, <1>3, LoadAt DEF PiecesIn, WorthIn
  <2>2. s[i].qty \in Int
    BY LoadAt DEF Challans!Line
  <2>3. a * 0 = 0 /\ s[i].qty * a = a * s[i].qty
    BY <2>2
  <2> QED BY <2>1, <2>2, <2>3
<1>5. IsFiniteSet(DOMAIN s)
  BY DomainFinite DEF Loads
<1>6. SumFunctionOnSet(h, DOMAIN s) = SumFunctionOnSet(f, DOMAIN s)
  <2>1. \A i \in DOMAIN s : h[i] = f[i]
    BY <1>4
  <2> QED BY <1>5, <2>1, SumEqual
<1>7. SumFunctionOnSet(x, DOMAIN s) = a * SumFunctionOnSet(f, DOMAIN s)
  <2>1. \A i \in DOMAIN s : f[i] \in Int /\ x[i] = a * f[i]
    BY <1>4
  <2> QED BY <1>5, <2>1, SumScaled
<1>8. /\ QtyOf(c)[s] = SumFunctionOnSet(f, DOMAIN s)
      /\ QtyOf(c)[t] = SumFunctionOnSet(h, DOMAIN s)
      /\ ValueOf(c)[t] = SumFunctionOnSet(x, DOMAIN s)
  BY <1>1, <1>2, <1>3 DEF QtyOf, ValueOf, Tally
<1>9. QtyOf(c)[s] \in Int
  BY AmountsTyped
<1>10. QtyOf(c)[s] * a = a * QtyOf(c)[s]
  BY <1>9
<1> QED BY <1>6, <1>7, <1>8, <1>10

-----------------------------------------------------------------------------
(***************************************************************************)
(* One request moves on, or one challan changes.                           *)
(***************************************************************************)
HandStep(reqs, next, w, r) ==
    \A F : Additive(F) =>
        /\ InHand(F, next) = InHand(F, reqs) - F[Challans!InHands(reqs[w])] + F[Challans!InHands(r)]
        /\ InHand(F, reqs) \in Int
        /\ F[Challans!InHands(reqs[w])] \in Int /\ F[Challans!InHands(r)] \in Int

LEMMA HaulsMove ==
    ASSUME v4 \in [Workers -> HaulRow], NEW w \in Workers, NEW r \in HaulRow,
           v4' = [v4 EXCEPT ![w] = r]
    PROVE  HandStep(v4, v4', w, r)
<1>1. PICK reqs : reqs = v4
  OBVIOUS
<1>2. PICK next : next = v4'
  OBVIOUS
<1>3. /\ reqs \in [Workers -> HaulRow] /\ next \in [Workers -> HaulRow] /\ next[w] = r
      /\ \A o \in Workers : o # w => next[o] = reqs[o]
  BY <1>1, <1>2
<1>4. \A F : Additive(F) =>
        /\ InHand(F, next) = InHand(F, reqs) - F[Challans!InHands(reqs[w])] + F[Challans!InHands(r)]
        /\ InHand(F, reqs) \in Int
  BY <1>3, HandChanged
<1>5. \A F : Additive(F) => F[Challans!InHands(reqs[w])] \in Int /\ F[Challans!InHands(r)] \in Int
  <2>1. reqs[w] \in HaulRow
    BY <1>3
  <2> QED BY <2>1, HandsTyped DEF Additive
<1>6. HandStep(reqs, next, w, r)
  BY <1>4, <1>5 DEF HandStep
<1> QED BY <1>1, <1>2, <1>6

LEMMA LeadsMove ==
    ASSUME v4 \in [Workers -> HaulRow], NEW w \in Workers, NEW r \in HaulRow,
           v4' = [v4 EXCEPT ![w] = r]
    PROVE  LeadStep(v4, v4', w, r)
<1>1. PICK reqs : reqs = v4
  OBVIOUS
<1>2. PICK next : next = v4'
  OBVIOUS
<1>3. /\ reqs \in [Workers -> HaulRow] /\ next \in [Workers -> HaulRow] /\ next[w] = r
      /\ \A o \in Workers : o # w => next[o] = reqs[o]
  BY <1>1, <1>2
<1>4. LeadStep(reqs, next, w, r)
  BY <1>3, LeadChanged
<1> QED BY <1>1, <1>2, <1>4

\* a new challan, on its way
AddedTo(cs, x, ds) ==
    /\ ds \in Seq(ChallanRow) /\ DOMAIN ds = DOMAIN cs \cup {Len(cs) + 1}
    /\ Len(cs) + 1 \notin DOMAIN cs /\ ds[Len(cs) + 1] = x
    /\ \A k \in DOMAIN cs : ds[k] = cs[k]
    /\ CentralIn(ds) = CentralIn(cs) \cup IF x.central THEN {Len(cs) + 1} ELSE {}
    /\ \A F : Additive(F) =>
         /\ OnChallans(F, ds, AwayIn(ds)) = OnChallans(F, cs, AwayIn(cs)) + F[x.items]
         /\ OnChallans(F, ds, CentralIn(ds)) =
              OnChallans(F, cs, CentralIn(cs)) + IF x.central THEN F[x.items] ELSE 0
         /\ OnChallans(F, cs, AwayIn(cs)) \in Int /\ OnChallans(F, cs, CentralIn(cs)) \in Int
         /\ F[x.items] \in Int

LEMMA ChallanAdded ==
    ASSUME NEW cs \in Seq(ChallanRow), NEW x \in ChallanRow, x.status = "in_transit",
           NEW ds, ds = Append(cs, x)
    PROVE  AddedTo(cs, x, ds)
<1>1. PICK n \in Nat : n = Len(cs)
  OBVIOUS
<1>2. /\ ds \in Seq(ChallanRow) /\ DOMAIN cs = 1 .. n /\ DOMAIN ds = (1 .. n) \cup {n + 1}
      /\ n + 1 \notin 1 .. n /\ ds[n + 1] = x /\ \A k \in 1 .. n : ds[k] = cs[k]
  BY <1>1
<1>3. AwayIn(ds) = AwayIn(cs) \cup {n + 1}
  BY <1>2 DEF AwayIn
<1>4. CentralIn(ds) = CentralIn(cs) \cup IF x.central THEN {n + 1} ELSE {}
  BY <1>2 DEF CentralIn
<1>5. /\ AwayIn(cs) \in SUBSET DOMAIN cs /\ CentralIn(cs) \in SUBSET DOMAIN cs
      /\ AwayIn(cs) \subseteq DOMAIN ds /\ CentralIn(cs) \subseteq DOMAIN ds
  BY <1>2, ChallanAt
<1>6. ASSUME NEW F, Additive(F)
      PROVE  /\ OnChallans(F, ds, AwayIn(ds)) = OnChallans(F, cs, AwayIn(cs)) + F[x.items]
             /\ OnChallans(F, ds, CentralIn(ds)) =
                  OnChallans(F, cs, CentralIn(cs)) + IF x.central THEN F[x.items] ELSE 0
             /\ OnChallans(F, cs, AwayIn(cs)) \in Int /\ OnChallans(F, cs, CentralIn(cs)) \in Int
             /\ F[x.items] \in Int
  <2>1. n + 1 \in DOMAIN ds /\ \A K \in SUBSET DOMAIN cs :
          n + 1 \notin K /\ K \subseteq DOMAIN ds /\ \A k \in K : ds[k].items = cs[k].items
    BY <1>2
  <2>2. ASSUME NEW K \in SUBSET DOMAIN cs
        PROVE  /\ OnChallans(F, ds, K \cup {n + 1}) = OnChallans(F, cs, K) + F[ds[n + 1].items]
               /\ OnChallans(F, ds, K) = OnChallans(F, cs, K)
    <3>1. ds \in Seq(ChallanRow)
      BY <1>2
    <3>2. K \subseteq DOMAIN ds /\ n + 1 \notin K /\ \A k \in K : ds[k].items = cs[k].items
      BY <2>1
    <3>3. n + 1 \in DOMAIN ds
      BY <2>1
    <3>4. OnChallans(F, ds, K \cup {n + 1}) = OnChallans(F, cs, K) + F[ds[n + 1].items]
      BY <1>6, <3>1, <3>2, <3>3, ChallanJoins
    <3>5. OnChallans(F, ds, K) = OnChallans(F, cs, K)
      BY <1>6, <3>1, <3>2, ChallansStay
    <3> QED BY <3>4, <3>5
  <2>4. \A K \in SUBSET DOMAIN cs : OnChallans(F, cs, K) \in Int
    BY <1>6, OnChallansIs
  <2>5. F[x.items] \in Int
    BY <1>6 DEF ChallanRow, Additive
  <2>6. OnChallans(F, ds, AwayIn(ds)) = OnChallans(F, cs, AwayIn(cs)) + F[x.items]
    BY <1>2, <1>3, <1>5, <2>2
  <2>7. CASE x.central
    BY <1>2, <1>4, <1>5, <2>2, <2>4, <2>5, <2>6, <2>7
  <2>8. CASE ~x.central
    <3>1. CentralIn(ds) = CentralIn(cs)
      BY <1>4, <2>8
    <3>2. PICK K \in SUBSET DOMAIN cs : K = CentralIn(cs)
      BY <1>5
    <3>3. OnChallans(F, ds, K) = OnChallans(F, cs, K) /\ OnChallans(F, cs, K) \in Int
      BY <2>2, <2>4
    <3> QED BY <1>5, <2>4, <2>5, <2>6, <2>8, <3>1, <3>2, <3>3
  <2> QED BY <2>7, <2>8
<1> QED BY <1>1, <1>2, <1>4, <1>6 DEF AddedTo

\* one of them changes
Rewritten(cs, k, x, ds) ==
    /\ ds \in Seq(ChallanRow) /\ DOMAIN ds = DOMAIN cs
    /\ \A j \in DOMAIN cs : ds[j] = IF j = k THEN x ELSE cs[j]

LEMMA RewrittenIs ==
    ASSUME NEW cs \in Seq(ChallanRow), NEW k \in DOMAIN cs, NEW x \in ChallanRow
    PROVE  Rewritten(cs, k, x, [cs EXCEPT ![k] = x])
<1>1. PICK ds : ds = [cs EXCEPT ![k] = x]
  OBVIOUS
<1>2. ds \in Seq(ChallanRow) /\ Len(ds) = Len(cs)
  BY <1>1, RunMarked
<1>3. DOMAIN ds = DOMAIN cs
  BY <1>2
<1>4. \A j \in DOMAIN cs : ds[j] = IF j = k THEN x ELSE cs[j]
  BY <1>1
<1> QED BY <1>1, <1>2, <1>3, <1>4 DEF Rewritten

\* another status
SameItems(cs, k, x, ds) ==
    /\ CentralIn(ds) = CentralIn(cs)
    /\ \A F : Additive(F) =>
         /\ OnChallans(F, ds, CentralIn(ds)) = OnChallans(F, cs, CentralIn(cs))
         /\ AwayIn(ds) = AwayIn(cs) =>
              OnChallans(F, ds, AwayIn(ds)) = OnChallans(F, cs, AwayIn(cs))
         /\ k \in AwayIn(cs) /\ AwayIn(ds) = AwayIn(cs) \ {k} =>
              OnChallans(F, ds, AwayIn(ds)) = OnChallans(F, cs, AwayIn(cs)) - F[cs[k].items]
         /\ k \notin AwayIn(cs) /\ AwayIn(ds) = AwayIn(cs) \cup {k} =>
              OnChallans(F, ds, AwayIn(ds)) = OnChallans(F, cs, AwayIn(cs)) + F[cs[k].items]
         /\ OnChallans(F, cs, AwayIn(cs)) \in Int
         /\ F[cs[k].items] \in Int

LEMMA ChallanMarked ==
    ASSUME NEW cs \in Seq(ChallanRow), NEW k \in DOMAIN cs, NEW x \in ChallanRow,
           x.items = cs[k].items, x.central = cs[k].central, NEW ds, Rewritten(cs, k, x, ds)
    PROVE  SameItems(cs, k, x, ds)
<1>1. ds \in Seq(ChallanRow) /\ DOMAIN ds = DOMAIN cs
  BY DEF Rewritten
<1>2. \A j \in DOMAIN cs : ds[j] = IF j = k THEN x ELSE cs[j]
  BY DEF Rewritten
<1>3. \A j \in DOMAIN cs : ds[j].items = cs[j].items /\ ds[j].central = cs[j].central
  BY <1>2
<1>4. CentralIn(ds) = CentralIn(cs)
  BY <1>1, <1>3 DEF CentralIn
<1>5. AwayIn(cs) \in SUBSET DOMAIN cs /\ CentralIn(cs) \in SUBSET DOMAIN cs
  BY ChallanAt
<1>6. ASSUME NEW F, Additive(F)
      PROVE  /\ OnChallans(F, ds, CentralIn(ds)) = OnChallans(F, cs, CentralIn(cs))
             /\ AwayIn(ds) = AwayIn(cs) =>
                  OnChallans(F, ds, AwayIn(ds)) = OnChallans(F, cs, AwayIn(cs))
             /\ k \in AwayIn(cs) /\ AwayIn(ds) = AwayIn(cs) \ {k} =>
                  OnChallans(F, ds, AwayIn(ds)) = OnChallans(F, cs, AwayIn(cs)) - F[cs[k].items]
             /\ k \notin AwayIn(cs) /\ AwayIn(ds) = AwayIn(cs) \cup {k} =>
                  OnChallans(F, ds, AwayIn(ds)) = OnChallans(F, cs, AwayIn(cs)) + F[cs[k].items]
             /\ OnChallans(F, cs, AwayIn(cs)) \in Int
             /\ F[cs[k].items] \in Int
  <2>1. \A K \in SUBSET DOMAIN cs : K \subseteq DOMAIN ds /\ \A j \in K : ds[j].items = cs[j].items
    BY <1>1, <1>3
  <2>0. ds \in Seq(ChallanRow)
    BY <1>1
  <2>2. ASSUME NEW K \in SUBSET DOMAIN cs PROVE OnChallans(F, ds, K) = OnChallans(F, cs, K)
    <3>1. K \subseteq DOMAIN ds /\ \A j \in K : ds[j].items = cs[j].items
      BY <2>1
    <3> QED BY <1>6, <2>0, <3>1, ChallansStay
  <2>3. OnChallans(F, cs, AwayIn(cs)) \in Int
    BY <1>5, <1>6, OnChallansIs
  <2>4. F[cs[k].items] \in Int
    BY <1>6, ChallanAt DEF Additive
  <2>5. ASSUME k \in AwayIn(cs), AwayIn(ds) = AwayIn(cs) \ {k}
        PROVE  OnChallans(F, ds, AwayIn(ds)) = OnChallans(F, cs, AwayIn(cs)) - F[cs[k].items]
    <3>1. PICK K \in SUBSET DOMAIN cs : K = AwayIn(cs)
      BY <1>5
    <3>2. k \in K /\ K \subseteq DOMAIN ds /\ \A j \in K \ {k} : ds[j].items = cs[j].items
      BY <2>1, <2>5, <3>1
    <3>3. OnChallans(F, ds, K \ {k}) = OnChallans(F, cs, K) - F[cs[k].items]
      BY <1>6, <2>0, <3>2, ChallanLeaves
    <3> QED BY <2>5, <3>1, <3>3
  <2>6. ASSUME k \notin AwayIn(cs), AwayIn(ds) = AwayIn(cs) \cup {k}
        PROVE  OnChallans(F, ds, AwayIn(ds)) = OnChallans(F, cs, AwayIn(cs)) + F[cs[k].items]
    <3>1. PICK K \in SUBSET DOMAIN cs : K = AwayIn(cs)
      BY <1>5
    <3>2. k \notin K /\ k \in DOMAIN ds /\ K \subseteq DOMAIN ds /\ \A j \in K : ds[j].items = cs[j].items
      BY <1>1, <2>1, <2>6, <3>1
    <3>3. OnChallans(F, ds, K \cup {k}) = OnChallans(F, cs, K) + F[ds[k].items]
      BY <1>6, <2>0, <3>2, ChallanJoins
    <3>4. ds[k].items = cs[k].items
      BY <1>3
    <3> QED BY <2>6, <3>1, <3>3, <3>4
  <2> QED BY <1>4, <1>5, <2>2, <2>3, <2>4, <2>5, <2>6
<1> QED BY <1>4, <1>6 DEF SameItems

\* another line
ExtendedBy(cs, k, l, ds) ==
    /\ \A j \in DOMAIN cs : ds[j].central = cs[j].central /\ ds[j].status = cs[j].status
    /\ CentralIn(ds) = CentralIn(cs)
    /\ \A F : Additive(F) =>
         /\ k \in CentralIn(cs) => OnChallans(F, ds, CentralIn(ds)) =
                                     OnChallans(F, cs, CentralIn(cs)) + F[<<l>>]
         /\ OnChallans(F, ds, AwayIn(ds)) =
              OnChallans(F, cs, AwayIn(cs)) + IF k \in AwayIn(cs) THEN F[<<l>>] ELSE 0
         /\ OnChallans(F, cs, AwayIn(cs)) \in Int /\ OnChallans(F, cs, CentralIn(cs)) \in Int
         /\ F[<<l>>] \in Int

LEMMA ChallanExtended ==
    ASSUME NEW cs \in Seq(ChallanRow), NEW k \in DOMAIN cs, NEW l \in Challans!Line,
           NEW x \in ChallanRow, x.items = Append(cs[k].items, l), x.central = cs[k].central,
           x.status = cs[k].status, NEW ds, Rewritten(cs, k, x, ds)
    PROVE  ExtendedBy(cs, k, l, ds)
<1>3. ds \in Seq(ChallanRow) /\ DOMAIN ds = DOMAIN cs
  BY DEF Rewritten
<1>4. \A j \in DOMAIN cs : ds[j] = IF j = k THEN x ELSE cs[j]
  BY DEF Rewritten
<1>5. \A j \in DOMAIN cs : ds[j].central = cs[j].central /\ ds[j].status = cs[j].status
  BY <1>4
<1>6. CentralIn(ds) = CentralIn(cs) /\ AwayIn(ds) = AwayIn(cs)
  BY <1>3, <1>5 DEF CentralIn, AwayIn
<1>7. AwayIn(cs) \in SUBSET DOMAIN cs /\ CentralIn(cs) \in SUBSET DOMAIN cs
  BY ChallanAt
<1>8. ASSUME NEW F, Additive(F), NEW K \in SUBSET DOMAIN cs
      PROVE  OnChallans(F, ds, K) = OnChallans(F, cs, K) + (IF k \in K THEN F[<<l>>] ELSE 0)
             /\ OnChallans(F, cs, K) \in Int /\ F[<<l>>] \in Int
  <2>1. OnChallans(F, cs, K) \in Int
    BY <1>8, OnChallansIs
  <2>2. K \subseteq DOMAIN ds /\ \A j \in K \ {k} : ds[j].items = cs[j].items
    BY <1>3, <1>4
  <2>3. ds[k].items = Append(cs[k].items, l)
    BY <1>4
  <2>0. ds \in Seq(ChallanRow)
    BY <1>3
  <2>6. F[<<l>>] \in Int
    <3>1. <<l>> \in Loads
      BY DEF Loads
    <3> QED BY <1>8, <3>1 DEF Additive
  <2>4. CASE k \in K
    <3>1. OnChallans(F, ds, K) = OnChallans(F, cs, K) + F[<<l>>]
      BY <1>8, <2>0, <2>2, <2>3, <2>4, ChallanGrows
    <3> QED BY <2>1, <2>4, <2>6, <3>1
  <2>5. CASE k \notin K
    <3>1. \A j \in K : ds[j].items = cs[j].items
      BY <2>2, <2>5
    <3>2. OnChallans(F, ds, K) = OnChallans(F, cs, K)
      BY <1>8, <2>0, <2>2, <3>1, ChallansStay
    <3> QED BY <2>1, <2>5, <2>6, <3>2
  <2> QED BY <2>4, <2>5
<1>9. \A F : Additive(F) =>
        /\ k \in CentralIn(cs) => OnChallans(F, ds, CentralIn(ds)) =
                                    OnChallans(F, cs, CentralIn(cs)) + F[<<l>>]
        /\ OnChallans(F, ds, AwayIn(ds)) =
             OnChallans(F, cs, AwayIn(cs)) + IF k \in AwayIn(cs) THEN F[<<l>>] ELSE 0
        /\ OnChallans(F, cs, AwayIn(cs)) \in Int /\ OnChallans(F, cs, CentralIn(cs)) \in Int
        /\ F[<<l>>] \in Int
  BY <1>6, <1>7, <1>8
<1> QED BY <1>5, <1>6, <1>9 DEF ExtendedBy

-----------------------------------------------------------------------------
(***************************************************************************)
(* What is outstanding, and what is held.                                  *)
(***************************************************************************)
LEMMA OutstandingIs ==
    ASSUME TransType
    PROVE  \A F : Additive(F) => /\ OnChallans(F, v2, AwayIn(v2)) \in Int
                                 /\ OnChallans(F, v2, CentralIn(v2)) \in Int
                                 /\ InHand(F, v4) \in Int /\ Outstanding(F, v2, v4) \in Int
<1>1. PICK cs \in Seq(ChallanRow) : cs = v2
  BY DEF TransType
<1>2. PICK reqs \in [Workers -> HaulRow] : reqs = v4
  BY DEF TransType
<1>3. AwayIn(cs) \in SUBSET DOMAIN cs /\ CentralIn(cs) \in SUBSET DOMAIN cs
  BY ChallanAt
<1>4. ASSUME NEW F, Additive(F)
      PROVE  OnChallans(F, cs, AwayIn(cs)) \in Int /\ OnChallans(F, cs, CentralIn(cs)) \in Int
  BY <1>3, <1>4, OnChallansIs
<1>5. ASSUME NEW F, Additive(F) PROVE InHand(F, reqs) \in Int
  <2>1. PICK f : f = [w \in Workers |-> F[Challans!InHands(reqs[w])]]
    OBVIOUS
  <2>2. \A w \in Workers : f[w] \in Int
    BY <1>5, <2>1, HandsTyped DEF Additive
  <2>3. SumFunctionOnSet(f, Workers) \in Int
    BY <2>2, PartsAssumption, SumType
  <2> QED BY <2>1, <2>3 DEF InHand
<1> QED BY <1>1, <1>2, <1>4, <1>5 DEF Outstanding

LEMMA HeldTyped == TransType => \A c \in Goods : /\ QtyHeld(c) \in Int /\ ValueHeld(c) \in Int
                                                /\ v6[c].qty \in Int /\ v6[c].value \in Int
                                                /\ v1[c].qty \in Int /\ v1[c].value \in Int
<1> SUFFICES ASSUME TransType, NEW c \in Goods
             PROVE  /\ QtyHeld(c) \in Int /\ ValueHeld(c) \in Int
                    /\ v6[c].qty \in Int /\ v6[c].value \in Int
                    /\ v1[c].qty \in Int /\ v1[c].value \in Int
  OBVIOUS
<1>1. Outstanding(QtyOf(c), v2, v4) \in Int /\ Outstanding(ValueOf(c), v2, v4) \in Int
  BY AmountsAdditive, OutstandingIs
<1>2. v1[c].qty \in Int /\ v1[c].value \in Int /\ v6[c].qty \in Int /\ v6[c].value \in Int
  BY DEF TransType, PoolRow, BookRow
<1> QED BY <1>1, <1>2 DEF QtyHeld, ValueHeld

\* what becomes of a category: b pieces worth x are entered, q pieces and the value v
\* appear or vanish, and there is a mark for it
LEMMA GoodMoves ==
    ASSUME TransType, NEW c \in Goods, GoodOk(c), v8 \subseteq v8',
           NEW b \in Int, NEW x \in Int, NEW q \in Int, NEW v \in Int,
           QtyHeld(c)' = QtyHeld(c) + b + q, v6'[c].qty = v6[c].qty + b,
           ValueHeld(c)' = ValueHeld(c) + x + v, v6'[c].value = v6[c].value + x,
           q > 0 => Challans!Doubled(c)', q < 0 => Challans!Missed(c)',
           v # 0 => Challans!Doubled(c)' \/ Challans!Missed(c)' \/ Challans!Revalued(c)'
    PROVE  GoodOk(c)'
<1>1. /\ Challans!Doubled(c) => Challans!Doubled(c)'
      /\ Challans!Missed(c) => Challans!Missed(c)'
      /\ Challans!Revalued(c) => Challans!Revalued(c)'
  BY DEF Challans!Doubled, Challans!Missed, Challans!Revalued
<1>2. QtyHeld(c) \in Int /\ ValueHeld(c) \in Int /\ v6[c].qty \in Int /\ v6[c].value \in Int
  BY HeldTyped
<1>3. ASSUME ~Challans!Doubled(c)' PROVE QtyHeld(c)' <= v6'[c].qty
  <2>1. QtyHeld(c) <= v6[c].qty /\ ~(q > 0)
    BY <1>1, <1>3 DEF GoodOk
  <2> QED BY <1>2, <2>1
<1>4. ASSUME ~Challans!Missed(c)' PROVE QtyHeld(c)' >= v6'[c].qty
  <2>1. QtyHeld(c) >= v6[c].qty /\ ~(q < 0)
    BY <1>1, <1>4 DEF GoodOk
  <2> QED BY <1>2, <2>1
<1>5. ASSUME ~(Challans!Doubled(c)' \/ Challans!Missed(c)' \/ Challans!Revalued(c)')
      PROVE  v6'[c].value = ValueHeld(c)'
  <2>1. v6[c].value = ValueHeld(c) /\ v = 0
    BY <1>1, <1>5 DEF GoodOk
  <2> QED BY <1>2, <2>1
<1> QED BY <1>3, <1>4, <1>5 DEF GoodOk

\* nothing appears or vanishes
LEMMA GoodHolds ==
    ASSUME TransType, NEW c \in Goods, GoodOk(c), v8 \subseteq v8', v6'[c] = v6[c],
           QtyHeld(c)' = QtyHeld(c), ValueHeld(c)' = ValueHeld(c)
    PROVE  GoodOk(c)'
<1>1. QtyHeld(c) \in Int /\ ValueHeld(c) \in Int /\ v6[c].qty \in Int /\ v6[c].value \in Int
  BY HeldTyped
<1>2. /\ QtyHeld(c)' = QtyHeld(c) + 0 + 0 /\ v6'[c].qty = v6[c].qty + 0
      /\ ValueHeld(c)' = ValueHeld(c) + 0 + 0 /\ v6'[c].value = v6[c].value + 0
  BY <1>1
<1>3. ~(0 > 0) /\ ~(0 < 0) /\ 0 \in Int
  OBVIOUS
<1> QED BY <1>2, <1>3, GoodMoves

LEMMA MarksGrow ==
    ASSUME NEW cause, NEW s \in Loads
    PROVE  /\ v8 \subseteq Challans!Marked(cause, s)
           /\ \A c : (\E i \in DOMAIN s : s[i].cat = c) => <<cause, c>> \in Challans!Marked(cause, s)
BY DEF Challans!Marked

(***************************************************************************)
(* The rows of a purchase.                                                 *)
(***************************************************************************)
LEMMA ListedTyped ==
    ASSUME NEW rows \in Seq(BoughtRow), HasLast(rows), NEW c \in Goods
    PROVE  /\ CatRow(rows, c) \in BoughtRow
           /\ CatRow(rows, c).qty \in Int /\ CatRow(rows, c).remaining \in Int
           /\ CatRow(rows, c).cost \in Int
<1>1. CatRow(rows, c) \in BoughtRow
  <2>1. CASE RowsFor(rows, c) = {}
    BY <2>1 DEF CatRow, NoCatRow, BoughtRow
  <2>2. CASE RowsFor(rows, c) # {}
    <3>1. PICK i \in DOMAIN rows : i = LastFor(rows, c)
      BY <2>2 DEF HasLast, RowsFor
    <3>2. rows[i] \in BoughtRow
      OBVIOUS
    <3> QED BY <2>2, <3>1, <3>2 DEF CatRow
  <2> QED BY <2>1, <2>2
<1>2. PICK l \in BoughtRow : l = CatRow(rows, c)
  BY <1>1
<1> QED BY <1>2 DEF BoughtRow

Extended(rows, x, more) ==
    /\ more \in Seq(BoughtRow) /\ HasLast(more)
    /\ \A c \in Goods : CatRow(more, c) = IF c = x.cat THEN x ELSE CatRow(rows, c)
    /\ \A i \in DOMAIN more : more[i] = x \/ (i \in DOMAIN rows /\ more[i] = rows[i])

LEMMA ListedAdded ==
    ASSUME NEW rows \in Seq(BoughtRow), HasLast(rows), NEW x \in BoughtRow, NEW more,
           more = Append(rows, x)
    PROVE  Extended(rows, x, more)
<1>0. SUFFICES /\ more \in Seq(BoughtRow) /\ HasLast(more)
               /\ \A c \in Goods : CatRow(more, c) = IF c = x.cat THEN x ELSE CatRow(rows, c)
               /\ \A i \in DOMAIN more : more[i] = x \/ (i \in DOMAIN rows /\ more[i] = rows[i])
  BY DEF Extended
<1>1. PICK n \in Nat : n = Len(rows)
  OBVIOUS
<1>2. /\ more \in Seq(BoughtRow) /\ DOMAIN rows = 1 .. n /\ DOMAIN more = 1 .. (n + 1)
      /\ more[n + 1] = x /\ \A i \in 1 .. n : more[i] = rows[i]
  BY <1>1
<1>3. \A i \in DOMAIN more : more[i] = x \/ (i \in DOMAIN rows /\ more[i] = rows[i])
  BY <1>2
<1>4. ASSUME NEW c, c # x.cat PROVE RowsFor(more, c) = RowsFor(rows, c)
  BY <1>2, <1>4 DEF RowsFor
<1>5. LastFor(more, x.cat) = n + 1 /\ n + 1 \in RowsFor(more, x.cat)
  <2>1. PICK S : S = RowsFor(more, x.cat)
    OBVIOUS
  <2>2. n + 1 \in S /\ \A j \in S : j \in Int /\ j <= n + 1
    BY <1>2, <2>1 DEF RowsFor
  <2>3. \A i \in S : (\A j \in S : j <= i) => i = n + 1
    BY <2>2
  <2>4. (CHOOSE i \in S : \A j \in S : j <= i) = n + 1
    BY <2>2, <2>3
  <2> QED BY <2>1, <2>2, <2>4 DEF LastFor
<1>6. HasLast(more)
  <2> SUFFICES ASSUME NEW c, RowsFor(more, c) # {} PROVE LastFor(more, c) \in RowsFor(more, c)
    BY DEF HasLast
  <2>1. CASE c = x.cat
    BY <1>5, <2>1
  <2>2. CASE c # x.cat
    <3>1. LastFor(more, c) = LastFor(rows, c)
      BY <1>4, <2>2 DEF LastFor
    <3> QED BY <1>4, <2>2, <3>1 DEF HasLast
  <2> QED BY <2>1, <2>2
<1>7. ASSUME NEW c \in Goods PROVE CatRow(more, c) = IF c = x.cat THEN x ELSE CatRow(rows, c)
  <2>1. CASE c = x.cat
    BY <1>2, <1>5, <2>1 DEF CatRow
  <2>2. CASE c # x.cat
    <3>1. RowsFor(more, c) = RowsFor(rows, c) /\ LastFor(more, c) = LastFor(rows, c)
      BY <1>4, <2>2 DEF LastFor
    <3>2. CASE RowsFor(rows, c) = {}
      BY <2>2, <3>1, <3>2 DEF CatRow
    <3>3. CASE RowsFor(rows, c) # {}
      <4>1. LastFor(rows, c) \in 1 .. n
        BY <1>2, <3>3 DEF HasLast, RowsFor
      <4> QED BY <1>2, <2>2, <3>1, <3>3, <4>1 DEF CatRow
    <3> QED BY <3>2, <3>3
  <2> QED BY <2>1, <2>2
<1> QED BY <1>2, <1>3, <1>6, <1>7

LEMMA RowsAre ==
    ASSUME NEW rows, rows = v3.items, NEW c
    PROVE  /\ Challans!RowsOf(c) = RowsFor(rows, c)
           /\ RowsFor(rows, c) = {} => CatRow(rows, c).qty = 0
           /\ RowsFor(rows, c) # {} => Challans!LastRow(c) = CatRow(rows, c)
<1>1. Challans!RowsOf(c) = RowsFor(rows, c)
  BY DEF Challans!RowsOf, RowsFor
<1>2. Challans!LastOf(c) = LastFor(rows, c)
  BY <1>1 DEF Challans!LastOf, LastFor
<1>3. RowsFor(rows, c) = {} => CatRow(rows, c).qty = 0
  BY DEF CatRow, NoCatRow
<1> QED BY <1>1, <1>2, <1>3 DEF Challans!LastRow, CatRow

\* every row of the category goes down by the line
LEMMA ListedDrawn ==
    ASSUME NEW rows \in Seq(BoughtRow), HasLast(rows), NEW l \in Challans!Line, NEW less,
           less = Challans!Drawn(rows, l)
    PROVE  /\ less \in Seq(BoughtRow) /\ HasLast(less) /\ DOMAIN less = DOMAIN rows
           /\ \A i \in DOMAIN rows :
                /\ less[i].cat = rows[i].cat /\ less[i].qty = rows[i].qty
                /\ less[i].remaining = rows[i].remaining - IF rows[i].cat = l.cat THEN l.qty ELSE 0
           /\ \A c \in Goods :
                /\ CatRow(less, c).qty = CatRow(rows, c).qty
                /\ CatRow(less, c).remaining = CatRow(rows, c).remaining
                                                 - IF c = l.cat /\ RowsFor(rows, c) # {} THEN l.qty ELSE 0
<1>1. PICK n \in Nat : n = Len(rows)
  OBVIOUS
<1>2. DOMAIN rows = 1 .. n /\ \A i \in 1 .. n : rows[i] \in BoughtRow
  BY <1>1
<1>3. l.qty \in Int
  BY DEF Challans!Line
<1>4. less = [i \in 1 .. n |-> IF rows[i].cat = l.cat
                               THEN [rows[i] EXCEPT !.remaining = @ - l.qty] ELSE rows[i]]
  BY <1>2 DEF Challans!Drawn
<1>5. ASSUME NEW i \in 1 .. n
      PROVE  /\ less[i] \in BoughtRow /\ less[i].cat = rows[i].cat /\ less[i].qty = rows[i].qty
             /\ less[i].remaining = rows[i].remaining - IF rows[i].cat = l.cat THEN l.qty ELSE 0
  <2>1. PICK y \in BoughtRow : y = rows[i]
    BY <1>2
  <2>2. less[i] = IF y.cat = l.cat THEN [y EXCEPT !.remaining = y.remaining - l.qty] ELSE y
    BY <1>4, <2>1
  <2>3. y.remaining \in Int /\ y.remaining - l.qty \in Int
    BY <1>3 DEF BoughtRow
  <2>4. CASE y.cat = l.cat
    BY <1>3, <2>1, <2>2, <2>3, <2>4 DEF BoughtRow
  <2>5. CASE y.cat # l.cat
    BY <2>1, <2>2, <2>3, <2>5
  <2> QED BY <2>4, <2>5
<1>6. less \in Seq(BoughtRow) /\ DOMAIN less = 1 .. n
  <2>1. less \in [1 .. n -> BoughtRow]
    BY <1>4, <1>5
  <2> QED BY <2>1
<1>7. \A c : RowsFor(less, c) = RowsFor(rows, c)
  BY <1>2, <1>5, <1>6 DEF RowsFor
<1>8. \A c : LastFor(less, c) = LastFor(rows, c)
  BY <1>7 DEF LastFor
<1>9. HasLast(less)
  BY <1>7, <1>8 DEF HasLast
<1>10. ASSUME NEW c \in Goods
       PROVE  /\ CatRow(less, c).qty = CatRow(rows, c).qty
              /\ CatRow(less, c).remaining = CatRow(rows, c).remaining
                                               - IF c = l.cat /\ RowsFor(rows, c) # {} THEN l.qty ELSE 0
  <2>1. CASE RowsFor(rows, c) = {}
    <3>1. CatRow(less, c) = CatRow(rows, c)
      BY <1>7, <2>1 DEF CatRow
    <3>2. CatRow(rows, c).remaining \in Int
      BY ListedTyped
    <3> QED BY <2>1, <3>1, <3>2
  <2>2. CASE RowsFor(rows, c) # {}
    <3>1. PICK i \in 1 .. n : i = LastFor(rows, c) /\ rows[i].cat = c
      BY <1>2, <2>2 DEF HasLast, RowsFor
    <3>2. CatRow(less, c) = less[i] /\ CatRow(rows, c) = rows[i]
      BY <1>7, <1>8, <2>2, <3>1 DEF CatRow
    <3> QED BY <1>5, <2>2, <3>1, <3>2
  <2> QED BY <2>1, <2>2
<1> QED BY <1>2, <1>5, <1>6, <1>9, <1>10

-----------------------------------------------------------------------------
(***************************************************************************)
(* What the invariant means, and where it starts.                          *)
(***************************************************************************)
LEMMA TransMeans == TransInv => Challans!Accounted /\ Challans!PurchaseFollowsChallans
<1> SUFFICES ASSUME TransInv PROVE Challans!Accounted /\ Challans!PurchaseFollowsChallans
  OBVIOUS
<1>1. PICK cs \in Seq(ChallanRow) : cs = v2
  BY DEF TransInv, TransType
<1>2. PICK reqs \in [Workers -> HaulRow] : reqs = v4
  BY DEF TransInv, TransType
<1>3. ASSUME NEW c
      PROVE  /\ [k \in DOMAIN v2 |-> Challans!Pieces(v2[k].items, c)]
                   = [k \in DOMAIN cs |-> QtyOf(c)[cs[k].items]]
             /\ [k \in DOMAIN v2 |-> Challans!Worth(v2[k].items, c)]
                   = [k \in DOMAIN cs |-> ValueOf(c)[cs[k].items]]
             /\ [w \in Workers |-> Challans!Pieces(Challans!InHands(v4[w]), c)]
                   = [w \in Workers |-> QtyOf(c)[Challans!InHands(reqs[w])]]
             /\ [w \in Workers |-> Challans!Worth(Challans!InHands(v4[w]), c)]
                   = [w \in Workers |-> ValueOf(c)[Challans!InHands(reqs[w])]]
  <2>1. \A k \in DOMAIN cs : cs[k].items \in Loads
    BY ChallanAt
  <2>2. \A w \in Workers : Challans!InHands(reqs[w]) \in Loads
    BY HandsTyped
  <2>3. \A k \in DOMAIN cs : /\ Challans!Pieces(cs[k].items, c) = QtyOf(c)[cs[k].items]
                             /\ Challans!Worth(cs[k].items, c) = ValueOf(c)[cs[k].items]
    BY <2>1, PiecesAre
  <2>4. \A w \in Workers :
          /\ Challans!Pieces(Challans!InHands(reqs[w]), c) = QtyOf(c)[Challans!InHands(reqs[w])]
          /\ Challans!Worth(Challans!InHands(reqs[w]), c) = ValueOf(c)[Challans!InHands(reqs[w])]
    BY <2>2, PiecesAre
  <2> QED BY <1>1, <1>2, <2>3, <2>4
<1>4. Challans!Away = AwayIn(cs)
  BY <1>1 DEF Challans!Away, AwayIn
<1>5. ASSUME NEW c \in Goods
      PROVE  /\ QtyHeld(c) = v1[c].qty + Challans!Outside(LAMBDA lines : Challans!Pieces(lines, c))
             /\ ValueHeld(c) = v1[c].value + Challans!Outside(LAMBDA lines : Challans!Worth(lines, c))
  <2>1. Challans!Outside(LAMBDA lines : Challans!Pieces(lines, c))
          = Challans!SumFunctionOnSet([k \in DOMAIN v2 |-> Challans!Pieces(v2[k].items, c)], Challans!Away)
              + Challans!SumFunction([w \in Workers |-> Challans!Pieces(Challans!InHands(v4[w]), c)])
    BY DEF Challans!Outside
  <2>2. Challans!Outside(LAMBDA lines : Challans!Worth(lines, c))
          = Challans!SumFunctionOnSet([k \in DOMAIN v2 |-> Challans!Worth(v2[k].items, c)], Challans!Away)
              + Challans!SumFunction([w \in Workers |-> Challans!Worth(Challans!InHands(v4[w]), c)])
    BY DEF Challans!Outside
  <2>3. Challans!SumFunctionOnSet([k \in DOMAIN cs |-> QtyOf(c)[cs[k].items]], AwayIn(cs))
          = OnChallans(QtyOf(c), cs, AwayIn(cs))
    BY ChallanSums DEF OnChallans
  <2>4. Challans!SumFunctionOnSet([k \in DOMAIN cs |-> ValueOf(c)[cs[k].items]], AwayIn(cs))
          = OnChallans(ValueOf(c), cs, AwayIn(cs))
    BY ChallanSums DEF OnChallans
  <2>5. Challans!SumFunction([w \in Workers |-> QtyOf(c)[Challans!InHands(reqs[w])]]) = InHand(QtyOf(c), reqs)
    <3>1. PICK f : f = [w \in Workers |-> QtyOf(c)[Challans!InHands(reqs[w])]]
      OBVIOUS
    <3>2. DOMAIN f = Workers
      BY <3>1
    <3> QED BY <3>1, <3>2, ChallanSum DEF InHand
  <2>6. Challans!SumFunction([w \in Workers |-> ValueOf(c)[Challans!InHands(reqs[w])]]) = InHand(ValueOf(c), reqs)
    <3>1. PICK f : f = [w \in Workers |-> ValueOf(c)[Challans!InHands(reqs[w])]]
      OBVIOUS
    <3>2. DOMAIN f = Workers
      BY <3>1
    <3> QED BY <3>1, <3>2, ChallanSum DEF InHand
  <2>7. /\ Challans!Outside(LAMBDA lines : Challans!Pieces(lines, c)) = Outstanding(QtyOf(c), cs, reqs)
        /\ Challans!Outside(LAMBDA lines : Challans!Worth(lines, c)) = Outstanding(ValueOf(c), cs, reqs)
    BY <1>3, <1>4, <2>1, <2>2, <2>3, <2>4, <2>5, <2>6 DEF Outstanding
  <2> QED BY <1>1, <1>2, <2>7 DEF QtyHeld, ValueHeld
<1>6. Challans!Accounted
  BY <1>5 DEF Challans!Accounted, TransInv, GoodsOk, GoodOk
<1>7. PICK rows \in Seq(BoughtRow) : rows = v3.items /\ HasLast(rows)
  BY DEF TransInv, TransType, BoughtRows
<1>8. ASSUME ~v7, NEW c \in Goods
      PROVE  /\ Challans!SentFrom(c) \in Int
             /\ Challans!SentFrom(c) <= CatRow(rows, c).qty
             /\ CatRow(rows, c).qty - CatRow(rows, c).remaining <= Challans!SentFrom(c)
             /\ ~Challans!Overlaps =>
                  CatRow(rows, c).qty - CatRow(rows, c).remaining = Challans!SentFrom(c)
  <2>1. PICK s : s = OnChallans(QtyOf(c), cs, CentralIn(cs))
    OBVIOUS
  <2>2. Challans!SentFrom(c) = s
    <3>1. Challans!SentFrom(c) =
            Challans!SumFunctionOnSet([k \in DOMAIN v2 |-> Challans!Pieces(v2[k].items, c)],
                                      {k \in DOMAIN v2 : v2[k].central})
      BY DEF Challans!SentFrom
    <3>2. {k \in DOMAIN v2 : v2[k].central} = CentralIn(cs)
      BY <1>1 DEF CentralIn
    <3>3. Challans!SumFunctionOnSet([k \in DOMAIN cs |-> QtyOf(c)[cs[k].items]], CentralIn(cs)) = s
      BY <2>1, ChallanSums DEF OnChallans
    <3> QED BY <1>3, <3>1, <3>2, <3>3
  <2>3. PICK m, n, x, y : /\ m = CatRow(rows, c).remaining /\ n = CatRow(rows, c).qty
                          /\ x = Leads(reqs, c) /\ y = Pledges(reqs, c)
    OBVIOUS
  <2>4. m + s = n + x /\ y <= m
    BY <1>1, <1>2, <1>7, <1>8, <2>1, <2>3 DEF TransInv, PurchaseOk, Fitting
  <2>5. m \in Int /\ n \in Int
    BY <1>7, <2>3, ListedTyped
  <2>6. s \in Int
    BY <1>1, <2>1, AmountsAdditive, OutstandingIs DEF TransInv
  <2>7. x \in Nat /\ y \in Nat /\ x <= y
    <3>1. \A w \in Workers : reqs[w].at = "items" => QtyOf(c)[reqs[w].todo] <= QtyOf(c)[reqs[w].done]
      BY <1>2 DEF TransInv, HaulsOk, Ready
    <3> QED BY <2>3, <3>1, LeadsWithinPledges
  <2>8. ~Challans!Overlaps => x = 0
    <3> SUFFICES ASSUME ~Challans!Overlaps PROVE x = 0
      OBVIOUS
    <3>1. \A w \in Workers : reqs[w].at \notin {"ship", "items", "remain"}
      BY <1>2 DEF Challans!Overlaps, Challans!OnPurchase
    <3> QED BY <2>3, <3>1, NobodyLeads
  <2>9. s <= n /\ n - m <= s /\ (~Challans!Overlaps => n - m = s)
    <3>1. s <= n /\ n - m <= s
      BY <2>4, <2>5, <2>6, <2>7
    <3>2. ASSUME ~Challans!Overlaps PROVE n - m = s
      <4>1. x = 0
        BY <2>8, <3>2
      <4> QED BY <2>4, <2>5, <2>6, <4>1
    <3> QED BY <3>1, <3>2
  <2> QED BY <2>2, <2>3, <2>6, <2>9
<1>9. ASSUME NEW c
      PROVE  /\ Challans!RowsOf(c) = RowsFor(rows, c)
             /\ RowsFor(rows, c) = {} => CatRow(rows, c).qty = 0
             /\ RowsFor(rows, c) # {} => Challans!LastRow(c) = CatRow(rows, c)
  BY <1>7, RowsAre
<1>10. Challans!PurchaseFollowsChallans
  <2> SUFFICES ASSUME ~v7
               PROVE  /\ \A c \in Goods : Challans!SentFrom(c) <=
                           IF Challans!RowsOf(c) = {} THEN 0 ELSE Challans!LastRow(c).qty
                      /\ \A i \in DOMAIN v3.items :
                           /\ ~Challans!Overlaps => v3.items[i].remaining =
                                v3.items[i].qty - Challans!SentFrom(v3.items[i].cat)
                           /\ v3.status = "distributed" =>
                                v3.items[i].qty <= Challans!SentFrom(v3.items[i].cat)
    BY DEF Challans!PurchaseFollowsChallans
  <2>1. ASSUME NEW c \in Goods
        PROVE  Challans!SentFrom(c) <= IF Challans!RowsOf(c) = {} THEN 0 ELSE Challans!LastRow(c).qty
    <3>1. Challans!SentFrom(c) <= CatRow(rows, c).qty
      BY <1>8
    <3>2. CASE RowsFor(rows, c) = {}
      BY <1>9, <3>1, <3>2
    <3>3. CASE RowsFor(rows, c) # {}
      BY <1>9, <3>1, <3>3
    <3> QED BY <3>2, <3>3
  <2>2. ASSUME NEW i \in DOMAIN rows
        PROVE  /\ ~Challans!Overlaps => rows[i].remaining =
                     rows[i].qty - Challans!SentFrom(rows[i].cat)
               /\ v3.status = "distributed" => rows[i].qty <= Challans!SentFrom(rows[i].cat)
    <3>1. PICK y \in BoughtRow : y = rows[i]
      OBVIOUS
    <3>2. PICK s : s = Challans!SentFrom(y.cat)
      OBVIOUS
    <3>3. PICK z : z = CatRow(rows, y.cat)
      OBVIOUS
    <3>4. y.qty \in Int /\ y.remaining \in Int /\ y.cat \in Goods
      BY DEF BoughtRow
    <3>5. z.qty \in Int /\ z.remaining \in Int
      BY <1>7, <3>3, <3>4, ListedTyped
    <3>6. /\ s \in Int /\ z.qty - z.remaining <= s
          /\ ~Challans!Overlaps => z.qty - z.remaining = s
      BY <1>8, <3>2, <3>3, <3>4
    <3>7. y.qty - y.remaining = z.qty - z.remaining
      BY <1>7, <3>1, <3>3 DEF TransInv, PurchaseOk, Alike
    <3>8. v3.status = "distributed" => y.remaining <= 0
      BY <1>7, <3>1 DEF TransInv, PurchaseOk, Spent
    <3>9. ASSUME ~Challans!Overlaps PROVE y.remaining = y.qty - s
      <4>1. z.qty - z.remaining = s
        BY <3>6, <3>9
      <4> QED BY <3>4, <3>5, <3>6, <3>7, <4>1
    <3>10. ASSUME v3.status = "distributed" PROVE y.qty <= s
      <4>1. y.remaining <= 0
        BY <3>8, <3>10
      <4> QED BY <3>4, <3>5, <3>6, <3>7, <4>1
    <3> QED BY <3>1, <3>2, <3>9, <3>10
  <2> QED BY <1>7, <2>1, <2>2
<1> QED BY <1>6, <1>10

LEMMA IdleHaul == /\ Challans!idle \in HaulRow /\ Challans!idle.at = "idle"
                   /\ Challans!idle.todo = <<>> /\ Challans!idle.done = <<>>
                   /\ Challans!InHands(Challans!idle) = <<>>
BY DEF Challans!idle, HaulRow, Loads, Challans!InHands

LEMMA TransStart == Challans!Init => TransInv
<1> SUFFICES ASSUME Challans!Init PROVE TransInv
  OBVIOUS
<1>4. /\ v1 = Shelf /\ v2 = <<>> /\ v3 = [status |-> "none", items |-> <<>>]
      /\ v4 = [w \in Workers |-> Challans!idle] /\ v7 = FALSE
      /\ v6 = [c \in Goods |-> [qty |-> Shelf[c].qty, value |-> Shelf[c].value]]
  BY DEF Challans!Init
<1>5. \A c \in Goods : Shelf[c].qty \in Int /\ Shelf[c].value \in Int
  BY TransfersAssumption
<1>6. Shelf \in [Goods -> PoolRow]
  BY TransfersAssumption DEF PoolRow
<1>7. /\ v3 \in BoughtRows /\ v3.status = "none" /\ DOMAIN v3.items = {}
      /\ \A c : RowsFor(v3.items, c) = {} /\ CatRow(v3.items, c) = NoCatRow(c)
  <2>1. v3.items = <<>> /\ v3.status = "none" /\ v3.items \in Seq(BoughtRow) /\ DOMAIN v3.items = {}
    BY <1>4
  <2>2. \A c : RowsFor(v3.items, c) = {}
    BY <2>1 DEF RowsFor
  <2> QED BY <1>4, <2>1, <2>2 DEF CatRow, BoughtRows
<1>8. TransType
  <2>1. v6 \in [Goods -> BookRow]
    BY <1>4, <1>5 DEF BookRow
  <2>2. v4 \in [Workers -> HaulRow]
    BY <1>4, IdleHaul
  <2>3. v1 \in [Goods -> PoolRow] /\ v7 \in BOOLEAN
    BY <1>4, <1>6
  <2>4. v2 \in Seq(ChallanRow)
    BY <1>4
  <2>5. HasLast(v3.items)
    BY <1>7 DEF HasLast
  <2> QED BY <1>7, <2>1, <2>2, <2>3, <2>4, <2>5 DEF TransType
<1>9. \A w \in Workers : v4[w] = Challans!idle
  BY <1>4
<1>10. HaulsOk
  BY <1>4, <1>9, IdleHaul DEF HaulsOk, Ready
<1>11. AwayIn(v2) = {} /\ CentralIn(v2) = {}
  BY <1>4 DEF AwayIn, CentralIn
<1>12. \A F : OnChallans(F, v2, {}) = 0
  BY SumEmpty DEF OnChallans
<1>13. ASSUME NEW F, Additive(F) PROVE InHand(F, v4) = 0
  <2>1. PICK f : f = [w \in Workers |-> F[Challans!InHands(v4[w])]]
    OBVIOUS
  <2>2. \A w \in Workers : f[w] = 0
    BY <1>9, <1>13, <2>1, IdleHaul DEF Additive
  <2>3. SumFunctionOnSet(f, Workers) = 0
    BY <2>2, PartsAssumption, SumZero
  <2> QED BY <2>1, <2>3 DEF InHand
<1>14. GoodsOk
  <2>1. \A c : Outstanding(QtyOf(c), v2, v4) = 0 /\ Outstanding(ValueOf(c), v2, v4) = 0
    BY <1>11, <1>12, <1>13, AmountsAdditive DEF Outstanding
  <2>2. \A c \in Goods : v6[c].qty = v1[c].qty /\ v6[c].value = v1[c].value
                         /\ v1[c].qty \in Int /\ v1[c].value \in Int
    BY <1>4, <1>5
  <2>3. \A c \in Goods : QtyHeld(c) = v6[c].qty /\ ValueHeld(c) = v6[c].value
                          /\ v6[c].qty \in Int
    BY <2>1, <2>2 DEF QtyHeld, ValueHeld
  <2>4. \A n, m \in Int : n = m => n <= m /\ n >= m
    OBVIOUS
  <2> QED BY <2>3, <2>4 DEF GoodsOk, GoodOk
<1>15. PurchaseOk
  <2>1. OneServes
    BY <1>7, <1>9, <1>11, IdleHaul DEF OneServes, Challans!OnPurchase
  <2>2. ASSUME NEW c \in Goods PROVE Leads(v4, c) = 0 /\ Pledges(v4, c) = 0
    <3>1. PICK reqs \in [Workers -> HaulRow] : reqs = v4
      BY <1>8 DEF TransType
    <3>2. \A w \in Workers : reqs[w].at \notin {"ship", "items", "remain"}
      BY <1>9, <3>1, IdleHaul
    <3> QED BY <3>1, <3>2, NobodyLeads
  <2>3. Fitting
    <3> SUFFICES ASSUME NEW c \in Goods
                 PROVE  /\ CatRow(v3.items, c).remaining + OnChallans(QtyOf(c), v2, CentralIn(v2))
                             = CatRow(v3.items, c).qty + Leads(v4, c)
                        /\ Pledges(v4, c) <= CatRow(v3.items, c).remaining
      BY DEF Fitting
    <3>3. CatRow(v3.items, c) = NoCatRow(c)
      BY <1>7
    <3>4. NoCatRow(c).remaining = 0 /\ NoCatRow(c).qty = 0
      BY DEF NoCatRow
    <3>1. CatRow(v3.items, c).remaining = 0 /\ CatRow(v3.items, c).qty = 0
      BY <3>3, <3>4
    <3>2. OnChallans(QtyOf(c), v2, CentralIn(v2)) = 0
      BY <1>11, <1>12
    <3> QED BY <2>2, <3>1, <3>2
  <2>4. Alike(v3.items) /\ Spent
    BY <1>7 DEF Alike, Spent
  <2> QED BY <2>1, <2>3, <2>4 DEF PurchaseOk
<1> QED BY <1>8, <1>10, <1>14, <1>15 DEF TransInv

LEMMA TransSame == ASSUME TransInv, UNCHANGED allVars PROVE TransInv'
BY DEF TransInv, TransType, HaulsOk, GoodsOk, GoodOk, QtyHeld, ValueHeld, PurchaseOk, OneServes, Fitting, Spent,
       Challans!Doubled, Challans!Missed, Challans!Revalued, allVars

-----------------------------------------------------------------------------
(***************************************************************************)
(* What a step leaves alone.                                               *)
(***************************************************************************)
LEMMA HaulsStep ==
    ASSUME TransType, HaulsOk, NEW w \in Workers, NEW r \in HaulRow, v4' = [v4 EXCEPT ![w] = r],
           Ready(r, v2'), DOMAIN v2 \subseteq DOMAIN v2',
           \A k \in DOMAIN v2 : v2'[k].central = v2[k].central
    PROVE  HaulsOk'
<1>1. v4 \in [Workers -> HaulRow]
  BY DEF TransType
<1>2. \A o \in Workers : v4'[o] = IF o = w THEN r ELSE v4[o]
  BY <1>1
<1>3. ASSUME NEW o \in Workers, o # w PROVE Ready(v4[o], v2')
  BY DEF HaulsOk, Ready
<1>4. \A o \in Workers : Ready(v4'[o], v2')
  BY <1>2, <1>3
<1> QED BY <1>4 DEF HaulsOk

LEMMA HaulsStay ==
    ASSUME HaulsOk, v4' = v4, DOMAIN v2 \subseteq DOMAIN v2',
           \A k \in DOMAIN v2 : v2'[k].central = v2[k].central
    PROVE  HaulsOk'
BY DEF HaulsOk, Ready

LEMMA OutstandingMoved ==
    ASSUME TransType, NEW w \in Workers, NEW r \in HaulRow, v4' = [v4 EXCEPT ![w] = r],
           Challans!InHands(r) = Challans!InHands(v4[w]), v2' = v2
    PROVE  \A F : Additive(F) => Outstanding(F, v2', v4') = Outstanding(F, v2, v4)
                                 /\ Outstanding(F, v2, v4) \in Int
<1>1. v4 \in [Workers -> HaulRow]
  BY DEF TransType
<1>2. \A F : Additive(F) => InHand(F, v4') = InHand(F, v4)
  <2>1. HandStep(v4, v4', w, r)
    BY <1>1, HaulsMove
  <2> SUFFICES ASSUME NEW F, Additive(F) PROVE InHand(F, v4') = InHand(F, v4)
    OBVIOUS
  <2>2. /\ InHand(F, v4') = InHand(F, v4) - F[Challans!InHands(v4[w])] + F[Challans!InHands(r)]
        /\ InHand(F, v4) \in Int /\ F[Challans!InHands(v4[w])] \in Int
    BY <2>1 DEF HandStep
  <2>3. F[Challans!InHands(r)] = F[Challans!InHands(v4[w])]
    OBVIOUS
  <2> QED BY <2>2, <2>3
<1>3. \A F : Additive(F) => Outstanding(F, v2', v4') = Outstanding(F, v2, v4)
  BY <1>2 DEF Outstanding
<1> QED BY <1>3, OutstandingIs

LEMMA GoodsStay ==
    ASSUME TransType, GoodsOk, NEW w \in Workers, NEW r \in HaulRow, v4' = [v4 EXCEPT ![w] = r],
           Challans!InHands(r) = Challans!InHands(v4[w]), v1' = v1, v2' = v2, v6' = v6,
           v8 \subseteq v8'
    PROVE  GoodsOk'
<1>1. \A F : Additive(F) => Outstanding(F, v2', v4') = Outstanding(F, v2, v4)
  BY OutstandingMoved
<1>2. \A c : QtyHeld(c)' = QtyHeld(c) /\ ValueHeld(c)' = ValueHeld(c)
  BY <1>1, AmountsAdditive DEF QtyHeld, ValueHeld
<1>3. \A c \in Goods : GoodOk(c)'
  BY <1>2, GoodHolds DEF GoodsOk
<1> QED BY <1>3 DEF GoodsOk

\* where nothing appears or vanishes
LEMMA GoodsHold ==
    ASSUME TransType, GoodsOk, v6' = v6, v8 \subseteq v8',
           \A c \in Goods : QtyHeld(c)' = QtyHeld(c) /\ ValueHeld(c)' = ValueHeld(c)
    PROVE  GoodsOk'
<1>1. \A c \in Goods : GoodOk(c)'
  BY GoodHolds DEF GoodsOk
<1> QED BY <1>1 DEF GoodsOk

LEMMA FittingStays ==
    ASSUME TransType, Fitting, v3' = v3,
           \A c \in Goods : /\ Leads(v4', c) = Leads(v4, c) /\ Pledges(v4', c) = Pledges(v4, c)
                            /\ OnChallans(QtyOf(c), v2', CentralIn(v2'))
                                 = OnChallans(QtyOf(c), v2, CentralIn(v2))
    PROVE  Fitting'
BY DEF Fitting

\* a request whose lead and pledge stay

LEMMA PurchaseStays ==
    ASSUME PurchaseOk, v3' = v3, ~v7' => ~v7 /\ OneServes' /\ Fitting'
    PROVE  PurchaseOk'
BY DEF PurchaseOk, Spent, Alike

LEMMA LeadsStay ==
    ASSUME TransType, NEW w \in Workers, NEW r \in HaulRow, v4' = [v4 EXCEPT ![w] = r],
           \A c : Lead(r, c) = Lead(v4[w], c) /\ Pledge(r, c) = Pledge(v4[w], c)
    PROVE  \A c : Leads(v4', c) = Leads(v4, c) /\ Pledges(v4', c) = Pledges(v4, c)
<1>1. v4 \in [Workers -> HaulRow]
  BY DEF TransType
<1>2. LeadStep(v4, v4', w, r)
  BY <1>1, LeadsMove
<1> SUFFICES ASSUME NEW c PROVE Leads(v4', c) = Leads(v4, c) /\ Pledges(v4', c) = Pledges(v4, c)
  OBVIOUS
<1>3. /\ Leads(v4', c) = Leads(v4, c) - Lead(v4[w], c) + Lead(r, c)
      /\ Pledges(v4', c) = Pledges(v4, c) - Pledge(v4[w], c) + Pledge(r, c)
      /\ Leads(v4, c) \in Int /\ Lead(v4[w], c) \in Int
      /\ Pledges(v4, c) \in Int /\ Pledge(v4[w], c) \in Int
  BY <1>2 DEF LeadStep
<1> QED BY <1>3

-----------------------------------------------------------------------------
(***************************************************************************)
(* Transfers.                                                              *)
(***************************************************************************)
LEMMA TransferOutKeeps ==
    ASSUME TransInv, NEW s \in Loads, Challans!CreateTransferOut(s) PROVE TransInv'
<1>1. PICK cs \in Seq(ChallanRow) : cs = v2
  BY DEF TransInv, TransType
<1>2. PICK t : t = [i \in DOMAIN s |-> Challans!Priced(s[i])]
  OBVIOUS
<1>3. PICK x : x = [status |-> "in_transit", central |-> FALSE, items |-> t]
  OBVIOUS
<1>4. /\ v1' = Challans!Shipped(v1, s) /\ v2' = Append(v2, x)
      /\ UNCHANGED <<v3, v4, v6, v7, v8>>
  BY <1>2, <1>3 DEF Challans!CreateTransferOut
<1>5. /\ v1 \in [Goods -> PoolRow] /\ TransType /\ \A c \in Goods : v1[c].avg \in Int
  BY DEF TransInv, TransType, PoolRow
<1>6. \A l \in Challans!Line : /\ Challans!Priced(l) \in Challans!Line
                               /\ Challans!Priced(l).cat = l.cat /\ Challans!Priced(l).qty = l.qty
                               /\ Challans!Priced(l).cost = v1[l.cat].avg
  <2> SUFFICES ASSUME NEW l \in Challans!Line
               PROVE  /\ Challans!Priced(l) \in Challans!Line
                      /\ Challans!Priced(l).cat = l.cat /\ Challans!Priced(l).qty = l.qty
                      /\ Challans!Priced(l).cost = v1[l.cat].avg
    OBVIOUS
  <2>1. PICK a \in Int : a = v1[l.cat].avg
    BY <1>5 DEF Challans!Line
  <2>2. Challans!Priced(l) = [l EXCEPT !.cost = a]
    BY <2>1 DEF Challans!Priced
  <2> QED BY <2>1, <2>2 DEF Challans!Line
<1>7. /\ t \in Loads /\ DOMAIN t = DOMAIN s
      /\ \A i \in DOMAIN s : /\ t[i].cat = s[i].cat /\ t[i].qty = s[i].qty
                             /\ t[i].cost = v1[s[i].cat].avg
  <2>1. PICK n \in Nat : DOMAIN s = 1 .. n
    BY DEF Loads
  <2>2. \A i \in 1 .. n : t[i] = Challans!Priced(s[i]) /\ t[i] \in Challans!Line
    BY <1>2, <1>6, <2>1, LoadAt
  <2>3. t \in [1 .. n -> Challans!Line]
    BY <1>2, <2>1, <2>2
  <2> QED BY <1>6, <2>1, <2>2, <2>3, LoadAt DEF Loads
<1>8. x \in ChallanRow /\ x.status = "in_transit" /\ ~x.central /\ x.items = t
  BY <1>3, <1>7 DEF ChallanRow
<1>9. PICK ds : ds = Append(cs, x)
  OBVIOUS
<1>10. v2' = ds
  BY <1>1, <1>4, <1>9
<1>0. AddedTo(cs, x, ds)
  BY <1>8, <1>9, ChallanAdded
<1>11. /\ ds \in Seq(ChallanRow) /\ DOMAIN ds = DOMAIN cs \cup {Len(cs) + 1}
       /\ Len(cs) + 1 \notin DOMAIN cs /\ ds[Len(cs) + 1] = x
       /\ \A k \in DOMAIN cs : ds[k] = cs[k]
       /\ CentralIn(ds) = CentralIn(cs)
  BY <1>0, <1>8 DEF AddedTo
<1>12. \A F : Additive(F) =>
         /\ OnChallans(F, ds, AwayIn(ds)) = OnChallans(F, cs, AwayIn(cs)) + F[t]
         /\ OnChallans(F, ds, CentralIn(ds)) = OnChallans(F, cs, CentralIn(cs))
         /\ F[t] \in Int /\ OnChallans(F, cs, AwayIn(cs)) \in Int
  BY <1>0, <1>8 DEF AddedTo
<1>13. /\ Challans!Shipped(v1, s) \in [Goods -> PoolRow]
       /\ \A c \in Goods :
            /\ Challans!Shipped(v1, s)[c].qty = v1[c].qty - QtyOf(c)[s]
            /\ Challans!Shipped(v1, s)[c].value = v1[c].value - QtyOf(c)[s] * v1[c].avg
  <2>1. PICK p \in [Goods -> PoolRow] : p = v1
    BY <1>5
  <2>2. /\ Challans!Shipped(p, s) \in [Goods -> PoolRow]
        /\ \A c \in Goods :
             /\ Challans!Shipped(p, s)[c].qty = p[c].qty - QtyOf(c)[s]
             /\ Challans!Shipped(p, s)[c].value = p[c].value - QtyOf(c)[s] * p[c].avg
    BY ShippedIs
  <2> QED BY <2>1, <2>2
<1>14. TransType'
  BY <1>4, <1>10, <1>11, <1>13 DEF TransInv, TransType
<1>15. HaulsOk'
  BY <1>1, <1>4, <1>10, <1>11, HaulsStay DEF TransInv
<1>17. GoodsOk'
  <2> SUFFICES ASSUME NEW c \in Goods
               PROVE  QtyHeld(c)' = QtyHeld(c) /\ ValueHeld(c)' = ValueHeld(c)
    BY <1>4, GoodsHold DEF TransInv
  <2>1. QtyOf(c)[t] = QtyOf(c)[s] /\ ValueOf(c)[t] = QtyOf(c)[s] * v1[c].avg
    <3>1. PICK a \in Int : a = v1[c].avg
      BY <1>5
    <3>2. \A i \in DOMAIN s : /\ t[i].cat = s[i].cat /\ t[i].qty = s[i].qty
                              /\ s[i].cat = c => t[i].cost = a
      BY <1>7, <3>1
    <3>3. QtyOf(c)[t] = QtyOf(c)[s] /\ ValueOf(c)[t] = QtyOf(c)[s] * a
      BY <1>7, <3>2, AmountPriced
    <3> QED BY <3>1, <3>3
  <2>2. ASSUME NEW F, Additive(F)
        PROVE  Outstanding(F, v2', v4') = Outstanding(F, v2, v4) + F[t] /\ Outstanding(F, v2, v4) \in Int
    <3>1. InHand(F, v4) \in Int
      BY <1>5, <2>2, OutstandingIs
    <3> QED BY <1>1, <1>4, <1>10, <1>12, <2>2, <3>1 DEF Outstanding
  <2>3. /\ Outstanding(QtyOf(c), v2', v4') = Outstanding(QtyOf(c), v2, v4) + QtyOf(c)[s]
        /\ Outstanding(ValueOf(c), v2', v4') = Outstanding(ValueOf(c), v2, v4) + QtyOf(c)[s] * v1[c].avg
        /\ Outstanding(QtyOf(c), v2, v4) \in Int /\ Outstanding(ValueOf(c), v2, v4) \in Int
    BY <2>1, <2>2, AmountsAdditive
  <2>5. v1[c].qty \in Int /\ v1[c].value \in Int /\ QtyOf(c)[s] \in Int
    BY <1>5, AmountsTyped DEF PoolRow
  <2>6. QtyOf(c)[s] * v1[c].avg \in Int
    BY <1>5, <2>5
  <2> QED BY <1>4, <1>13, <2>3, <2>5, <2>6 DEF QtyHeld, ValueHeld
<1>18. PurchaseOk'
  <2> SUFFICES ASSUME ~v7' PROVE OneServes' /\ Fitting'
    BY <1>4, PurchaseStays DEF TransInv
  <2>1. OneServes /\ Fitting
    BY <1>4 DEF TransInv, PurchaseOk
  <2>2. OneServes'
    BY <1>1, <1>4, <1>10, <1>11, <2>1 DEF OneServes
  <2>3. Fitting'
    BY <1>1, <1>4, <1>5, <1>10, <1>12, <2>1, AmountsAdditive, FittingStays
  <2> QED BY <2>2, <2>3
<1> QED BY <1>14, <1>15, <1>17, <1>18 DEF TransInv

LEMMA AcceptKeeps ==
    ASSUME TransInv, NEW k \in DOMAIN v2, Challans!Accept(k) PROVE TransInv'
<1>1. PICK cs \in Seq(ChallanRow) : cs = v2
  BY DEF TransInv, TransType
<1>2. PICK y \in ChallanRow : y = cs[k]
  BY <1>1, ChallanAt
<1>3. PICK x : x = [y EXCEPT !.status = "accepted"]
  OBVIOUS
<1>4. /\ y.status = "in_transit" /\ v1' = Challans!BookedIn(v1, y.items)
      /\ v2' = [cs EXCEPT ![k] = x] /\ UNCHANGED <<v3, v4, v6, v7, v8>>
  BY <1>1, <1>2, <1>3 DEF Challans!Accept, Challans!Acceptable
<1>5. /\ x \in ChallanRow /\ x.status = "accepted" /\ x.items = y.items /\ x.central = y.central /\ y.items \in Loads
  BY <1>3 DEF ChallanRow
<1>6. k \in DOMAIN cs
  BY <1>1
<1>7. PICK ds : ds = [cs EXCEPT ![k] = x]
  OBVIOUS
<1>8. v2' = ds
  BY <1>4, <1>7
<1>9. Rewritten(cs, k, x, ds)
  BY <1>5, <1>6, <1>7, RewrittenIs
<1>10. SameItems(cs, k, x, ds)
  BY <1>2, <1>5, <1>6, <1>9, ChallanMarked
<1>11. /\ ds \in Seq(ChallanRow) /\ DOMAIN ds = DOMAIN cs
       /\ \A j \in DOMAIN cs : ds[j] = IF j = k THEN x ELSE cs[j]
  BY <1>9 DEF Rewritten
<1>12. CentralIn(ds) = CentralIn(cs)
  BY <1>10 DEF SameItems
<1>13. k \in AwayIn(cs) /\ AwayIn(ds) = AwayIn(cs) \ {k}
  BY <1>2, <1>4, <1>5, <1>6, <1>11 DEF AwayIn
<1>14. \A F : Additive(F) =>
         /\ OnChallans(F, ds, CentralIn(ds)) = OnChallans(F, cs, CentralIn(cs))
         /\ OnChallans(F, ds, AwayIn(ds)) = OnChallans(F, cs, AwayIn(cs)) - F[y.items]
         /\ OnChallans(F, cs, AwayIn(cs)) \in Int /\ F[y.items] \in Int
  BY <1>2, <1>10, <1>13 DEF SameItems
<1>15. /\ Challans!BookedIn(v1, y.items) \in [Goods -> PoolRow]
       /\ \A c \in Goods :
            /\ Challans!BookedIn(v1, y.items)[c].qty = v1[c].qty + QtyOf(c)[y.items]
            /\ Challans!BookedIn(v1, y.items)[c].value = v1[c].value + ValueOf(c)[y.items]
  <2>1. PICK p \in [Goods -> PoolRow] : p = v1
    BY DEF TransInv, TransType
  <2>2. /\ Challans!BookedIn(p, y.items) \in [Goods -> PoolRow]
        /\ \A c \in Goods :
             /\ Challans!BookedIn(p, y.items)[c].qty = p[c].qty + QtyOf(c)[y.items]
             /\ Challans!BookedIn(p, y.items)[c].value = p[c].value + ValueOf(c)[y.items]
    BY <1>5, BookedInIs
  <2> QED BY <2>1, <2>2
<1>16. TransType'
  BY <1>4, <1>8, <1>11, <1>15 DEF TransInv, TransType
<1>17. HaulsOk'
  <2>1. \A j \in DOMAIN v2 : v2'[j].central = v2[j].central
    BY <1>1, <1>2, <1>5, <1>8, <1>11
  <2> QED BY <1>1, <1>4, <1>8, <1>11, <2>1, HaulsStay DEF TransInv
<1>19. GoodsOk'
  <2> SUFFICES ASSUME NEW c \in Goods
               PROVE  QtyHeld(c)' = QtyHeld(c) /\ ValueHeld(c)' = ValueHeld(c)
    BY <1>4, GoodsHold DEF TransInv
  <2>1. ASSUME NEW F, Additive(F)
        PROVE  /\ Outstanding(F, v2', v4') = Outstanding(F, v2, v4) - F[y.items]
               /\ Outstanding(F, v2, v4) \in Int /\ F[y.items] \in Int
    <3>1. InHand(F, v4) \in Int
      BY <2>1, OutstandingIs DEF TransInv
    <3>2. /\ OnChallans(F, ds, AwayIn(ds)) = OnChallans(F, cs, AwayIn(cs)) - F[y.items]
          /\ OnChallans(F, cs, AwayIn(cs)) \in Int /\ F[y.items] \in Int
      BY <1>14, <2>1
    <3>3. /\ Outstanding(F, v2', v4') = OnChallans(F, ds, AwayIn(ds)) + InHand(F, v4)
          /\ Outstanding(F, v2, v4) = OnChallans(F, cs, AwayIn(cs)) + InHand(F, v4)
      BY <1>1, <1>4, <1>8 DEF Outstanding
    <3> QED BY <3>1, <3>2, <3>3
  <2>2. /\ Outstanding(QtyOf(c), v2', v4') = Outstanding(QtyOf(c), v2, v4) - QtyOf(c)[y.items]
        /\ Outstanding(ValueOf(c), v2', v4') = Outstanding(ValueOf(c), v2, v4) - ValueOf(c)[y.items]
        /\ Outstanding(QtyOf(c), v2, v4) \in Int /\ Outstanding(ValueOf(c), v2, v4) \in Int
        /\ QtyOf(c)[y.items] \in Int /\ ValueOf(c)[y.items] \in Int
    BY <2>1, AmountsAdditive
  <2>4. v1[c].qty \in Int /\ v1[c].value \in Int
    BY DEF TransInv, TransType, PoolRow
  <2> QED BY <1>4, <1>15, <2>2, <2>4 DEF QtyHeld, ValueHeld
<1>20. PurchaseOk'
  <2> SUFFICES ASSUME ~v7' PROVE OneServes' /\ Fitting'
    BY <1>4, PurchaseStays DEF TransInv
  <2>1. OneServes /\ Fitting
    BY <1>4 DEF TransInv, PurchaseOk
  <2>2. OneServes'
    BY <1>1, <1>4, <1>8, <1>12, <2>1 DEF OneServes
  <2>3. Fitting'
    BY <1>1, <1>4, <1>8, <1>14, <2>1, AmountsAdditive, FittingStays DEF TransInv
  <2> QED BY <2>2, <2>3
<1> QED BY <1>16, <1>17, <1>19, <1>20 DEF TransInv

\* the invariant when one request moves on and nothing else
LEMMA RequestKeeps ==
    ASSUME TransInv, NEW w \in Workers, NEW r \in HaulRow, v4' = [v4 EXCEPT ![w] = r],
           Challans!InHands(r) = Challans!InHands(v4[w]), Ready(r, v2),
           UNCHANGED <<v1, v2, v3, v6>>, v8 \subseteq v8', v7' \in BOOLEAN,
           ~v7' => /\ ~v7 /\ (OneServes => OneServes')
                   /\ \A c : Lead(r, c) = Lead(v4[w], c) /\ Pledge(r, c) = Pledge(v4[w], c)
    PROVE  TransInv'
<1>0. TransType /\ HaulsOk /\ GoodsOk
  BY DEF TransInv
<1>1. TransType'
  BY <1>0 DEF TransType
<1>2. HaulsOk'
  BY <1>0, HaulsStep
<1>4. GoodsOk'
  BY <1>0, GoodsStay
<1>5. PurchaseOk'
  <2> SUFFICES ASSUME ~v7' PROVE OneServes' /\ Fitting'
    BY PurchaseStays DEF TransInv
  <2>1. OneServes /\ Fitting
    BY DEF TransInv, PurchaseOk
  <2>2. \A c : Leads(v4', c) = Leads(v4, c) /\ Pledges(v4', c) = Pledges(v4, c)
    BY <1>0, LeadsStay
  <2>3. \A c \in Goods : OnChallans(QtyOf(c), v2', CentralIn(v2')) = OnChallans(QtyOf(c), v2, CentralIn(v2))
    OBVIOUS
  <2> QED BY <1>0, <2>1, <2>2, <2>3, FittingStays
<1> QED BY <1>1, <1>2, <1>4, <1>5 DEF TransInv

LEMMA RejectReadKeeps ==
    ASSUME TransInv, NEW w \in Workers, NEW k \in DOMAIN v2, Challans!RejectRead(w, k)
    PROVE  TransInv'
<1>1. PICK r : r = [Challans!idle EXCEPT !.at = "reject", !.id = k]
  OBVIOUS
<1>2. /\ v4[w].at = "idle" /\ v4' = [v4 EXCEPT ![w] = r] /\ UNCHANGED <<v1, v2, v3, v6, v7, v8>>
  BY <1>1 DEF Challans!RejectRead, Challans!Becomes
<1>3. TransType /\ v4 \in [Workers -> HaulRow]
  BY DEF TransInv, TransType
<1>4. k \in Nat
  BY DEF TransInv, TransType
<1>5. r \in HaulRow /\ r.at = "reject" /\ r.id = k
  <2>1. PICK a \in HaulRow : a = Challans!idle
    BY IdleHaul
  <2>2. r = [a EXCEPT !.at = "reject", !.id = k]
    BY <1>1, <2>1
  <2> QED BY <1>4, <2>2 DEF HaulRow
<1>6. Challans!InHands(r) = Challans!InHands(v4[w])
  BY <1>2, <1>5 DEF Challans!InHands
<1>7. Ready(r, v2)
  BY <1>5 DEF Ready
<1>8. \A c : Lead(r, c) = Lead(v4[w], c) /\ Pledge(r, c) = Pledge(v4[w], c)
  BY <1>2, <1>5 DEF Lead, Pledge
<1>9. \A o \in Workers : v4'[o] = IF o = w THEN r ELSE v4[o]
  BY <1>2, <1>3
<1>10. OneServes => OneServes'
  BY <1>2, <1>5, <1>9 DEF OneServes, Challans!OnPurchase
<1>11. v7' \in BOOLEAN
  BY <1>2, <1>3 DEF TransType
<1> QED BY <1>2, <1>5, <1>6, <1>7, <1>8, <1>10, <1>11, RequestKeeps

LEMMA RejectWriteKeeps ==
    ASSUME TransInv, NEW w \in Workers, Challans!RejectWrite(w) PROVE TransInv'
<1>1. PICK cs \in Seq(ChallanRow) : cs = v2
  BY DEF TransInv, TransType
<1>2. PICK k : k = v4[w].id
  OBVIOUS
<1>3. k \in DOMAIN cs /\ v4[w].at = "reject"
  BY <1>1, <1>2 DEF Challans!RejectWrite, TransInv, HaulsOk, Ready
<1>4. PICK y \in ChallanRow : y = cs[k]
  BY <1>3, ChallanAt
<1>5. PICK x : x = [y EXCEPT !.status = "rejected"]
  OBVIOUS
<1>6. PICK ds : ds = [cs EXCEPT ![k] = x]
  OBVIOUS
<1>7. v4' = [v4 EXCEPT ![w] = Challans!idle] /\ UNCHANGED <<v1, v3, v6, v7>>
      /\ v8' = IF y.status = "accepted" THEN Challans!Marked("overwrote", y.items) ELSE v8
  BY <1>1, <1>2, <1>4 DEF Challans!RejectWrite, Challans!Becomes
<1>8. v2' = ds
  <2>1. v2' = [v2 EXCEPT ![k].status = "rejected"]
    BY <1>2 DEF Challans!RejectWrite
  <2> QED BY <1>1, <1>3, <1>4, <1>5, <1>6, <2>1
<1>9. /\ x \in ChallanRow /\ x.status = "rejected" /\ x.items = y.items /\ x.central = y.central
      /\ y.items \in Loads
  BY <1>5 DEF ChallanRow
<1>10. Rewritten(cs, k, x, ds)
  BY <1>3, <1>6, <1>9, RewrittenIs
<1>11. SameItems(cs, k, x, ds)
  BY <1>3, <1>4, <1>9, <1>10, ChallanMarked
<1>12. /\ ds \in Seq(ChallanRow) /\ DOMAIN ds = DOMAIN cs
       /\ \A j \in DOMAIN cs : ds[j] = IF j = k THEN x ELSE cs[j]
  BY <1>10 DEF Rewritten
<1>13. CentralIn(ds) = CentralIn(cs)
  BY <1>11 DEF SameItems
<1>14. \A F : Additive(F) =>
         /\ OnChallans(F, ds, CentralIn(ds)) = OnChallans(F, cs, CentralIn(cs))
         /\ OnChallans(F, ds, AwayIn(ds)) =
              OnChallans(F, cs, AwayIn(cs)) + IF y.status = "accepted" THEN F[y.items] ELSE 0
         /\ OnChallans(F, cs, AwayIn(cs)) \in Int /\ F[y.items] \in Int
  <2>1. CASE y.status = "accepted"
    <3>1. k \notin AwayIn(cs) /\ AwayIn(ds) = AwayIn(cs) \cup {k}
      BY <1>3, <1>4, <1>9, <1>12, <2>1 DEF AwayIn
    <3> QED BY <1>4, <1>11, <2>1, <3>1 DEF SameItems
  <2>2. CASE y.status # "accepted"
    <3>1. AwayIn(ds) = AwayIn(cs)
      BY <1>3, <1>4, <1>9, <1>12, <2>2 DEF AwayIn
    <3>2. \A n \in Int : n = n + 0
      OBVIOUS
    <3> QED BY <1>4, <1>11, <2>2, <3>1, <3>2 DEF SameItems
  <2> QED BY <2>1, <2>2
<1>15. TransType /\ v4 \in [Workers -> HaulRow]
  BY DEF TransInv, TransType
<1>16. Challans!InHands(v4[w]) = Challans!InHands(Challans!idle)
  BY <1>3, IdleHaul DEF Challans!InHands
<1>17. \A F : Additive(F) => InHand(F, v4') = InHand(F, v4)
  <2> SUFFICES ASSUME NEW F, Additive(F) PROVE InHand(F, v4') = InHand(F, v4)
    OBVIOUS
  <2>1. HandStep(v4, v4', w, Challans!idle)
    BY <1>7, <1>15, IdleHaul, HaulsMove
  <2>2. /\ InHand(F, v4') = InHand(F, v4) - F[Challans!InHands(v4[w])] + F[Challans!InHands(Challans!idle)]
        /\ InHand(F, v4) \in Int /\ F[Challans!InHands(v4[w])] \in Int
    BY <2>1 DEF HandStep
  <2>3. F[Challans!InHands(Challans!idle)] = F[Challans!InHands(v4[w])]
    BY <1>16
  <2> QED BY <2>2, <2>3
<1>18. \A F : Additive(F) =>
         /\ Outstanding(F, v2', v4') =
              Outstanding(F, v2, v4) + IF y.status = "accepted" THEN F[y.items] ELSE 0
         /\ Outstanding(F, v2, v4) \in Int /\ F[y.items] \in Int
  <2> SUFFICES ASSUME NEW F, Additive(F)
               PROVE  /\ Outstanding(F, v2', v4') =
                           Outstanding(F, v2, v4) + IF y.status = "accepted" THEN F[y.items] ELSE 0
                      /\ Outstanding(F, v2, v4) \in Int /\ F[y.items] \in Int
    OBVIOUS
  <2>1. PICK e : e = IF y.status = "accepted" THEN F[y.items] ELSE 0
    OBVIOUS
  <2>2. e \in Int /\ F[y.items] \in Int
    BY <1>14, <2>1
  <2>3. PICK m, n : m = OnChallans(F, cs, AwayIn(cs)) /\ n = InHand(F, v4)
    OBVIOUS
  <2>4. m \in Int /\ n \in Int
    BY <1>14, <1>15, <2>3, OutstandingIs
  <2>5. /\ Outstanding(F, v2', v4') = (m + e) + n
        /\ Outstanding(F, v2, v4) = m + n
    BY <1>1, <1>8, <1>14, <1>17, <2>1, <2>3 DEF Outstanding
  <2>6. (m + e) + n = (m + n) + e /\ m + n \in Int
    BY <2>2, <2>4
  <2> QED BY <2>1, <2>2, <2>5, <2>6
<1>19. \A o \in Workers : v4'[o] = IF o = w THEN Challans!idle ELSE v4[o]
  BY <1>7, <1>15
<1>20. TransType'
  <2>1. v4' \in [Workers -> HaulRow]
    BY <1>7, <1>15, IdleHaul
  <2> QED BY <1>7, <1>8, <1>12, <1>15, <2>1 DEF TransType
<1>21. HaulsOk'
  <2>1. \A j \in DOMAIN v2 : v2'[j].central = v2[j].central
    BY <1>1, <1>4, <1>8, <1>9, <1>12
  <2>2. Ready(Challans!idle, v2')
    BY IdleHaul DEF Ready
  <2>3. DOMAIN v2 \subseteq DOMAIN v2'
    BY <1>1, <1>8, <1>12
  <2> QED BY <1>7, <1>15, <2>1, <2>2, <2>3, IdleHaul, HaulsStep DEF TransInv
<1>23. GoodsOk'
  <2> SUFFICES ASSUME NEW c \in Goods PROVE GoodOk(c)'
    BY DEF GoodsOk
  <2>1. GoodOk(c) /\ TransType
    BY <1>15 DEF TransInv, GoodsOk
  <2>2. PICK q, v : /\ q = IF y.status = "accepted" THEN QtyOf(c)[y.items] ELSE 0
                    /\ v = IF y.status = "accepted" THEN ValueOf(c)[y.items] ELSE 0
    OBVIOUS
  <2>3. q \in Nat /\ q \in Int /\ v \in Int
    BY <1>9, <2>2, QtyNat, AmountsTyped
  <2>4. QtyHeld(c) \in Int /\ ValueHeld(c) \in Int /\ v6[c].qty \in Int /\ v6[c].value \in Int
        /\ v1[c].qty \in Int /\ v1[c].value \in Int
    BY <2>1, HeldTyped
  <2>5. QtyHeld(c)' = QtyHeld(c) + q /\ ValueHeld(c)' = ValueHeld(c) + v
    <3>1. PICK a, b : a = Outstanding(QtyOf(c), v2, v4) /\ b = Outstanding(ValueOf(c), v2, v4)
      OBVIOUS
    <3>2. /\ Outstanding(QtyOf(c), v2', v4') = a + q /\ a \in Int
          /\ Outstanding(ValueOf(c), v2', v4') = b + v /\ b \in Int
      BY <1>18, <2>2, <3>1, AmountsAdditive
    <3>3. /\ QtyHeld(c)' = v1[c].qty + (a + q) /\ QtyHeld(c) = v1[c].qty + a
          /\ ValueHeld(c)' = v1[c].value + (b + v) /\ ValueHeld(c) = v1[c].value + b
      BY <1>7, <3>1, <3>2 DEF QtyHeld, ValueHeld
    <3> QED BY <2>3, <2>4, <3>2, <3>3
  <2>6. /\ QtyHeld(c)' = QtyHeld(c) + 0 + q /\ v6'[c].qty = v6[c].qty + 0
        /\ ValueHeld(c)' = ValueHeld(c) + 0 + v /\ v6'[c].value = v6[c].value + 0
        /\ 0 \in Int
    BY <1>7, <2>3, <2>4, <2>5
  <2>7. v8 \subseteq v8'
    BY <1>7, <1>9, MarksGrow
  <2>8. q # 0 \/ v # 0 => Challans!Doubled(c)'
    <3> SUFFICES ASSUME q # 0 \/ v # 0 PROVE Challans!Doubled(c)'
      OBVIOUS
    <3>1. y.status = "accepted" /\ (QtyOf(c)[y.items] # 0 \/ ValueOf(c)[y.items] # 0)
      BY <2>2
    <3>2. \E i \in DOMAIN y.items : y.items[i].cat = c
      BY <1>9, <3>1, AmountNone
    <3>3. <<"overwrote", c>> \in v8'
      BY <1>7, <1>9, <3>1, <3>2, MarksGrow
    <3> QED BY <3>3 DEF Challans!Doubled
  <2>9. (q > 0 => Challans!Doubled(c)') /\ ~(q < 0)
        /\ (v # 0 => Challans!Doubled(c)' \/ Challans!Missed(c)' \/ Challans!Revalued(c)')
    BY <2>3, <2>8
  <2> QED BY <2>1, <2>3, <2>6, <2>7, <2>9, GoodMoves
<1>24. PurchaseOk'
  <2> SUFFICES ASSUME ~v7' PROVE OneServes' /\ Fitting'
    BY <1>7, PurchaseStays DEF TransInv
  <2>1. OneServes /\ Fitting
    BY <1>7 DEF TransInv, PurchaseOk
  <2>2. OneServes'
    <3>1. CentralIn(v2') = CentralIn(v2)
      BY <1>1, <1>8, <1>13
    <3> QED BY <1>7, <1>19, <2>1, <3>1, IdleHaul DEF OneServes, Challans!OnPurchase
  <2>3. \A c : /\ Lead(Challans!idle, c) = Lead(v4[w], c)
              /\ Pledge(Challans!idle, c) = Pledge(v4[w], c)
    BY <1>3, IdleHaul DEF Lead, Pledge
  <2>4. \A c : Leads(v4', c) = Leads(v4, c) /\ Pledges(v4', c) = Pledges(v4, c)
    BY <1>7, <1>15, <2>3, IdleHaul, LeadsStay
  <2>5. \A c \in Goods : OnChallans(QtyOf(c), v2', CentralIn(v2')) = OnChallans(QtyOf(c), v2, CentralIn(v2))
    BY <1>1, <1>8, <1>14, AmountsAdditive
  <2> QED BY <1>7, <1>15, <2>1, <2>2, <2>4, <2>5, FittingStays
<1> QED BY <1>20, <1>21, <1>23, <1>24 DEF TransInv

-----------------------------------------------------------------------------
(***************************************************************************)
(* Buying.                                                                 *)
(***************************************************************************)
LEMMA BuyStartKeeps ==
    ASSUME TransInv, NEW w \in Workers, NEW s \in Loads, s # <<>>, Challans!BuyStart(w, s)
    PROVE  TransInv'
<1>1. PICK r : r = [Challans!idle EXCEPT !.at = "buy", !.todo = s]
  OBVIOUS
<1>2. /\ v4[w].at = "idle" /\ v3.status = "none" /\ v4' = [v4 EXCEPT ![w] = r]
      /\ \A o \in Workers : v4[o].at \notin {"buy", "buyitems"}
      /\ UNCHANGED <<v1, v2, v3, v6, v7, v8>>
  BY <1>1 DEF Challans!BuyStart, Challans!Becomes, Challans!Buying
<1>3. TransType /\ v4 \in [Workers -> HaulRow]
  BY DEF TransInv, TransType
<1>4. r \in HaulRow /\ r.at = "buy" /\ r.todo = s
  <2>1. PICK a \in HaulRow : a = Challans!idle
    BY IdleHaul
  <2>2. r = [a EXCEPT !.at = "buy", !.todo = s]
    BY <1>1, <2>1
  <2> QED BY <2>2 DEF HaulRow
<1>5. Challans!InHands(r) = Challans!InHands(v4[w])
  BY <1>2, <1>4 DEF Challans!InHands
<1>6. Ready(r, v2)
  BY <1>4 DEF Ready
<1>7. \A c : Lead(r, c) = Lead(v4[w], c) /\ Pledge(r, c) = Pledge(v4[w], c)
  BY <1>2, <1>4 DEF Lead, Pledge
<1>8. \A o \in Workers : v4'[o] = IF o = w THEN r ELSE v4[o]
  BY <1>2, <1>3
<1>9. OneServes => OneServes'
  BY <1>2, <1>4, <1>8 DEF OneServes, Challans!OnPurchase
<1>10. v7' \in BOOLEAN
  BY <1>2, <1>3 DEF TransType
<1> QED BY <1>2, <1>4, <1>5, <1>6, <1>7, <1>9, <1>10, RequestKeeps

LEMMA BuyLineKeeps ==
    ASSUME TransInv, NEW w \in Workers, Challans!BuyLine(w) PROVE TransInv'
<1>1. PICK a : a = v4[w]
  OBVIOUS
<1>2. PICK l : l = Head(a.todo)
  OBVIOUS
<1>3. a \in HaulRow /\ TransType /\ v4 \in [Workers -> HaulRow]
  BY <1>1 DEF TransInv, TransType
<1>4. a.at = "buy" /\ a.todo # <<>> /\ UNCHANGED <<v2, v3, v7, v8>>
  BY <1>1 DEF Challans!BuyLine
<1>5. l \in Challans!Line /\ a.todo \in Loads /\ a.done \in Loads
  BY <1>2, <1>3, <1>4 DEF HaulRow, Loads
<1>6. CASE ~(l.cost > 0)
  <2>1. v4' = [v4 EXCEPT ![w] = Challans!idle] /\ UNCHANGED <<v1, v6>>
    BY <1>1, <1>2, <1>6 DEF Challans!BuyLine, Challans!Becomes
  <2>2. Challans!InHands(Challans!idle) = Challans!InHands(v4[w])
    BY <1>1, <1>4, IdleHaul DEF Challans!InHands
  <2>3. Ready(Challans!idle, v2)
    BY IdleHaul DEF Ready
  <2>4. \A c : Lead(Challans!idle, c) = Lead(v4[w], c) /\ Pledge(Challans!idle, c) = Pledge(v4[w], c)
    BY <1>1, <1>4, IdleHaul DEF Lead, Pledge
  <2>5. \A o \in Workers : v4'[o] = IF o = w THEN Challans!idle ELSE v4[o]
    BY <1>3, <2>1
  <2>6. OneServes => OneServes'
    BY <1>4, <2>5, IdleHaul DEF OneServes, Challans!OnPurchase
  <2>7. v7' \in BOOLEAN
    BY <1>3, <1>4 DEF TransType
  <2> QED BY <1>4, <2>1, <2>2, <2>3, <2>4, <2>6, <2>7, IdleHaul, RequestKeeps
<1>7. CASE l.cost > 0
  <2>1. PICK r : r = [a EXCEPT !.todo = Tail(@), !.done = Append(@, l)]
    OBVIOUS
  <2>2. PICK q, x : q = l.qty /\ x = l.qty * l.cost
    OBVIOUS
  <2>3. /\ v1' = Challans!BookedIn(v1, <<l>>) /\ v6' = Challans!Entered(l.cat, q, x)
        /\ v4' = [v4 EXCEPT ![w] = r]
    BY <1>1, <1>2, <1>7, <2>1, <2>2 DEF Challans!BuyLine, Challans!Becomes
  <2>4. /\ r \in HaulRow /\ r.at = "buy" /\ r.done # <<>>
    <3>1. Tail(a.todo) \in Loads /\ Append(a.done, l) \in Loads /\ Append(a.done, l) # <<>>
      BY <1>4, <1>5 DEF Loads
    <3> QED BY <1>3, <1>4, <2>1, <3>1 DEF HaulRow
  <2>5. Challans!InHands(r) = Challans!InHands(v4[w])
    BY <1>1, <1>4, <2>4 DEF Challans!InHands
  <2>6. \A o \in Workers : v4'[o] = IF o = w THEN r ELSE v4[o]
    BY <1>3, <2>3
  <2>7. <<l>> \in Loads /\ l.cat \in Goods /\ q \in Int /\ x \in Int
    <3>1. <<l>> \in Loads
      BY <1>5 DEF Loads
    <3>2. l.cat \in Goods /\ l.qty \in Int /\ l.cost \in Int
      BY <1>5 DEF Challans!Line
    <3>3. l.qty * l.cost \in Int
      BY <3>2
    <3> QED BY <2>2, <3>1, <3>2, <3>3
  <2>8. /\ Challans!BookedIn(v1, <<l>>) \in [Goods -> PoolRow]
        /\ \A c \in Goods :
             /\ Challans!BookedIn(v1, <<l>>)[c].qty = v1[c].qty + QtyOf(c)[<<l>>]
             /\ Challans!BookedIn(v1, <<l>>)[c].value = v1[c].value + ValueOf(c)[<<l>>]
    <3>1. PICK p \in [Goods -> PoolRow] : p = v1
      BY <1>3 DEF TransType
    <3>2. /\ Challans!BookedIn(p, <<l>>) \in [Goods -> PoolRow]
          /\ \A c \in Goods :
               /\ Challans!BookedIn(p, <<l>>)[c].qty = p[c].qty + QtyOf(c)[<<l>>]
               /\ Challans!BookedIn(p, <<l>>)[c].value = p[c].value + ValueOf(c)[<<l>>]
      BY <2>7, BookedInIs
    <3> QED BY <3>1, <3>2
  <2>9. /\ Challans!Entered(l.cat, q, x) \in [Goods -> BookRow]
        /\ \A c \in Goods :
             /\ Challans!Entered(l.cat, q, x)[c].qty = v6[c].qty + IF c = l.cat THEN q ELSE 0
             /\ Challans!Entered(l.cat, q, x)[c].value = v6[c].value + IF c = l.cat THEN x ELSE 0
    <3>1. v6 \in [Goods -> BookRow]
      BY <1>3 DEF TransType
    <3> QED BY <2>7, <3>1, EnteredIs
  <2>10. TransType'
    <3>1. v4' \in [Workers -> HaulRow]
      BY <1>3, <2>3, <2>4
    <3> QED BY <1>3, <1>4, <2>3, <2>8, <2>9, <3>1 DEF TransType
  <2>11. HaulsOk'
    <3>1. Ready(r, v2')
      BY <2>4 DEF Ready
    <3> QED BY <1>3, <1>4, <2>3, <2>4, <3>1, HaulsStep DEF TransInv
  <2>13. GoodsOk'
    <3> SUFFICES ASSUME NEW c \in Goods PROVE GoodOk(c)'
      BY DEF GoodsOk
    <3>1. \A F : Additive(F) => Outstanding(F, v2', v4') = Outstanding(F, v2, v4) /\ Outstanding(F, v2, v4) \in Int
      BY <1>3, <1>4, <2>3, <2>4, <2>5, OutstandingMoved
    <3>2. /\ Outstanding(QtyOf(c), v2', v4') = Outstanding(QtyOf(c), v2, v4)
          /\ Outstanding(ValueOf(c), v2', v4') = Outstanding(ValueOf(c), v2, v4)
          /\ Outstanding(QtyOf(c), v2, v4) \in Int /\ Outstanding(ValueOf(c), v2, v4) \in Int
      BY <3>1, AmountsAdditive
    <3>3. GoodOk(c) /\ v8 \subseteq v8'
      BY <1>4 DEF TransInv, GoodsOk
    <3>4. v1[c].qty \in Int /\ v1[c].value \in Int /\ QtyHeld(c) \in Int /\ ValueHeld(c) \in Int
      BY <1>3, HeldTyped
    <3>5. /\ QtyOf(c)[<<l>>] = IF l.cat = c THEN q ELSE 0
          /\ ValueOf(c)[<<l>>] = IF l.cat = c THEN x ELSE 0
      BY <1>5, <2>2, LineAmount
    <3>6. /\ v1'[c].qty = v1[c].qty + (IF l.cat = c THEN q ELSE 0)
          /\ v1'[c].value = v1[c].value + (IF l.cat = c THEN x ELSE 0)
          /\ v6'[c].qty = v6[c].qty + (IF l.cat = c THEN q ELSE 0)
          /\ v6'[c].value = v6[c].value + (IF l.cat = c THEN x ELSE 0)
      BY <2>3, <2>8, <2>9, <3>5
    <3>7. PICK b, y : b = (IF l.cat = c THEN q ELSE 0) /\ y = (IF l.cat = c THEN x ELSE 0)
      OBVIOUS
    <3>8. b \in Int /\ y \in Int /\ 0 \in Int
      BY <2>7, <3>7
    <3>9. /\ QtyHeld(c)' = QtyHeld(c) + b + 0 /\ v6'[c].qty = v6[c].qty + b
          /\ ValueHeld(c)' = ValueHeld(c) + y + 0 /\ v6'[c].value = v6[c].value + y
      BY <3>2, <3>4, <3>6, <3>7, <3>8 DEF QtyHeld, ValueHeld
    <3>10. ~(0 > 0) /\ ~(0 < 0)
      OBVIOUS
    <3> QED BY <1>3, <3>3, <3>8, <3>9, <3>10, GoodMoves
  <2>14. PurchaseOk'
    <3> SUFFICES ASSUME ~v7' PROVE OneServes' /\ Fitting'
      BY <1>4, PurchaseStays DEF TransInv
    <3>1. OneServes /\ Fitting
      BY <1>4 DEF TransInv, PurchaseOk
    <3>2. OneServes'
      BY <1>1, <1>4, <2>4, <2>6, <3>1 DEF OneServes, Challans!OnPurchase
    <3>3. \A c : Lead(r, c) = Lead(v4[w], c) /\ Pledge(r, c) = Pledge(v4[w], c)
      BY <1>1, <1>4, <2>4 DEF Lead, Pledge
    <3>4. \A c : Leads(v4', c) = Leads(v4, c) /\ Pledges(v4', c) = Pledges(v4, c)
      BY <1>3, <2>3, <2>4, <3>3, LeadsStay
    <3>5. \A c \in Goods : OnChallans(QtyOf(c), v2', CentralIn(v2')) = OnChallans(QtyOf(c), v2, CentralIn(v2))
      BY <1>4
    <3> QED BY <1>3, <1>4, <3>1, <3>2, <3>4, <3>5, FittingStays
  <2> QED BY <2>10, <2>11, <2>13, <2>14 DEF TransInv
<1> QED BY <1>6, <1>7

LEMMA TailLoads ==
    ASSUME NEW s \in Loads, s # <<>>
    PROVE  /\ Head(s) \in Challans!Line /\ Tail(s) \in Loads
           /\ Len(s) = 1 <=> Tail(s) = <<>>
<1>1. s \in Seq(Challans!Line) /\ Len(s) \in Nat /\ Len(s) # 0
  BY DEF Loads
<1>2. Tail(s) \in Seq(Challans!Line) /\ Len(Tail(s)) = Len(s) - 1 /\ Head(s) \in Challans!Line
  BY <1>1
<1>3. Tail(s) = <<>> <=> Len(Tail(s)) = 0
  BY <1>2
<1> QED BY <1>1, <1>2, <1>3 DEF Loads

LEMMA BuyRowKeeps ==
    ASSUME TransInv, NEW w \in Workers, Challans!BuyRow(w) PROVE TransInv'
<1>1. PICK a \in HaulRow : a = v4[w]
  BY DEF TransInv, TransType
<1>2. PICK r : r = [Challans!idle EXCEPT !.at = "buyitems", !.todo = a.done]
  OBVIOUS
<1>3. /\ a.at = "buy" /\ a.todo = <<>> /\ v4' = [v4 EXCEPT ![w] = r]
      /\ v3' = [v3 EXCEPT !.status = "recorded"] /\ UNCHANGED <<v1, v2, v6, v7, v8>>
  BY <1>1, <1>2 DEF Challans!BuyRow, Challans!Becomes
<1>4. TransType /\ HaulsOk /\ GoodsOk /\ v4 \in [Workers -> HaulRow] /\ v3 \in BoughtRows
  BY DEF TransInv, TransType
<1>5. a.done # <<>> /\ a.done \in Loads
  <2>1. Ready(a, v2)
    BY <1>1, <1>4 DEF HaulsOk
  <2> QED BY <1>3, <2>1 DEF Ready, HaulRow
<1>6. r \in HaulRow /\ r.at = "buyitems" /\ r.todo = a.done
  <2>1. PICK i \in HaulRow : i = Challans!idle
    BY IdleHaul
  <2>2. r = [i EXCEPT !.at = "buyitems", !.todo = a.done]
    BY <1>2, <2>1
  <2> QED BY <1>5, <2>2 DEF HaulRow, Challans!OnPurchase
<1>7. v3' \in BoughtRows /\ v3'.status = "recorded" /\ v3'.items = v3.items
  BY <1>3, <1>4 DEF BoughtRows
<1>8. Challans!InHands(r) = Challans!InHands(v4[w])
  BY <1>1, <1>3, <1>6 DEF Challans!InHands
<1>9. \A o \in Workers : v4'[o] = IF o = w THEN r ELSE v4[o]
  BY <1>3, <1>4
<1>10. TransType'
  <2>1. v4' \in [Workers -> HaulRow]
    BY <1>3, <1>4, <1>6
  <2> QED BY <1>3, <1>4, <1>7, <2>1 DEF TransType
<1>11. HaulsOk'
  <2>1. Ready(r, v2')
    BY <1>5, <1>6 DEF Ready
  <2> QED BY <1>3, <1>4, <1>6, <2>1, HaulsStep
<1>13. GoodsOk'
  BY <1>3, <1>4, <1>6, <1>8, GoodsStay
<1>14. PurchaseOk'
  <2> SUFFICES ASSUME ~v7' PROVE OneServes' /\ Fitting' /\ Alike(v3'.items) /\ Spent'
    BY DEF PurchaseOk
  <2>1. OneServes /\ Fitting /\ Alike(v3.items)
    BY <1>3 DEF TransInv, PurchaseOk
  <2>2. OneServes'
    <3>1. v3.status = "none" /\ CentralIn(v2) = {}
      BY <1>1, <1>3, <2>1 DEF OneServes
    <3>2. \A o \in Workers : o # w => v4[o].at \notin {"buy"} \cup Challans!OnPurchase
      BY <1>1, <1>3, <2>1 DEF OneServes
    <3> QED BY <1>3, <1>6, <1>7, <1>9, <3>1, <3>2 DEF OneServes
  <2>3. \A c : Lead(r, c) = Lead(v4[w], c) /\ Pledge(r, c) = Pledge(v4[w], c)
    BY <1>1, <1>3, <1>6 DEF Lead, Pledge
  <2>4. \A c : Leads(v4', c) = Leads(v4, c) /\ Pledges(v4', c) = Pledges(v4, c)
    BY <1>3, <1>4, <1>6, <2>3, LeadsStay
  <2>5. Fitting'
    BY <1>3, <1>7, <2>1, <2>4 DEF Fitting
  <2>6. Alike(v3'.items) /\ Spent'
    BY <1>7, <2>1 DEF Spent
  <2> QED BY <2>2, <2>5, <2>6
<1> QED BY <1>10, <1>11, <1>13, <1>14 DEF TransInv

LEMMA BuyItemKeeps ==
    ASSUME TransInv, NEW w \in Workers, Challans!BuyItem(w) PROVE TransInv'
<1>1. PICK a \in HaulRow : a = v4[w]
  BY DEF TransInv, TransType
<1>2. PICK l : l = Head(a.todo)
  OBVIOUS
<1>3. PICK x : x = [cat |-> l.cat, qty |-> l.qty, remaining |-> l.qty, cost |-> l.cost]
  OBVIOUS
<1>4. PICK r : r = IF Len(a.todo) = 1 THEN Challans!idle ELSE [a EXCEPT !.todo = Tail(@)]
  OBVIOUS
<1>5. /\ a.at = "buyitems" /\ v4' = [v4 EXCEPT ![w] = r]
      /\ v3' = [v3 EXCEPT !.items = Append(@, x)] /\ UNCHANGED <<v1, v2, v6, v7, v8>>
  BY <1>1, <1>2, <1>3, <1>4 DEF Challans!BuyItem, Challans!Becomes
<1>6. TransType /\ HaulsOk /\ GoodsOk /\ v4 \in [Workers -> HaulRow] /\ v3 \in BoughtRows
  BY DEF TransInv, TransType
<1>7. a.todo # <<>> /\ a.todo \in Loads
  <2>1. Ready(a, v2)
    BY <1>1, <1>6 DEF HaulsOk
  <2> QED BY <1>5, <2>1 DEF Ready, HaulRow
<1>8. l \in Challans!Line /\ l.cat \in Goods /\ x \in BoughtRow /\ x.cat = l.cat
      /\ x.remaining = x.qty /\ x.qty \in Int /\ x.qty >= 0
  <2>1. l \in Challans!Line
    BY <1>2, <1>7 DEF Loads
  <2> QED BY <1>3, <2>1 DEF Challans!Line, BoughtRow
<1>9. r \in HaulRow /\ r.at \in {"idle", "buyitems"} /\ (r.at = "buyitems" => r.todo # <<>>)
  <2>1. ASSUME Len(a.todo) # 1 PROVE Tail(a.todo) \in Loads /\ Tail(a.todo) # <<>>
    BY <1>7, <2>1, TailLoads
  <2> QED BY <1>4, <1>5, <2>1, IdleHaul DEF HaulRow
<1>18. PICK rows \in Seq(BoughtRow) : rows = v3.items /\ HasLast(rows)
  BY <1>6 DEF TransType, BoughtRows
<1>19. PICK more : more = Append(rows, x)
  OBVIOUS
<1>21. Extended(rows, x, more)
  <2>1. x \in BoughtRow
    BY <1>8
  <2>2. rows \in Seq(BoughtRow) /\ HasLast(rows)
    BY <1>18
  <2> QED BY <1>19, <2>1, <2>2, ListedAdded
<1>20. /\ more \in Seq(BoughtRow) /\ HasLast(more)
       /\ \A c \in Goods : CatRow(more, c) = IF c = x.cat THEN x ELSE CatRow(rows, c)
       /\ \A i \in DOMAIN more : more[i] = x \/ (i \in DOMAIN rows /\ more[i] = rows[i])
  BY <1>21 DEF Extended
<1>10. /\ v3' \in BoughtRows /\ v3'.status = v3.status /\ v3'.items = more
       /\ \A c \in Goods : CatRow(more, c) = IF c = l.cat THEN x ELSE CatRow(v3.items, c)
  BY <1>5, <1>6, <1>8, <1>18, <1>19, <1>20 DEF BoughtRows
<1>11. Challans!InHands(r) = Challans!InHands(v4[w])
  BY <1>1, <1>5, <1>9 DEF Challans!InHands
<1>12. \A o \in Workers : v4'[o] = IF o = w THEN r ELSE v4[o]
  BY <1>5, <1>6
<1>13. TransType'
  <2>1. v4' \in [Workers -> HaulRow]
    BY <1>5, <1>6, <1>9
  <2> QED BY <1>5, <1>6, <1>10, <1>20, <2>1 DEF TransType
<1>14. HaulsOk'
  <2>1. Ready(r, v2')
    BY <1>9 DEF Ready
  <2> QED BY <1>5, <1>6, <1>9, <2>1, HaulsStep
<1>16. GoodsOk'
  BY <1>5, <1>6, <1>9, <1>11, GoodsStay
<1>17. PurchaseOk'
  <2> SUFFICES ASSUME ~v7' PROVE OneServes' /\ Fitting' /\ Alike(more) /\ v3'.status # "distributed"
    BY <1>10 DEF PurchaseOk, Spent
  <2>1. OneServes /\ Fitting /\ Alike(rows)
    BY <1>5, <1>18 DEF TransInv, PurchaseOk
  <2>2. /\ v3.status = "recorded" /\ CentralIn(v2) = {}
        /\ \A o \in Workers : o # w => v4[o].at \notin {"buy"} \cup Challans!OnPurchase
    BY <1>1, <1>5, <2>1 DEF OneServes, Challans!OnPurchase
  <2>3. OneServes'
    BY <1>5, <1>9, <1>10, <1>12, <2>2 DEF OneServes, Challans!OnPurchase
  <2>4. /\ \A o \in Workers : v4[o].at \notin {"ship", "items", "remain"}
        /\ \A o \in Workers : v4'[o].at \notin {"ship", "items", "remain"}
    BY <1>1, <1>5, <1>9, <1>12, <2>2 DEF Challans!OnPurchase
  <2>5. \A c : Leads(v4, c) = 0 /\ Pledges(v4, c) = 0
    <3>1. PICK reqs \in [Workers -> HaulRow] : reqs = v4
      BY <1>6
    <3> QED BY <2>4, <3>1, NobodyLeads
  <2>6. \A c : Leads(v4', c) = 0 /\ Pledges(v4', c) = 0
    <3>1. PICK reqs \in [Workers -> HaulRow] : reqs = v4'
      BY <1>13 DEF TransType
    <3> QED BY <2>4, <3>1, NobodyLeads
  <2>7. \A c : OnChallans(QtyOf(c), v2, CentralIn(v2)) = 0
    BY <2>2, SumEmpty DEF OnChallans
  <2>8. ASSUME NEW c \in Goods
        PROVE  /\ CatRow(more, c).remaining + OnChallans(QtyOf(c), v2', CentralIn(v2'))
                    = CatRow(more, c).qty + Leads(v4', c)
               /\ Pledges(v4', c) <= CatRow(more, c).remaining
    <3>1. v2' = v2
      BY <1>5
    <3>2. CASE c = l.cat
      BY <1>8, <1>10, <2>6, <2>7, <3>1, <3>2 DEF BoughtRow
    <3>3. CASE c # l.cat
      BY <1>10, <2>1, <2>5, <2>6, <3>1, <3>3 DEF Fitting
    <3> QED BY <3>2, <3>3
  <2>9. v3'.status # "distributed"
    BY <1>10, <2>2
  <2>10. Fitting'
    BY <1>10, <2>8 DEF Fitting
  <2>11. Alike(more)
    <3>1. ASSUME NEW c \in Goods PROVE CatRow(rows, c).qty - CatRow(rows, c).remaining = 0
      <4>1. PICK m, n : m = CatRow(rows, c).remaining /\ n = CatRow(rows, c).qty
        OBVIOUS
      <4>2. m \in Int /\ n \in Int
        BY <1>18, <4>1, ListedTyped
      <4>3. m + 0 = n + 0
        BY <1>18, <2>1, <2>5, <2>7, <4>1 DEF Fitting
      <4> QED BY <4>1, <4>2, <4>3
    <3>2. ASSUME NEW c \in Goods PROVE CatRow(more, c).qty - CatRow(more, c).remaining = 0
      <4>1. CASE c = x.cat
        BY <1>8, <1>20, <4>1
      <4>2. CASE c # x.cat
        BY <1>20, <3>1, <4>2
      <4> QED BY <4>1, <4>2
    <3>3. ASSUME NEW i \in DOMAIN more PROVE more[i].qty - more[i].remaining = 0 /\ more[i].cat \in Goods
      <4>1. CASE more[i] = x
        BY <1>8, <4>1
      <4>2. CASE i \in DOMAIN rows /\ more[i] = rows[i]
        <5>1. PICK y \in BoughtRow : y = rows[i]
          BY <4>2
        <5>2. y.qty - y.remaining = 0 /\ y.cat \in Goods
          BY <2>1, <3>1, <4>2, <5>1 DEF Alike, BoughtRow
        <5> QED BY <4>2, <5>1, <5>2
      <4> QED BY <1>20, <4>1, <4>2
    <3> QED BY <3>2, <3>3 DEF Alike
  <2> QED BY <2>3, <2>9, <2>10, <2>11
<1> QED BY <1>13, <1>14, <1>16, <1>17 DEF TransInv

-----------------------------------------------------------------------------
(***************************************************************************)
(* Distributing.                                                           *)
(***************************************************************************)
LEMMA DistributeReadKeeps ==
    ASSUME TransInv, NEW w \in Workers, NEW s \in Loads, Challans!DistributeRead(w, s)
    PROVE  TransInv'
<1>1. PICK t : t = [i \in DOMAIN s |-> Challans!AtCentralCost(s[i])]
  OBVIOUS
<1>2. PICK r : r = [Challans!idle EXCEPT !.at = "ship", !.todo = t]
  OBVIOUS
<1>3. /\ v4[w].at = "idle" /\ v3.status # "none" /\ Challans!Fits(s)
      /\ v4' = [v4 EXCEPT ![w] = r]
      /\ v7' = (v7 \/ Challans!Overlaps \/ ~Challans!Distinct(s))
      /\ UNCHANGED <<v1, v2, v3, v6, v8>>
  BY <1>1, <1>2 DEF Challans!DistributeRead, Challans!Becomes
<1>4. TransType /\ HaulsOk /\ GoodsOk /\ v4 \in [Workers -> HaulRow] /\ v3 \in BoughtRows
  BY DEF TransInv, TransType
<1>15. PICK rows \in Seq(BoughtRow) : rows = v3.items /\ HasLast(rows)
  BY <1>4 DEF TransType, BoughtRows
<1>16. ASSUME NEW i \in DOMAIN s
       PROVE  /\ RowsFor(rows, s[i].cat) # {} /\ s[i].qty <= CatRow(rows, s[i].cat).remaining
              /\ Challans!LastRow(s[i].cat) = CatRow(rows, s[i].cat)
  <2>1. Challans!RowsOf(s[i].cat) # {} /\ s[i].qty <= Challans!LastRow(s[i].cat).remaining
    BY <1>3 DEF Challans!Fits
  <2> QED BY <1>15, <2>1, RowsAre
<1>5. ASSUME NEW i \in DOMAIN s
      PROVE  /\ Challans!AtCentralCost(s[i]) \in Challans!Line
             /\ Challans!AtCentralCost(s[i]).cat = s[i].cat /\ Challans!AtCentralCost(s[i]).qty = s[i].qty
             /\ Challans!AtCentralCost(s[i]).cost = CatRow(rows, s[i].cat).cost
  <2>1. PICK l \in Challans!Line : l = s[i]
    BY LoadAt
  <2>2. PICK e \in Int : e = CatRow(rows, l.cat).cost
    BY <1>15, ListedTyped DEF Challans!Line
  <2>3. Challans!LastRow(l.cat) = CatRow(rows, l.cat)
    BY <1>16, <2>1
  <2>4. Challans!AtCentralCost(l) = [l EXCEPT !.cost = e]
    BY <2>2, <2>3 DEF Challans!AtCentralCost
  <2> QED BY <2>1, <2>2, <2>4 DEF Challans!Line
<1>6. /\ t \in Loads /\ DOMAIN t = DOMAIN s
      /\ \A i \in DOMAIN s : /\ t[i].cat = s[i].cat /\ t[i].qty = s[i].qty
                             /\ t[i].cost = CatRow(rows, s[i].cat).cost
  <2>1. PICK n \in Nat : DOMAIN s = 1 .. n
    BY DEF Loads
  <2>2. \A i \in 1 .. n : t[i] = Challans!AtCentralCost(s[i]) /\ t[i] \in Challans!Line
    BY <1>1, <1>5, <2>1, LoadAt
  <2>3. t \in [1 .. n -> Challans!Line]
    BY <1>1, <2>1, <2>2
  <2> QED BY <1>5, <2>1, <2>2, <2>3, LoadAt DEF Loads
<1>7. r \in HaulRow /\ r.at = "ship" /\ r.todo = t /\ r.done = <<>>
  <2>1. PICK i \in HaulRow : i = Challans!idle /\ i.done = <<>>
    BY IdleHaul
  <2>2. r = [i EXCEPT !.at = "ship", !.todo = t]
    BY <1>2, <2>1
  <2> QED BY <1>6, <2>1, <2>2 DEF HaulRow, Challans!OnPurchase
<1>8. Challans!InHands(r) = Challans!InHands(v4[w])
  BY <1>3, <1>7 DEF Challans!InHands
<1>9. \A o \in Workers : v4'[o] = IF o = w THEN r ELSE v4[o]
  BY <1>3, <1>4
<1>10. TransType'
  <2>1. v4' \in [Workers -> HaulRow]
    BY <1>3, <1>4, <1>7
  <2>2. v7' \in BOOLEAN
    BY <1>3
  <2> QED BY <1>3, <1>4, <2>1, <2>2 DEF TransType
<1>11. HaulsOk'
  <2>1. Ready(r, v2')
    BY <1>7 DEF Ready
  <2> QED BY <1>3, <1>4, <1>7, <2>1, HaulsStep
<1>13. GoodsOk'
  BY <1>3, <1>4, <1>7, <1>8, GoodsStay
<1>14. PurchaseOk'
  <2> SUFFICES ASSUME ~v7' PROVE OneServes' /\ Fitting'
    BY <1>3, PurchaseStays DEF TransInv
  <2>1. ~v7 /\ ~Challans!Overlaps /\ Challans!Distinct(s)
    BY <1>3
  <2>2. OneServes /\ Fitting
    BY <2>1 DEF TransInv, PurchaseOk
  <2>3. \A o \in Workers : v4[o].at \notin {"buy"} \cup Challans!OnPurchase
    BY <1>3, <2>1, <2>2 DEF OneServes, Challans!Overlaps
  <2>4. OneServes'
    BY <1>3, <1>7, <1>9, <2>2, <2>3 DEF OneServes, Challans!OnPurchase
  <2>5. \A o \in Workers : v4[o].at \notin {"ship", "items", "remain"}
    BY <2>3 DEF Challans!OnPurchase
  <2>6. \A c : Leads(v4, c) = 0 /\ Pledges(v4, c) = 0
    <3>1. PICK reqs \in [Workers -> HaulRow] : reqs = v4
      BY <1>4
    <3> QED BY <2>5, <3>1, NobodyLeads
  <2>7. LeadStep(v4, v4', w, r)
    BY <1>3, <1>4, <1>7, LeadsMove
  <2>8. ASSUME NEW c \in Goods
        PROVE  /\ Leads(v4', c) = Leads(v4, c) /\ Leads(v4, c) = 0
               /\ Pledges(v4', c) = QtyOf(c)[s] /\ QtyOf(c)[s] \in Int
    <3>1. PICK e \in Int : e = CatRow(rows, c).cost
      BY <1>15, ListedTyped
    <3>2. \A i \in DOMAIN s : /\ t[i].cat = s[i].cat /\ t[i].qty = s[i].qty
                              /\ s[i].cat = c => t[i].cost = e
      BY <1>6, <3>1
    <3>3. QtyOf(c)[t] = QtyOf(c)[s]
      BY <1>6, <3>2, AmountPriced
    <3>4. QtyOf(c)[s] \in Int /\ QtyOf(c)[<<>>] = 0
      BY AmountsTyped, AmountsAdditive DEF Additive
    <3>5. /\ Lead(r, c) = 0 /\ Lead(v4[w], c) = 0 /\ Pledge(v4[w], c) = 0
          /\ Pledge(r, c) = QtyOf(c)[s]
      BY <1>3, <1>7, <3>3, <3>4 DEF Lead, Pledge
    <3>6. /\ Leads(v4', c) = Leads(v4, c) - Lead(v4[w], c) + Lead(r, c)
          /\ Pledges(v4', c) = Pledges(v4, c) - Pledge(v4[w], c) + Pledge(r, c)
      BY <2>7 DEF LeadStep
    <3> QED BY <2>6, <3>4, <3>5, <3>6
  <2>9. ASSUME NEW c \in Goods PROVE QtyOf(c)[s] <= CatRow(rows, c).remaining
    <3>1. CASE \E i \in DOMAIN s : s[i].cat = c
      <4>1. PICK k \in DOMAIN s : s[k].cat = c
        BY <3>1
      <4>2. QtyOf(c)[s] = s[k].qty
        BY <2>1, <4>1, AmountDistinct
      <4>3. s[k].qty <= CatRow(rows, s[k].cat).remaining
        BY <1>16
      <4> QED BY <4>1, <4>2, <4>3
    <3>2. CASE ~\E i \in DOMAIN s : s[i].cat = c
      <4>1. QtyOf(c)[s] = 0
        BY <3>2, AmountNone
      <4>2. 0 <= CatRow(rows, c).remaining
        BY <1>15, <2>2, <2>6 DEF Fitting
      <4> QED BY <4>1, <4>2
    <3> QED BY <3>1, <3>2
  <2>10. Fitting'
    <3>1. v2' = v2 /\ v3' = v3
      BY <1>3
    <3> QED BY <1>15, <2>2, <2>8, <2>9, <3>1 DEF Fitting
  <2> QED BY <2>4, <2>10
<1> QED BY <1>10, <1>11, <1>13, <1>14 DEF TransInv

\* what a shipped line does to the pool
LineShipped(p, l, pool) ==
    /\ pool \in [Goods -> PoolRow]
    /\ \A c \in Goods :
         /\ pool[c].qty = p[c].qty - QtyOf(c)[<<l>>]
         /\ c # l.cat \/ l.cost = p[l.cat].avg => pool[c].value = p[c].value - ValueOf(c)[<<l>>]

LEMMA LineShips ==
    ASSUME TransType, NEW l \in Challans!Line
    PROVE  LineShipped(v1, l, Challans!Shipped(v1, <<l>>))
<1>1. PICK p \in [Goods -> PoolRow] : p = v1
  BY DEF TransType
<1>2. <<l>> \in Loads
  BY DEF Loads
<1>3. /\ Challans!Shipped(p, <<l>>) \in [Goods -> PoolRow]
      /\ \A c \in Goods :
           /\ Challans!Shipped(p, <<l>>)[c].qty = p[c].qty - QtyOf(c)[<<l>>]
           /\ Challans!Shipped(p, <<l>>)[c].value = p[c].value - QtyOf(c)[<<l>>] * p[c].avg
  BY <1>2, ShippedIs
<1>4. ASSUME NEW c \in Goods, c # l.cat \/ l.cost = p[l.cat].avg
      PROVE  Challans!Shipped(p, <<l>>)[c].value = p[c].value - ValueOf(c)[<<l>>]
  <2>1. p[c].value \in Int /\ p[c].avg \in Int
    BY DEF PoolRow
  <2>2. CASE c = l.cat
    <3>1. QtyOf(c)[<<l>>] = l.qty /\ ValueOf(c)[<<l>>] = l.qty * l.cost
      BY <2>2, LineAmount
    <3>2. QtyOf(c)[<<l>>] * p[c].avg = ValueOf(c)[<<l>>]
      BY <1>4, <2>2, <3>1
    <3> QED BY <1>3, <3>2
  <2>3. CASE c # l.cat
    <3>1. QtyOf(c)[<<l>>] = 0 /\ ValueOf(c)[<<l>>] = 0
      BY <2>3, LineAmount
    <3>2. QtyOf(c)[<<l>>] * p[c].avg = ValueOf(c)[<<l>>]
      BY <2>1, <3>1
    <3> QED BY <1>3, <3>2
  <2> QED BY <2>2, <2>3
<1> QED BY <1>1, <1>3, <1>4 DEF LineShipped

LEMMA DistributeShipKeeps ==
    ASSUME TransInv, NEW w \in Workers, Challans!DistributeShip(w) PROVE TransInv'
<1>1. PICK a \in HaulRow : a = v4[w]
  BY DEF TransInv, TransType
<1>2. PICK l : l = Head(a.todo)
  OBVIOUS
<1>3. PICK worth : worth = IF l.cost = v1[l.cat].avg THEN v8 ELSE Challans!Marked("revalued", <<l>>)
  OBVIOUS
<1>5. PICK r : r = [a EXCEPT !.todo = Tail(@), !.done = Append(@, l)]
  OBVIOUS
<1>6. /\ a.at = "ship" /\ a.todo # <<>> /\ v1' = Challans!Shipped(v1, <<l>>)
      /\ IF v1[l.cat].qty < l.qty
         THEN /\ v4' = [v4 EXCEPT ![w] = Challans!idle] /\ v7' = TRUE
              /\ v8' = worth \cup Challans!Marked("short", Append(a.done, l))
         ELSE v4' = [v4 EXCEPT ![w] = r] /\ v8' = worth /\ v7' = v7
      /\ UNCHANGED <<v2, v3, v6>>
  BY <1>1, <1>2, <1>3, <1>5 DEF Challans!DistributeShip, Challans!Becomes
<1>7. TransType /\ HaulsOk /\ GoodsOk /\ v4 \in [Workers -> HaulRow]
  BY DEF TransInv, TransType
<1>8. /\ l \in Challans!Line /\ a.todo \in Loads /\ a.done \in Loads /\ <<l>> \in Loads
      /\ Append(a.done, l) \in Loads /\ Tail(a.todo) \in Loads
  <2>1. a.todo \in Loads /\ a.done \in Loads
    BY DEF HaulRow
  <2>2. l \in Challans!Line /\ Tail(a.todo) \in Loads
    BY <1>2, <1>6, <2>1, TailLoads
  <2> QED BY <2>1, <2>2 DEF Loads
<1>9. LineShipped(v1, l, v1')
  BY <1>6, <1>7, <1>8, LineShips
<1>4. v8 \subseteq worth /\ v8 \subseteq v8'
  <2>1. v8 \subseteq worth
    BY <1>3, <1>8, MarksGrow
  <2> QED BY <1>6, <2>1
<1>10. ASSUME NEW F, Additive(F)
       PROVE  /\ F[Append(a.done, l)] = F[a.done] + F[<<l>>]
              /\ F[a.todo] = F[<<l>>] + F[Tail(a.todo)] /\ F[<<>>] = 0
              /\ F[a.done] \in Int /\ F[<<l>>] \in Int /\ F[Tail(a.todo)] \in Int
  BY <1>2, <1>6, <1>8, <1>10 DEF Additive
<1>11. r \in HaulRow /\ r.at = "ship" /\ r.todo = Tail(a.todo) /\ r.done = Append(a.done, l)
  BY <1>5, <1>6, <1>8 DEF HaulRow
<1>12. Challans!InHands(a) = a.done /\ Challans!InHands(r) = Append(a.done, l)
  BY <1>6, <1>11 DEF Challans!InHands
<1>13. ASSUME NEW c \in Goods
       PROVE  /\ v1'[c].qty = v1[c].qty - QtyOf(c)[<<l>>]
              /\ c # l.cat \/ l.cost = v1[l.cat].avg => v1'[c].value = v1[c].value - ValueOf(c)[<<l>>]
              /\ v1[c].qty \in Int /\ v1[c].value \in Int /\ v1'[c].value \in Int
              /\ v6[c].qty \in Int /\ v6[c].value \in Int
              /\ QtyHeld(c) \in Int /\ ValueHeld(c) \in Int /\ GoodOk(c)
              /\ v6'[c].qty = v6[c].qty + 0 /\ v6'[c].value = v6[c].value + 0
  <2>1. v1'[c].value \in Int
    BY <1>9 DEF LineShipped, PoolRow
  <2>2. /\ v1[c].qty \in Int /\ v1[c].value \in Int /\ v6[c].qty \in Int /\ v6[c].value \in Int
        /\ QtyHeld(c) \in Int /\ ValueHeld(c) \in Int
    BY <1>7, HeldTyped
  <2>3. v6'[c].qty = v6[c].qty + 0 /\ v6'[c].value = v6[c].value + 0
    BY <1>6, <2>2
  <2> QED BY <1>7, <1>9, <2>1, <2>2, <2>3 DEF LineShipped, GoodsOk
<1>15. ASSUME NEW n \in HaulRow, v4' = [v4 EXCEPT ![w] = n], NEW F, Additive(F)
       PROVE  /\ Outstanding(F, v2', v4') = Outstanding(F, v2, v4) - F[a.done] + F[Challans!InHands(n)]
              /\ Outstanding(F, v2, v4) \in Int
  <2>1. HandStep(v4, v4', w, n)
    BY <1>7, <1>15, HaulsMove
  <2>2. /\ InHand(F, v4') = InHand(F, v4) - F[a.done] + F[Challans!InHands(n)]
        /\ InHand(F, v4) \in Int /\ F[a.done] \in Int /\ F[Challans!InHands(n)] \in Int
    BY <1>1, <1>12, <1>15, <2>1 DEF HandStep
  <2>3. OnChallans(F, v2, AwayIn(v2)) \in Int
    BY <1>7, <1>15, OutstandingIs
  <2>4. v2' = v2
    BY <1>6
  <2> QED BY <2>2, <2>3, <2>4 DEF Outstanding
<1>16. CASE v1[l.cat].qty < l.qty
  <2>1. /\ v4' = [v4 EXCEPT ![w] = Challans!idle] /\ v7' = TRUE
        /\ v8' = worth \cup Challans!Marked("short", Append(a.done, l))
    BY <1>6, <1>16
  <2>3. TransType'
    <3>1. v4' \in [Workers -> HaulRow] /\ v1' \in [Goods -> PoolRow]
      BY <1>7, <1>9, <2>1, IdleHaul DEF LineShipped
    <3> QED BY <1>6, <1>7, <2>1, <3>1 DEF TransType
  <2>4. HaulsOk'
    <3>1. Ready(Challans!idle, v2')
      BY IdleHaul DEF Ready
    <3> QED BY <1>6, <1>7, <2>1, <3>1, IdleHaul, HaulsStep
  <2>5. GoodsOk'
    <3> SUFFICES ASSUME NEW c \in Goods PROVE GoodOk(c)'
      BY DEF GoodsOk
    <3>1. ASSUME NEW F, Additive(F)
          PROVE  /\ Outstanding(F, v2', v4') = Outstanding(F, v2, v4) - F[a.done]
                 /\ Outstanding(F, v2, v4) \in Int
      <4>1. F[Challans!InHands(Challans!idle)] = 0 /\ F[a.done] \in Int
        BY <1>10, <3>1, IdleHaul
      <4>2. /\ Outstanding(F, v2', v4')
                 = Outstanding(F, v2, v4) - F[a.done] + F[Challans!InHands(Challans!idle)]
            /\ Outstanding(F, v2, v4) \in Int
        BY <1>15, <2>1, <3>1, IdleHaul
      <4> QED BY <4>1, <4>2
    <3>2. /\ Outstanding(QtyOf(c), v2', v4') = Outstanding(QtyOf(c), v2, v4) - QtyOf(c)[a.done]
          /\ Outstanding(ValueOf(c), v2', v4') = Outstanding(ValueOf(c), v2, v4) - ValueOf(c)[a.done]
          /\ Outstanding(QtyOf(c), v2, v4) \in Int /\ Outstanding(ValueOf(c), v2, v4) \in Int
      BY <3>1, AmountsAdditive
    <3>3. /\ QtyOf(c)[Append(a.done, l)] = QtyOf(c)[a.done] + QtyOf(c)[<<l>>]
          /\ ValueOf(c)[Append(a.done, l)] = ValueOf(c)[a.done] + ValueOf(c)[<<l>>]
          /\ QtyOf(c)[a.done] \in Int /\ QtyOf(c)[<<l>>] \in Int
          /\ ValueOf(c)[a.done] \in Int /\ ValueOf(c)[<<l>>] \in Int
      BY <1>10, AmountsAdditive
    <3>4. PICK q, v : /\ q = 0 - QtyOf(c)[Append(a.done, l)]
                      /\ v = v1'[c].value - v1[c].value - ValueOf(c)[a.done]
      OBVIOUS
    <3>5. q \in Int /\ v \in Int /\ ~(q > 0)
      <4>1. QtyOf(c)[Append(a.done, l)] \in Nat
        BY <1>8, QtyNat
      <4> QED BY <1>13, <3>3, <3>4, <4>1
    <3>6. QtyHeld(c)' = QtyHeld(c) + 0 + q
      <4>1. /\ QtyHeld(c)' = v1'[c].qty + Outstanding(QtyOf(c), v2', v4')
            /\ QtyHeld(c) = v1[c].qty + Outstanding(QtyOf(c), v2, v4)
        BY DEF QtyHeld
      <4>2. v1'[c].qty = v1[c].qty - QtyOf(c)[<<l>>] /\ v1[c].qty \in Int
        BY <1>13
      <4> QED BY <3>2, <3>3, <3>4, <4>1, <4>2
    <3>7. ValueHeld(c)' = ValueHeld(c) + 0 + v
      <4>1. /\ ValueHeld(c)' = v1'[c].value + Outstanding(ValueOf(c), v2', v4')
            /\ ValueHeld(c) = v1[c].value + Outstanding(ValueOf(c), v2, v4)
        BY DEF ValueHeld
      <4>2. v1'[c].value \in Int /\ v1[c].value \in Int
        BY <1>13
      <4> QED BY <3>2, <3>3, <3>4, <4>1, <4>2
    <3>8. q < 0 \/ v # 0 => Challans!Missed(c)'
      <4> SUFFICES ASSUME q < 0 \/ v # 0 PROVE Challans!Missed(c)'
        OBVIOUS
      <4>1. \E i \in DOMAIN Append(a.done, l) : Append(a.done, l)[i].cat = c
        <5> SUFFICES ASSUME ~\E i \in DOMAIN Append(a.done, l) : Append(a.done, l)[i].cat = c
                     PROVE  FALSE
          OBVIOUS
        <5>1. QtyOf(c)[Append(a.done, l)] = 0 /\ ValueOf(c)[Append(a.done, l)] = 0
          BY <1>8, AmountNone
        <5>2. c # l.cat
          <6>1. PICK n \in Nat : n = Len(a.done)
            BY <1>8 DEF Loads
          <6>2. n + 1 \in DOMAIN Append(a.done, l) /\ Append(a.done, l)[n + 1] = l
            BY <1>8, <6>1 DEF Loads
          <6> QED BY <6>2
        <5>3. ValueOf(c)[a.done] + ValueOf(c)[<<l>>] = 0
          BY <3>3, <5>1
        <5>4. v1'[c].value = v1[c].value - ValueOf(c)[<<l>>]
          BY <1>13, <5>2
        <5>5. v = 0
          BY <1>13, <3>3, <3>4, <5>3, <5>4
        <5>6. q = 0
          BY <3>4, <5>1
        <5> QED BY <5>5, <5>6
      <4>2. <<"short", c>> \in v8'
        BY <1>8, <2>1, <4>1, MarksGrow
      <4> QED BY <4>2 DEF Challans!Missed
    <3>9. 0 \in Int
      OBVIOUS
    <3> QED BY <1>4, <1>7, <1>13, <3>5, <3>6, <3>7, <3>8, <3>9, GoodMoves
  <2>6. PurchaseOk'
    BY <2>1 DEF PurchaseOk
  <2> QED BY <2>3, <2>4, <2>5, <2>6 DEF TransInv
<1>17. CASE ~(v1[l.cat].qty < l.qty)
  <2>1. v4' = [v4 EXCEPT ![w] = r] /\ v8' = worth /\ v7' = v7
    BY <1>6, <1>17
  <2>2. TransType'
    <3>1. v4' \in [Workers -> HaulRow] /\ v1' \in [Goods -> PoolRow]
      BY <1>7, <1>9, <1>11, <2>1 DEF LineShipped
    <3> QED BY <1>6, <1>7, <2>1, <3>1 DEF TransType
  <2>3. HaulsOk'
    <3>1. Ready(r, v2')
      BY <1>11 DEF Ready
    <3> QED BY <1>6, <1>7, <1>11, <2>1, <3>1, HaulsStep
  <2>4. GoodsOk'
    <3> SUFFICES ASSUME NEW c \in Goods PROVE GoodOk(c)'
      BY DEF GoodsOk
    <3>1. ASSUME NEW F, Additive(F)
          PROVE  /\ Outstanding(F, v2', v4') = Outstanding(F, v2, v4) + F[<<l>>]
                 /\ Outstanding(F, v2, v4) \in Int /\ F[<<l>>] \in Int
      <4>1. F[Challans!InHands(r)] = F[a.done] + F[<<l>>] /\ F[a.done] \in Int /\ F[<<l>>] \in Int
        BY <1>10, <1>12, <3>1
      <4>2. /\ Outstanding(F, v2', v4') = Outstanding(F, v2, v4) - F[a.done] + F[Challans!InHands(r)]
            /\ Outstanding(F, v2, v4) \in Int
        BY <1>11, <1>15, <2>1, <3>1
      <4> QED BY <4>1, <4>2
    <3>2. /\ Outstanding(QtyOf(c), v2', v4') = Outstanding(QtyOf(c), v2, v4) + QtyOf(c)[<<l>>]
          /\ Outstanding(ValueOf(c), v2', v4') = Outstanding(ValueOf(c), v2, v4) + ValueOf(c)[<<l>>]
          /\ Outstanding(QtyOf(c), v2, v4) \in Int /\ Outstanding(ValueOf(c), v2, v4) \in Int
          /\ QtyOf(c)[<<l>>] \in Int /\ ValueOf(c)[<<l>>] \in Int
      BY <3>1, AmountsAdditive
    <3>3. PICK v : v = v1'[c].value - v1[c].value + ValueOf(c)[<<l>>]
      OBVIOUS
    <3>4. v \in Int /\ 0 \in Int /\ ~(0 > 0) /\ ~(0 < 0)
      BY <1>13, <3>2, <3>3
    <3>5. QtyHeld(c)' = QtyHeld(c) + 0 + 0
      <4>1. /\ QtyHeld(c)' = v1'[c].qty + Outstanding(QtyOf(c), v2', v4')
            /\ QtyHeld(c) = v1[c].qty + Outstanding(QtyOf(c), v2, v4)
        BY DEF QtyHeld
      <4>2. v1'[c].qty = v1[c].qty - QtyOf(c)[<<l>>] /\ v1[c].qty \in Int
        BY <1>13
      <4> QED BY <3>2, <4>1, <4>2
    <3>6. ValueHeld(c)' = ValueHeld(c) + 0 + v
      <4>1. /\ ValueHeld(c)' = v1'[c].value + Outstanding(ValueOf(c), v2', v4')
            /\ ValueHeld(c) = v1[c].value + Outstanding(ValueOf(c), v2, v4)
        BY DEF ValueHeld
      <4>2. v1'[c].value \in Int /\ v1[c].value \in Int
        BY <1>13
      <4> QED BY <3>2, <3>3, <4>1, <4>2
    <3>7. v # 0 => Challans!Revalued(c)'
      <4> SUFFICES ASSUME v # 0 PROVE Challans!Revalued(c)'
        OBVIOUS
      <4>1. c = l.cat /\ l.cost # v1[l.cat].avg
        <5> SUFFICES ASSUME c # l.cat \/ l.cost = v1[l.cat].avg PROVE v = 0
          OBVIOUS
        <5>1. v1'[c].value = v1[c].value - ValueOf(c)[<<l>>]
          BY <1>13
        <5> QED BY <1>13, <3>2, <3>3, <5>1
      <4>2. v8' = Challans!Marked("revalued", <<l>>)
        BY <1>3, <2>1, <4>1
      <4>3. \E i \in DOMAIN <<l>> : <<l>>[i].cat = c
        BY <4>1
      <4>4. <<"revalued", c>> \in v8'
        BY <1>8, <4>2, <4>3, MarksGrow
      <4> QED BY <4>4 DEF Challans!Revalued
    <3> QED BY <1>4, <1>7, <1>13, <3>4, <3>5, <3>6, <3>7, GoodMoves
  <2>5. PurchaseOk'
    <3> SUFFICES ASSUME ~v7' PROVE OneServes' /\ Fitting'
      BY <1>6, <2>1, PurchaseStays DEF TransInv
    <3>1. OneServes /\ Fitting
      BY <2>1 DEF TransInv, PurchaseOk
    <3>2. \A o \in Workers : v4'[o] = IF o = w THEN r ELSE v4[o]
      BY <1>7, <2>1
    <3>3. \A o \in Workers : v4'[o].at = v4[o].at
      BY <1>1, <1>6, <1>11, <3>2
    <3>4. OneServes'
      BY <1>6, <3>1, <3>3 DEF OneServes
    <3>5. ASSUME NEW c PROVE Lead(r, c) = Lead(v4[w], c) /\ Pledge(r, c) = Pledge(v4[w], c)
      <4>1. /\ QtyOf(c)[Append(a.done, l)] = QtyOf(c)[a.done] + QtyOf(c)[<<l>>]
            /\ QtyOf(c)[a.todo] = QtyOf(c)[<<l>>] + QtyOf(c)[Tail(a.todo)]
            /\ QtyOf(c)[a.done] \in Int /\ QtyOf(c)[<<l>>] \in Int /\ QtyOf(c)[Tail(a.todo)] \in Int
        BY <1>10, AmountsAdditive
      <4> QED BY <1>1, <1>6, <1>11, <4>1 DEF Lead, Pledge
    <3>6. \A c : Leads(v4', c) = Leads(v4, c) /\ Pledges(v4', c) = Pledges(v4, c)
      BY <1>7, <1>11, <2>1, <3>5, LeadsStay
    <3> QED BY <1>6, <1>7, <3>1, <3>4, <3>6, FittingStays
  <2> QED BY <2>2, <2>3, <2>4, <2>5 DEF TransInv
<1> QED BY <1>16, <1>17

LEMMA DistributeChallanKeeps ==
    ASSUME TransInv, NEW w \in Workers, Challans!DistributeChallan(w) PROVE TransInv'
<1>1. PICK cs \in Seq(ChallanRow) : cs = v2
  BY DEF TransInv, TransType
<1>2. PICK a \in HaulRow : a = v4[w]
  BY DEF TransInv, TransType
<1>3. PICK x : x = [status |-> "in_transit", central |-> TRUE, items |-> <<>>]
  OBVIOUS
<1>4. PICK r : r = [a EXCEPT !.at = IF a.done = <<>> THEN "status" ELSE "items",
                             !.todo = a.done, !.id = Len(cs) + 1]
  OBVIOUS
<1>5. PICK ds : ds = Append(cs, x)
  OBVIOUS
<1>6. /\ a.at = "ship" /\ a.todo = <<>> /\ v2' = ds /\ v4' = [v4 EXCEPT ![w] = r]
      /\ UNCHANGED <<v1, v3, v6, v7, v8>>
  BY <1>1, <1>2, <1>3, <1>4, <1>5 DEF Challans!DistributeChallan, Challans!Becomes
<1>7. TransType /\ HaulsOk /\ GoodsOk /\ v4 \in [Workers -> HaulRow]
  BY DEF TransInv, TransType
<1>8. x \in ChallanRow /\ x.status = "in_transit" /\ x.central /\ x.items = <<>>
  BY <1>3 DEF ChallanRow, Loads
<1>9. AddedTo(cs, x, ds)
  BY <1>5, <1>8, ChallanAdded
<1>10. /\ ds \in Seq(ChallanRow) /\ DOMAIN ds = DOMAIN cs \cup {Len(cs) + 1}
       /\ ds[Len(cs) + 1] = x /\ \A k \in DOMAIN cs : ds[k] = cs[k]
  BY <1>9 DEF AddedTo
<1>11. ASSUME NEW F, Additive(F)
       PROVE  /\ OnChallans(F, ds, AwayIn(ds)) = OnChallans(F, cs, AwayIn(cs))
              /\ OnChallans(F, ds, CentralIn(ds)) = OnChallans(F, cs, CentralIn(cs))
  <2>1. F[x.items] = 0
    BY <1>8, <1>11 DEF Additive
  <2>2. /\ OnChallans(F, ds, AwayIn(ds)) = OnChallans(F, cs, AwayIn(cs)) + F[x.items]
        /\ OnChallans(F, ds, CentralIn(ds)) = OnChallans(F, cs, CentralIn(cs)) + F[x.items]
        /\ OnChallans(F, cs, AwayIn(cs)) \in Int /\ OnChallans(F, cs, CentralIn(cs)) \in Int
    BY <1>8, <1>9, <1>11 DEF AddedTo
  <2> QED BY <2>1, <2>2
<1>12. /\ r \in HaulRow /\ r.at = (IF a.done = <<>> THEN "status" ELSE "items")
       /\ r.todo = a.done /\ r.done = a.done /\ r.id = Len(cs) + 1
  <2>1. PICK e : e = IF a.done = <<>> THEN "status" ELSE "items"
    OBVIOUS
  <2>2. PICK n \in Nat : n = Len(cs) + 1
    OBVIOUS
  <2>3. r = [a EXCEPT !.at = e, !.todo = a.done, !.id = n]
    BY <1>4, <2>1, <2>2
  <2>4. e \in {"status", "items"}
    BY <2>1
  <2> QED BY <2>1, <2>2, <2>3, <2>4 DEF HaulRow, Challans!OnPurchase
<1>13. Challans!InHands(r) = a.done /\ Challans!InHands(a) = a.done
  BY <1>6, <1>12 DEF Challans!InHands
<1>14. \A o \in Workers : v4'[o] = IF o = w THEN r ELSE v4[o]
  BY <1>6, <1>7
<1>15. TransType'
  <2>1. v4' \in [Workers -> HaulRow]
    BY <1>6, <1>7, <1>12
  <2> QED BY <1>6, <1>7, <1>10, <2>1 DEF TransType
<1>16. HaulsOk'
  <2>1. \A c : QtyOf(c)[r.todo] <= QtyOf(c)[r.done]
    BY <1>12, AmountsTyped DEF HaulRow
  <2>2. Ready(r, ds)
    BY <1>8, <1>10, <1>12, <2>1 DEF Ready
  <2>3. DOMAIN v2 \subseteq DOMAIN v2' /\ \A k \in DOMAIN v2 : v2'[k].central = v2[k].central
    BY <1>1, <1>6, <1>10
  <2> QED BY <1>6, <1>7, <1>12, <2>2, <2>3, HaulsStep
<1>18. GoodsOk'
  <2>1. ASSUME NEW F, Additive(F) PROVE Outstanding(F, v2', v4') = Outstanding(F, v2, v4)
    <3>1. HandStep(v4, v4', w, r)
      BY <1>6, <1>7, <1>12, HaulsMove
    <3>2. /\ InHand(F, v4') = InHand(F, v4) - F[a.done] + F[a.done]
          /\ InHand(F, v4) \in Int /\ F[a.done] \in Int
      BY <1>2, <1>13, <2>1, <3>1 DEF HandStep
    <3>3. InHand(F, v4') = InHand(F, v4)
      BY <3>2
    <3>4. OnChallans(F, v2', AwayIn(v2')) = OnChallans(F, v2, AwayIn(v2))
      BY <1>1, <1>6, <1>11, <2>1
    <3> QED BY <3>3, <3>4 DEF Outstanding
  <2>2. \A c : QtyHeld(c)' = QtyHeld(c) /\ ValueHeld(c)' = ValueHeld(c)
    BY <1>6, <2>1, AmountsAdditive DEF QtyHeld, ValueHeld
  <2> QED BY <1>6, <1>7, <2>2, GoodsHold
<1>19. PurchaseOk'
  <2> SUFFICES ASSUME ~v7' PROVE OneServes' /\ Fitting'
    BY <1>6, PurchaseStays DEF TransInv
  <2>1. OneServes /\ Fitting
    BY <1>6 DEF TransInv, PurchaseOk
  <2>2. /\ v3.status # "none"
        /\ \A o \in Workers : o # w => v4[o].at \notin {"buy"} \cup Challans!OnPurchase
    BY <1>2, <1>6, <2>1 DEF OneServes, Challans!OnPurchase
  <2>3. OneServes'
    BY <1>6, <1>12, <1>14, <2>2 DEF OneServes, Challans!OnPurchase
  <2>4. ASSUME NEW c PROVE Lead(r, c) = Lead(v4[w], c) /\ Pledge(r, c) = Pledge(v4[w], c)
    <3>1. QtyOf(c)[<<>>] = 0 /\ QtyOf(c)[a.done] \in Int
      BY AmountsTyped, AmountsAdditive DEF Additive, HaulRow
    <3> QED BY <1>2, <1>6, <1>12, <3>1 DEF Lead, Pledge
  <2>5. \A c : Leads(v4', c) = Leads(v4, c) /\ Pledges(v4', c) = Pledges(v4, c)
    BY <1>6, <1>7, <1>12, <2>4, LeadsStay
  <2>6. \A c \in Goods : OnChallans(QtyOf(c), v2', CentralIn(v2')) = OnChallans(QtyOf(c), v2, CentralIn(v2))
    BY <1>1, <1>6, <1>11, AmountsAdditive
  <2> QED BY <1>6, <1>7, <2>1, <2>3, <2>5, <2>6, FittingStays
<1> QED BY <1>15, <1>16, <1>18, <1>19 DEF TransInv

LEMMA DistributeItemKeeps ==
    ASSUME TransInv, NEW w \in Workers, Challans!DistributeItem(w) PROVE TransInv'
<1>1. PICK cs \in Seq(ChallanRow) : cs = v2
  BY DEF TransInv, TransType
<1>2. PICK a \in HaulRow : a = v4[w]
  BY DEF TransInv, TransType
<1>3. PICK l : l = Head(a.todo)
  OBVIOUS
<1>4. PICK k : k = a.id
  OBVIOUS
<1>5. a.at = "items"
  BY <1>2 DEF Challans!DistributeItem
<1>6. TransType /\ HaulsOk /\ GoodsOk /\ v4 \in [Workers -> HaulRow]
  BY DEF TransInv, TransType
<1>7. /\ k \in DOMAIN cs /\ a.todo # <<>> /\ a.done # <<>> /\ cs[k].central
      /\ \A c \in Goods : QtyOf(c)[a.todo] <= QtyOf(c)[a.done]
  <2>1. Ready(a, cs)
    BY <1>1, <1>2, <1>6 DEF HaulsOk
  <2> QED BY <1>4, <1>5, <2>1 DEF Ready
<1>8. /\ l \in Challans!Line /\ a.todo \in Loads /\ a.done \in Loads /\ Tail(a.todo) \in Loads
      /\ Len(a.todo) = 1 <=> Tail(a.todo) = <<>>
  <2>1. a.todo \in Loads /\ a.done \in Loads
    BY DEF HaulRow
  <2> QED BY <1>3, <1>7, <2>1, TailLoads
<1>9. PICK y \in ChallanRow : y = cs[k]
  BY <1>7, ChallanAt
<1>10. PICK x : x = [y EXCEPT !.items = Append(y.items, l)]
  OBVIOUS
<1>11. PICK ds : ds = [cs EXCEPT ![k] = x]
  OBVIOUS
<1>12. PICK r : r = IF Len(a.todo) = 1 THEN [a EXCEPT !.at = "remain", !.todo = a.done]
                                       ELSE [a EXCEPT !.todo = Tail(@)]
  OBVIOUS
<1>13. /\ v2' = ds /\ v4' = [v4 EXCEPT ![w] = r]
       /\ v8' = IF k \in Challans!Away THEN v8 ELSE Challans!Marked("late", <<l>>)
       /\ UNCHANGED <<v1, v3, v6, v7>>
  BY <1>1, <1>2, <1>3, <1>4, <1>9, <1>10, <1>11, <1>12 DEF Challans!DistributeItem, Challans!Becomes
<1>14. /\ x \in ChallanRow /\ x.items = Append(y.items, l) /\ x.central = y.central
       /\ x.status = y.status
  <2>1. Append(y.items, l) \in Loads
    BY <1>8 DEF ChallanRow, Loads
  <2> QED BY <1>10, <2>1 DEF ChallanRow
<1>15. Rewritten(cs, k, x, ds)
  BY <1>7, <1>11, <1>14, RewrittenIs
<1>16. ExtendedBy(cs, k, l, ds)
  BY <1>7, <1>8, <1>9, <1>14, <1>15, ChallanExtended
<1>17. /\ ds \in Seq(ChallanRow) /\ DOMAIN ds = DOMAIN cs /\ CentralIn(ds) = CentralIn(cs)
       /\ \A j \in DOMAIN cs : ds[j].central = cs[j].central /\ ds[j].status = cs[j].status
  BY <1>15, <1>16 DEF Rewritten, ExtendedBy
<1>18. k \in CentralIn(cs)
  BY <1>7 DEF CentralIn
<1>19. Challans!Away = AwayIn(cs)
  BY <1>1 DEF Challans!Away, AwayIn
<1>20. ASSUME NEW F, Additive(F)
       PROVE  /\ OnChallans(F, ds, CentralIn(ds)) = OnChallans(F, cs, CentralIn(cs)) + F[<<l>>]
              /\ OnChallans(F, ds, AwayIn(ds)) =
                   OnChallans(F, cs, AwayIn(cs)) + IF k \in AwayIn(cs) THEN F[<<l>>] ELSE 0
              /\ OnChallans(F, cs, AwayIn(cs)) \in Int /\ OnChallans(F, cs, CentralIn(cs)) \in Int
              /\ F[<<l>>] \in Int /\ F[Tail(a.todo)] \in Int /\ F[a.todo] \in Int
              /\ F[a.todo] = F[<<l>>] + F[Tail(a.todo)] /\ F[<<>>] = 0
  <2>1. /\ F[Tail(a.todo)] \in Int /\ F[a.todo] = F[<<l>>] + F[Tail(a.todo)] /\ F[<<>>] = 0
        /\ F[a.todo] \in Int
    BY <1>3, <1>7, <1>8, <1>20 DEF Additive
  <2> QED BY <1>16, <1>18, <1>20, <2>1 DEF ExtendedBy
<1>21. /\ r \in HaulRow /\ r.done = a.done /\ r.id = k
       /\ (Len(a.todo) = 1 => r.at = "remain" /\ r.todo = a.done)
       /\ (Len(a.todo) # 1 => r.at = "items" /\ r.todo = Tail(a.todo))
  <2>1. CASE Len(a.todo) = 1
    <3>1. r = [a EXCEPT !.at = "remain", !.todo = a.done]
      BY <1>12, <2>1
    <3> QED BY <1>4, <2>1, <3>1 DEF HaulRow, Challans!OnPurchase
  <2>2. CASE Len(a.todo) # 1
    <3>1. r = [a EXCEPT !.todo = Tail(a.todo)]
      BY <1>12, <2>2
    <3> QED BY <1>4, <1>5, <1>8, <2>2, <3>1 DEF HaulRow
  <2> QED BY <2>1, <2>2
<1>22. Challans!InHands(a) = a.todo /\ Challans!InHands(r) = Tail(a.todo)
  BY <1>5, <1>8, <1>21 DEF Challans!InHands
<1>23. \A o \in Workers : v4'[o] = IF o = w THEN r ELSE v4[o]
  BY <1>6, <1>13
<1>25. TransType'
  <2>1. v4' \in [Workers -> HaulRow]
    BY <1>6, <1>13, <1>21
  <2> QED BY <1>6, <1>13, <1>17, <2>1 DEF TransType
<1>26. HaulsOk'
  <2>1. ASSUME Len(a.todo) # 1, NEW c \in Goods PROVE QtyOf(c)[r.todo] <= QtyOf(c)[r.done]
    <3>1. QtyOf(c)[a.todo] = QtyOf(c)[<<l>>] + QtyOf(c)[Tail(a.todo)]
      BY <1>20, AmountsAdditive
    <3>2. QtyOf(c)[<<l>>] \in Nat /\ QtyOf(c)[Tail(a.todo)] \in Int /\ QtyOf(c)[a.done] \in Int
      BY <1>8, LineAmount, AmountsTyped
    <3>3. r.todo = Tail(a.todo) /\ r.done = a.done
      BY <1>21, <2>1
    <3> QED BY <1>7, <3>1, <3>2, <3>3
  <2>2. Ready(r, ds)
    BY <1>7, <1>8, <1>17, <1>21, <2>1 DEF Ready
  <2>3. DOMAIN v2 \subseteq DOMAIN v2' /\ \A j \in DOMAIN v2 : v2'[j].central = v2[j].central
    BY <1>1, <1>13, <1>17
  <2> QED BY <1>6, <1>13, <1>21, <2>2, <2>3, HaulsStep
<1>27. <<l>> \in Loads /\ v8 \subseteq v8'
  <2>1. <<l>> \in Loads
    BY <1>8 DEF Loads
  <2> QED BY <1>13, <2>1, MarksGrow
<1>28. GoodsOk'
  <2> SUFFICES ASSUME NEW c \in Goods PROVE GoodOk(c)'
    BY DEF GoodsOk
  <2>1. ASSUME NEW F, Additive(F)
        PROVE  /\ Outstanding(F, v2', v4')
                    = Outstanding(F, v2, v4) - IF k \in AwayIn(cs) THEN 0 ELSE F[<<l>>]
               /\ Outstanding(F, v2, v4) \in Int /\ F[<<l>>] \in Int
    <3>1. HandStep(v4, v4', w, r)
      BY <1>6, <1>13, <1>21, HaulsMove
    <3>2. /\ InHand(F, v4') = InHand(F, v4) - F[a.todo] + F[Tail(a.todo)] /\ InHand(F, v4) \in Int
      BY <1>2, <1>22, <2>1, <3>1 DEF HandStep
    <3>3. InHand(F, v4') = InHand(F, v4) - F[<<l>>] /\ F[<<l>>] \in Int
      <4>1. /\ F[a.todo] = F[<<l>>] + F[Tail(a.todo)]
            /\ F[<<l>>] \in Int /\ F[Tail(a.todo)] \in Int
        BY <1>20, <2>1
      <4>2. PICK p, q, t \in Int : p = F[a.todo] /\ q = F[<<l>>] /\ t = F[Tail(a.todo)]
        BY <4>1
      <4>3. p = q + t /\ InHand(F, v4') = InHand(F, v4) - p + t
        BY <3>2, <4>1, <4>2
      <4> QED BY <3>2, <4>2, <4>3
    <3>4. /\ OnChallans(F, v2', AwayIn(v2')) =
               OnChallans(F, v2, AwayIn(v2)) + IF k \in AwayIn(cs) THEN F[<<l>>] ELSE 0
          /\ OnChallans(F, v2, AwayIn(v2)) \in Int
      BY <1>1, <1>13, <1>20, <2>1
    <3> QED BY <3>2, <3>3, <3>4 DEF Outstanding
  <2>2. /\ Outstanding(QtyOf(c), v2', v4') = Outstanding(QtyOf(c), v2, v4)
                                               - IF k \in AwayIn(cs) THEN 0 ELSE QtyOf(c)[<<l>>]
        /\ Outstanding(QtyOf(c), v2, v4) \in Int /\ QtyOf(c)[<<l>>] \in Int
    BY <2>1, AmountsAdditive
  <2>3. /\ Outstanding(ValueOf(c), v2', v4') = Outstanding(ValueOf(c), v2, v4)
                                                 - IF k \in AwayIn(cs) THEN 0 ELSE ValueOf(c)[<<l>>]
        /\ Outstanding(ValueOf(c), v2, v4) \in Int /\ ValueOf(c)[<<l>>] \in Int
    BY <2>1, AmountsAdditive
  <2>4. /\ v1[c].qty \in Int /\ v1[c].value \in Int /\ v6[c].qty \in Int /\ v6[c].value \in Int
        /\ QtyHeld(c) \in Int /\ ValueHeld(c) \in Int /\ GoodOk(c)
    BY <1>6, HeldTyped DEF GoodsOk
  <2>11. PICK d, e : /\ d = IF k \in AwayIn(cs) THEN 0 ELSE QtyOf(c)[<<l>>]
                     /\ e = IF k \in AwayIn(cs) THEN 0 ELSE ValueOf(c)[<<l>>]
    OBVIOUS
  <2>12. d \in Nat /\ e \in Int
    <3>1. QtyOf(c)[<<l>>] \in Nat
      BY <1>27, QtyNat
    <3> QED BY <2>3, <2>11, <3>1
  <2>5. PICK q, v : q = 0 - d /\ v = 0 - e
    OBVIOUS
  <2>6. q \in Int /\ v \in Int /\ ~(q > 0) /\ 0 \in Int
    BY <2>5, <2>12
  <2>7. QtyHeld(c)' = QtyHeld(c) + 0 + q
    <3>1. /\ QtyHeld(c)' = v1'[c].qty + Outstanding(QtyOf(c), v2', v4')
          /\ QtyHeld(c) = v1[c].qty + Outstanding(QtyOf(c), v2, v4)
      BY DEF QtyHeld
    <3>2. Outstanding(QtyOf(c), v2', v4') = Outstanding(QtyOf(c), v2, v4) - d
      BY <2>2, <2>11
    <3>3. v1' = v1
      BY <1>13
    <3>4. PICK m, n \in Int : m = v1[c].qty /\ n = Outstanding(QtyOf(c), v2, v4)
      BY <2>2, <2>4
    <3>5. QtyHeld(c) = m + n /\ QtyHeld(c)' = m + (n - d)
      BY <3>1, <3>2, <3>3, <3>4
    <3>6. m + (n - d) = (m + n) + 0 + (0 - d)
      BY <2>12, <3>4
    <3> QED BY <2>5, <3>5, <3>6
  <2>8. ValueHeld(c)' = ValueHeld(c) + 0 + v
    <3>1. /\ ValueHeld(c)' = v1'[c].value + Outstanding(ValueOf(c), v2', v4')
          /\ ValueHeld(c) = v1[c].value + Outstanding(ValueOf(c), v2, v4)
      BY DEF ValueHeld
    <3>2. Outstanding(ValueOf(c), v2', v4') = Outstanding(ValueOf(c), v2, v4) - e
      BY <2>3, <2>11
    <3>3. v1' = v1
      BY <1>13
    <3>4. PICK m, n \in Int : m = v1[c].value /\ n = Outstanding(ValueOf(c), v2, v4)
      BY <2>3, <2>4
    <3>5. ValueHeld(c) = m + n /\ ValueHeld(c)' = m + (n - e)
      BY <3>1, <3>2, <3>3, <3>4
    <3>6. m + (n - e) = (m + n) + 0 + (0 - e)
      BY <2>12, <3>4
    <3> QED BY <2>5, <3>5, <3>6
  <2>9. q < 0 \/ v # 0 => Challans!Missed(c)'
    <3> SUFFICES ASSUME q < 0 \/ v # 0 PROVE Challans!Missed(c)'
      OBVIOUS
    <3>1. k \notin AwayIn(cs) /\ (QtyOf(c)[<<l>>] # 0 \/ ValueOf(c)[<<l>>] # 0)
      <4>1. d # 0 \/ e # 0
        BY <2>5, <2>12
      <4> QED BY <2>11, <4>1
    <3>2. \E i \in DOMAIN <<l>> : <<l>>[i].cat = c
      BY <1>27, <3>1, AmountNone
    <3>3. <<"late", c>> \in v8'
      BY <1>13, <1>19, <1>27, <3>1, <3>2, MarksGrow
    <3> QED BY <3>3 DEF Challans!Missed
  <2>10. v6'[c].qty = v6[c].qty + 0 /\ v6'[c].value = v6[c].value + 0
    BY <1>13, <2>4
  <2> QED BY <1>6, <1>27, <2>4, <2>6, <2>7, <2>8, <2>9, <2>10, GoodMoves
<1>29. PurchaseOk'
  <2> SUFFICES ASSUME ~v7' PROVE OneServes' /\ Fitting'
    BY <1>13, PurchaseStays DEF TransInv
  <2>1. OneServes /\ Fitting
    BY <1>13 DEF TransInv, PurchaseOk
  <2>2. \A o \in Workers : o # w => v4[o].at \notin {"buy"} \cup Challans!OnPurchase
    BY <1>2, <1>5, <2>1 DEF OneServes, Challans!OnPurchase
  <2>3. v3.status # "none"
    BY <1>2, <1>5, <2>1 DEF OneServes, Challans!OnPurchase
  <2>4. r.at \in {"items", "remain"}
    BY <1>21
  <2>5. OneServes'
    BY <1>13, <1>23, <2>2, <2>3, <2>4 DEF OneServes, Challans!OnPurchase
  <2>6. LeadStep(v4, v4', w, r)
    BY <1>6, <1>13, <1>21, LeadsMove
  <2>7. ASSUME NEW c \in Goods
        PROVE  /\ OnChallans(QtyOf(c), v2', CentralIn(v2'))
                    = OnChallans(QtyOf(c), v2, CentralIn(v2)) + QtyOf(c)[<<l>>]
               /\ Leads(v4', c) = Leads(v4, c) + QtyOf(c)[<<l>>]
               /\ Pledges(v4', c) = Pledges(v4, c)
               /\ OnChallans(QtyOf(c), v2, CentralIn(v2)) \in Int
               /\ QtyOf(c)[<<l>>] \in Int /\ Leads(v4, c) \in Int
    <3>1. /\ OnChallans(QtyOf(c), v2', CentralIn(v2'))
               = OnChallans(QtyOf(c), v2, CentralIn(v2)) + QtyOf(c)[<<l>>]
          /\ QtyOf(c)[<<l>>] \in Int /\ OnChallans(QtyOf(c), v2, CentralIn(v2)) \in Int
      BY <1>1, <1>13, <1>20, AmountsAdditive
    <3>2. /\ QtyOf(c)[a.todo] = QtyOf(c)[<<l>>] + QtyOf(c)[Tail(a.todo)] /\ QtyOf(c)[<<>>] = 0
          /\ QtyOf(c)[a.todo] \in Int /\ QtyOf(c)[Tail(a.todo)] \in Int
      BY <1>20, AmountsAdditive
    <3>3. QtyOf(c)[a.done] \in Int
      BY <1>8, AmountsTyped
    <3>4. /\ Lead(a, c) = QtyOf(c)[a.done] - QtyOf(c)[a.todo] /\ Pledge(a, c) = QtyOf(c)[a.done]
      BY <1>5 DEF Lead, Pledge
    <3>5. /\ Lead(r, c) = QtyOf(c)[a.done] - QtyOf(c)[Tail(a.todo)] /\ Pledge(r, c) = QtyOf(c)[a.done]
      <4>1. CASE Len(a.todo) = 1
        <5>1. QtyOf(c)[Tail(a.todo)] = 0
          BY <1>8, <3>2, <4>1
        <5> QED BY <1>21, <3>3, <4>1, <5>1 DEF Lead, Pledge
      <4>2. CASE Len(a.todo) # 1
        BY <1>21, <4>2 DEF Lead, Pledge
      <4> QED BY <4>1, <4>2
    <3>6. /\ Leads(v4', c) = Leads(v4, c) - Lead(a, c) + Lead(r, c)
          /\ Pledges(v4', c) = Pledges(v4, c) - Pledge(a, c) + Pledge(r, c)
          /\ Leads(v4, c) \in Int /\ Pledges(v4, c) \in Int
      BY <1>2, <2>6 DEF LeadStep
    <3>7. PICK q, t, d \in Int : q = QtyOf(c)[<<l>>] /\ t = QtyOf(c)[Tail(a.todo)] /\ d = QtyOf(c)[a.done]
      BY <3>1, <3>2, <3>3
    <3>8. Lead(a, c) = d - (q + t) /\ Lead(r, c) = d - t /\ Pledge(a, c) = d /\ Pledge(r, c) = d
      BY <3>2, <3>4, <3>5, <3>7
    <3>9. Leads(v4', c) = Leads(v4, c) + q /\ Pledges(v4', c) = Pledges(v4, c)
      <4>1. PICK e, g \in Int : e = Leads(v4, c) /\ g = Pledges(v4, c)
        BY <3>6
      <4>2. Leads(v4', c) = e - (d - (q + t)) + (d - t) /\ Pledges(v4', c) = g - d + d
        BY <3>6, <3>8, <4>1
      <4>3. e - (d - (q + t)) + (d - t) = e + q /\ g - d + d = g
        OBVIOUS
      <4> QED BY <4>1, <4>2, <4>3
    <3> QED BY <3>1, <3>6, <3>7, <3>9
  <2>8. ASSUME NEW c \in Goods
        PROVE  /\ CatRow(v3.items, c).remaining + OnChallans(QtyOf(c), v2', CentralIn(v2'))
                    = CatRow(v3.items, c).qty + Leads(v4', c)
               /\ Pledges(v4', c) <= CatRow(v3.items, c).remaining
    <3>1. PICK m, n : m = CatRow(v3.items, c).remaining /\ n = CatRow(v3.items, c).qty
      OBVIOUS
    <3>2. /\ m + OnChallans(QtyOf(c), v2, CentralIn(v2)) = n + Leads(v4, c)
          /\ Pledges(v4, c) <= m
      BY <2>1, <3>1 DEF Fitting
    <3>3. PICK q \in Int : q = QtyOf(c)[<<l>>]
      BY <2>7
    <3>4. /\ OnChallans(QtyOf(c), v2', CentralIn(v2')) = OnChallans(QtyOf(c), v2, CentralIn(v2)) + q
          /\ Leads(v4', c) = Leads(v4, c) + q /\ Pledges(v4', c) = Pledges(v4, c)
          /\ OnChallans(QtyOf(c), v2, CentralIn(v2)) \in Int /\ Leads(v4, c) \in Int
      BY <2>7, <3>3
    <3>5. m \in Int /\ n \in Int
      <4>1. PICK rows \in Seq(BoughtRow) : rows = v3.items /\ HasLast(rows)
        BY <1>6 DEF TransType, BoughtRows
      <4> QED BY <3>1, <4>1, ListedTyped
    <3>6. /\ m + OnChallans(QtyOf(c), v2', CentralIn(v2')) = n + Leads(v4', c)
          /\ Pledges(v4', c) <= m
      BY <3>2, <3>4, <3>5
    <3> QED BY <3>1, <3>6
  <2>9. Fitting'
    <3>1. v3' = v3
      BY <1>13
    <3> QED BY <2>1, <2>8, <3>1 DEF Fitting
  <2> QED BY <2>5, <2>9
<1> QED BY <1>25, <1>26, <1>28, <1>29 DEF TransInv

LEMMA DistributeRemainKeeps ==
    ASSUME TransInv, NEW w \in Workers, Challans!DistributeRemain(w) PROVE TransInv'
<1>1. PICK a \in HaulRow : a = v4[w]
  BY DEF TransInv, TransType
<1>2. PICK l : l = Head(a.todo)
  OBVIOUS
<1>3. PICK r : r = IF Len(a.todo) = 1 THEN [a EXCEPT !.at = "status"] ELSE [a EXCEPT !.todo = Tail(@)]
  OBVIOUS
<1>4. /\ a.at = "remain" /\ v4' = [v4 EXCEPT ![w] = r] /\ UNCHANGED <<v1, v2, v6, v7, v8>>
      /\ v3' = [v3 EXCEPT !.items = Challans!Drawn(@, l)]
  BY <1>1, <1>2, <1>3 DEF Challans!DistributeRemain, Challans!Becomes
<1>5. TransType /\ HaulsOk /\ GoodsOk /\ v4 \in [Workers -> HaulRow] /\ v3 \in BoughtRows
  BY DEF TransInv, TransType
<1>6. a.todo # <<>> /\ a.todo \in Loads
  <2>1. Ready(a, v2)
    BY <1>1, <1>5 DEF HaulsOk
  <2> QED BY <1>4, <2>1 DEF Ready, HaulRow
<1>7. l \in Challans!Line /\ Tail(a.todo) \in Loads /\ (Len(a.todo) = 1 <=> Tail(a.todo) = <<>>)
  BY <1>2, <1>6, TailLoads
<1>8. l.cat \in Goods /\ l.qty \in Int
  BY <1>7 DEF Challans!Line
<1>18. PICK rows \in Seq(BoughtRow) : rows = v3.items /\ HasLast(rows)
  BY <1>5 DEF TransType, BoughtRows
<1>19. PICK less : less = Challans!Drawn(rows, l)
  OBVIOUS
<1>20. /\ less \in Seq(BoughtRow) /\ HasLast(less) /\ DOMAIN less = DOMAIN rows
       /\ \A i \in DOMAIN rows :
            /\ less[i].cat = rows[i].cat /\ less[i].qty = rows[i].qty
            /\ less[i].remaining = rows[i].remaining - IF rows[i].cat = l.cat THEN l.qty ELSE 0
       /\ \A c \in Goods :
            /\ CatRow(less, c).qty = CatRow(rows, c).qty
            /\ CatRow(less, c).remaining = CatRow(rows, c).remaining
                                             - IF c = l.cat /\ RowsFor(rows, c) # {} THEN l.qty ELSE 0
  BY <1>7, <1>18, <1>19, ListedDrawn
<1>9. v3' \in BoughtRows /\ v3'.status = v3.status /\ v3'.items = less
  BY <1>4, <1>5, <1>18, <1>19, <1>20 DEF BoughtRows
<1>10. /\ r \in HaulRow
       /\ (Len(a.todo) = 1 => r.at = "status") /\ (Len(a.todo) # 1 => r.at = "remain" /\ r.todo = Tail(a.todo))
  BY <1>3, <1>4, <1>7 DEF HaulRow, Challans!OnPurchase
<1>11. Challans!InHands(r) = Challans!InHands(v4[w])
  BY <1>1, <1>4, <1>10 DEF Challans!InHands
<1>12. \A o \in Workers : v4'[o] = IF o = w THEN r ELSE v4[o]
  BY <1>4, <1>5
<1>13. TransType'
  <2>1. v4' \in [Workers -> HaulRow]
    BY <1>4, <1>5, <1>10
  <2> QED BY <1>4, <1>5, <1>9, <1>20, <2>1 DEF TransType
<1>14. HaulsOk'
  <2>1. Ready(r, v2')
    BY <1>7, <1>10 DEF Ready
  <2> QED BY <1>4, <1>5, <1>10, <2>1, HaulsStep
<1>16. GoodsOk'
  BY <1>4, <1>5, <1>10, <1>11, GoodsStay
<1>17. PurchaseOk'
  <2> SUFFICES ASSUME ~v7' PROVE OneServes' /\ Fitting' /\ Alike(less) /\ Spent'
    BY <1>9 DEF PurchaseOk
  <2>1. OneServes /\ Fitting /\ Alike(rows) /\ Spent
    BY <1>4, <1>18 DEF TransInv, PurchaseOk
  <2>2. /\ v3.status # "none"
        /\ \A o \in Workers : o # w => v4[o].at \notin {"buy"} \cup Challans!OnPurchase
    BY <1>1, <1>4, <2>1 DEF OneServes, Challans!OnPurchase
  <2>3. r.at \in {"remain", "status"}
    BY <1>10
  <2>4. OneServes'
    BY <1>4, <1>9, <1>12, <2>2, <2>3 DEF OneServes, Challans!OnPurchase
  <2>5. LeadStep(v4, v4', w, r)
    BY <1>4, <1>5, <1>10, LeadsMove
  <2>6. ASSUME NEW c \in Goods
        PROVE  /\ CatRow(less, c).remaining + OnChallans(QtyOf(c), v2', CentralIn(v2'))
                    = CatRow(less, c).qty + Leads(v4', c)
               /\ Pledges(v4', c) <= CatRow(less, c).remaining
    <3>1. PICK q \in Nat : q = QtyOf(c)[<<l>>]
      BY <1>7, LineAmount
    <3>2. PICK t \in Int : t = QtyOf(c)[Tail(a.todo)]
      BY <1>7, AmountsTyped
    <3>3. /\ QtyOf(c)[a.todo] = q + t /\ QtyOf(c)[<<>>] = 0
      BY <1>2, <1>6, <3>1, <3>2, AmountsAdditive DEF Additive
    <3>4. Lead(a, c) = q + t /\ Pledge(a, c) = q + t
      BY <1>4, <3>3 DEF Lead, Pledge
    <3>5. Lead(r, c) = t /\ Pledge(r, c) = t
      <4>1. CASE Len(a.todo) = 1
        <5>1. t = 0
          BY <1>7, <3>2, <3>3, <4>1
        <5> QED BY <1>10, <4>1, <5>1 DEF Lead, Pledge
      <4>2. CASE Len(a.todo) # 1
        BY <1>10, <3>2, <4>2 DEF Lead, Pledge
      <4> QED BY <4>1, <4>2
    <3>6. /\ Leads(v4', c) = Leads(v4, c) - (q + t) + t
          /\ Pledges(v4', c) = Pledges(v4, c) - (q + t) + t
          /\ Leads(v4, c) \in Int /\ Pledges(v4, c) \in Int
      BY <1>1, <2>5, <3>4, <3>5 DEF LeadStep
    <3>7. Leads(v4', c) = Leads(v4, c) - q /\ Pledges(v4', c) = Pledges(v4, c) - q
      BY <3>6
    <3>8. PICK m, n : m = CatRow(rows, c).remaining /\ n = CatRow(rows, c).qty
      OBVIOUS
    <3>9. OnChallans(QtyOf(c), v2, CentralIn(v2)) \in Int /\ v2' = v2 /\ m \in Int /\ n \in Int
      BY <1>4, <1>5, <1>18, <3>8, AmountsAdditive, OutstandingIs, ListedTyped
    <3>10. m + OnChallans(QtyOf(c), v2, CentralIn(v2)) = n + Leads(v4, c) /\ Pledges(v4, c) <= m
      BY <1>18, <2>1, <3>8 DEF Fitting
    <3>11. CatRow(less, c).qty = n /\ CatRow(less, c).remaining = m - q
      <4>1. q = IF c = l.cat THEN l.qty ELSE 0
        BY <1>7, <3>1, LineAmount
      <4>2. CASE RowsFor(rows, c) # {}
        BY <1>20, <3>8, <4>1, <4>2
      <4>3. CASE RowsFor(rows, c) = {}
        <5>1. m = 0
          BY <3>8, <4>3 DEF CatRow, NoCatRow
        <5>2. Pledges(v4', c) \in Nat
          <6>1. PICK reqs \in [Workers -> HaulRow] : reqs = v4'
            BY <1>13 DEF TransType
          <6>2. \A o \in Workers : reqs[o].at = "items" => QtyOf(c)[reqs[o].todo] <= QtyOf(c)[reqs[o].done]
            BY <1>14, <6>1 DEF HaulsOk, Ready
          <6> QED BY <6>1, <6>2, LeadsWithinPledges
        <5>3. q = 0
          BY <3>6, <3>7, <3>10, <5>1, <5>2
        <5>4. CatRow(less, c).remaining = m - 0
          BY <1>20, <3>8, <4>3
        <5> QED BY <1>20, <3>8, <5>3, <5>4
      <4> QED BY <4>2, <4>3
    <3> QED BY <3>6, <3>7, <3>9, <3>10, <3>11
  <2>7. Fitting'
    BY <1>9, <2>6 DEF Fitting
  <2>8. Alike(less)
    <3> SUFFICES ASSUME NEW i \in DOMAIN rows
                 PROVE  less[i].qty - less[i].remaining =
                          CatRow(less, rows[i].cat).qty - CatRow(less, rows[i].cat).remaining
      BY <1>20 DEF Alike
    <3>1. PICK y \in BoughtRow : y = rows[i]
      OBVIOUS
    <3>2. y.cat \in Goods /\ y.qty \in Int /\ y.remaining \in Int
      BY DEF BoughtRow
    <3>3. RowsFor(rows, y.cat) # {}
      BY <3>1 DEF RowsFor
    <3>4. PICK m, n : m = CatRow(rows, y.cat).remaining /\ n = CatRow(rows, y.cat).qty
      OBVIOUS
    <3>5. m \in Int /\ n \in Int
      BY <1>18, <3>2, <3>4, ListedTyped
    <3>6. y.qty - y.remaining = n - m
      BY <2>1, <3>1, <3>4 DEF Alike
    <3>7. PICK d \in Int : d = IF y.cat = l.cat THEN l.qty ELSE 0
      BY <1>8
    <3>8. less[i].qty = y.qty /\ less[i].remaining = y.remaining - d
      BY <1>20, <3>1, <3>7
    <3>9. CatRow(less, y.cat).qty = n /\ CatRow(less, y.cat).remaining = m - d
      BY <1>20, <3>2, <3>3, <3>4, <3>7
    <3>10. y.qty - (y.remaining - d) = n - (m - d)
      BY <3>2, <3>5, <3>6, <3>7
    <3> QED BY <3>1, <3>8, <3>9, <3>10
  <2>9. Spent'
    <3> SUFFICES ASSUME v3.status = "distributed", NEW i \in DOMAIN rows PROVE less[i].remaining <= 0
      BY <1>9, <1>20 DEF Spent
    <3>1. PICK y \in BoughtRow : y = rows[i]
      OBVIOUS
    <3>2. y.remaining \in Int /\ y.remaining <= 0
      BY <1>18, <2>1, <3>1 DEF Spent, BoughtRow
    <3>3. l.qty \in Nat
      BY <1>7 DEF Challans!Line
    <3>4. less[i].remaining = y.remaining - IF y.cat = l.cat THEN l.qty ELSE 0
      BY <1>20, <3>1
    <3> QED BY <3>2, <3>3, <3>4
  <2> QED BY <2>4, <2>7, <2>8, <2>9
<1> QED BY <1>13, <1>14, <1>16, <1>17 DEF TransInv

LEMMA DistributeStatusKeeps ==
    ASSUME TransInv, NEW w \in Workers, Challans!DistributeStatus(w) PROVE TransInv'
<1>1. PICK a \in HaulRow : a = v4[w]
  BY DEF TransInv, TransType
<1>2. /\ a.at = "status" /\ v4' = [v4 EXCEPT ![w] = Challans!idle] /\ UNCHANGED <<v1, v2, v6, v7, v8>>
      /\ v3' = IF \E i \in DOMAIN v3.items : v3.items[i].remaining > 0
               THEN v3 ELSE [v3 EXCEPT !.status = "distributed"]
  BY <1>1 DEF Challans!DistributeStatus, Challans!Becomes
<1>3. TransType /\ HaulsOk /\ GoodsOk /\ v4 \in [Workers -> HaulRow] /\ v3 \in BoughtRows
  BY DEF TransInv, TransType
<1>4. /\ v3' \in BoughtRows /\ v3'.items = v3.items /\ v3'.status \in {v3.status, "distributed"}
      /\ v3'.status # v3.status => \A i \in DOMAIN v3.items : ~(v3.items[i].remaining > 0)
  <2>1. CASE \E i \in DOMAIN v3.items : v3.items[i].remaining > 0
    BY <1>2, <1>3, <2>1
  <2>2. CASE ~\E i \in DOMAIN v3.items : v3.items[i].remaining > 0
    BY <1>2, <1>3, <2>2 DEF BoughtRows
  <2> QED BY <2>1, <2>2
<1>5. Challans!InHands(Challans!idle) = Challans!InHands(v4[w])
  BY <1>1, <1>2, IdleHaul DEF Challans!InHands
<1>6. \A o \in Workers : v4'[o] = IF o = w THEN Challans!idle ELSE v4[o]
  BY <1>2, <1>3
<1>7. TransType'
  <2>1. v4' \in [Workers -> HaulRow]
    BY <1>2, <1>3, IdleHaul
  <2> QED BY <1>2, <1>3, <1>4, <2>1 DEF TransType
<1>8. HaulsOk'
  <2>1. Ready(Challans!idle, v2')
    BY IdleHaul DEF Ready
  <2> QED BY <1>2, <1>3, <2>1, IdleHaul, HaulsStep
<1>10. GoodsOk'
  BY <1>2, <1>3, <1>5, IdleHaul, GoodsStay
<1>11. PurchaseOk'
  <2> SUFFICES ASSUME ~v7' PROVE OneServes' /\ Fitting' /\ Alike(v3'.items) /\ Spent'
    BY DEF PurchaseOk
  <2>1. OneServes /\ Fitting /\ Alike(v3.items) /\ Spent
    BY <1>2 DEF TransInv, PurchaseOk
  <2>2. /\ v3.status # "none"
        /\ \A o \in Workers : o # w => v4[o].at \notin {"buy"} \cup Challans!OnPurchase
    BY <1>1, <1>2, <2>1 DEF OneServes, Challans!OnPurchase
  <2>3. OneServes'
    <3>1. \A o \in Workers : v4'[o].at \notin {"buy"} \cup Challans!OnPurchase
      BY <1>6, <2>2, IdleHaul DEF Challans!OnPurchase
    <3>2. v3'.status # "none"
      BY <1>4, <2>2
    <3> QED BY <3>1, <3>2 DEF OneServes, Challans!OnPurchase
  <2>4. \A c : Lead(Challans!idle, c) = Lead(v4[w], c) /\ Pledge(Challans!idle, c) = Pledge(v4[w], c)
    BY <1>1, <1>2, IdleHaul DEF Lead, Pledge
  <2>5. \A c : Leads(v4', c) = Leads(v4, c) /\ Pledges(v4', c) = Pledges(v4, c)
    BY <1>2, <1>3, <2>4, IdleHaul, LeadsStay
  <2>6. Spent'
    <3> SUFFICES ASSUME v3'.status = "distributed", NEW i \in DOMAIN v3.items PROVE v3.items[i].remaining <= 0
      BY <1>4 DEF Spent
    <3>1. PICK y \in BoughtRow : y = v3.items[i]
      BY <1>3 DEF BoughtRows
    <3>2. y.remaining \in Int
      BY DEF BoughtRow
    <3>3. CASE v3.status = "distributed"
      BY <2>1, <3>3 DEF Spent
    <3>4. CASE v3.status # "distributed"
      BY <1>4, <3>1, <3>2, <3>4
    <3> QED BY <3>3, <3>4
  <2>7. Fitting'
    BY <1>2, <1>4, <2>1, <2>5 DEF Fitting
  <2>8. Alike(v3'.items)
    BY <1>4, <2>1
  <2> QED BY <2>3, <2>6, <2>7, <2>8
<1> QED BY <1>7, <1>8, <1>10, <1>11 DEF TransInv

LEMMA HaulDies ==
    ASSUME TransInv, NEW w \in Workers, Challans!Die(w) PROVE TransInv'
<1>1. PICK a \in HaulRow : a = v4[w]
  BY DEF TransInv, TransType
<1>2. PICK s : s = Challans!InHands(a)
  OBVIOUS
<1>3. /\ a.at # "idle" /\ v4' = [v4 EXCEPT ![w] = Challans!idle] /\ UNCHANGED <<v1, v2, v3, v6>>
      /\ v8' = Challans!Marked("died", s) /\ v7' = (v7 \/ a.at \in Challans!OnPurchase)
  BY <1>1, <1>2 DEF Challans!Die, Challans!Becomes
<1>4. TransType /\ HaulsOk /\ GoodsOk /\ v4 \in [Workers -> HaulRow] /\ s \in Loads
  BY <1>2, HandsTyped DEF TransInv, TransType
<1>5. v8 \subseteq v8'
  BY <1>3, <1>4, MarksGrow
<1>6. \A o \in Workers : v4'[o] = IF o = w THEN Challans!idle ELSE v4[o]
  BY <1>3, <1>4
<1>7. TransType'
  <2>1. v4' \in [Workers -> HaulRow] /\ v7' \in BOOLEAN
    BY <1>3, <1>4, IdleHaul
  <2> QED BY <1>3, <1>4, <2>1 DEF TransType
<1>8. HaulsOk'
  <2>1. Ready(Challans!idle, v2')
    BY IdleHaul DEF Ready
  <2> QED BY <1>3, <1>4, <2>1, IdleHaul, HaulsStep
<1>10. GoodsOk'
  <2> SUFFICES ASSUME NEW c \in Goods PROVE GoodOk(c)'
    BY DEF GoodsOk
  <2>1. ASSUME NEW F, Additive(F)
        PROVE  /\ Outstanding(F, v2', v4') = Outstanding(F, v2, v4) - F[s]
               /\ Outstanding(F, v2, v4) \in Int /\ F[s] \in Int
    <3>1. HandStep(v4, v4', w, Challans!idle)
      BY <1>3, <1>4, IdleHaul, HaulsMove
    <3>2. F[Challans!InHands(Challans!idle)] = 0
      BY <2>1, IdleHaul DEF Additive
    <3>3. /\ InHand(F, v4') = InHand(F, v4) - F[s] + 0 /\ InHand(F, v4) \in Int /\ F[s] \in Int
      BY <1>1, <1>2, <2>1, <3>1, <3>2 DEF HandStep
    <3>4. OnChallans(F, v2, AwayIn(v2)) \in Int /\ v2' = v2
      BY <1>3, <1>4, <2>1, OutstandingIs
    <3> QED BY <3>3, <3>4 DEF Outstanding
  <2>2. /\ Outstanding(QtyOf(c), v2', v4') = Outstanding(QtyOf(c), v2, v4) - QtyOf(c)[s]
        /\ Outstanding(ValueOf(c), v2', v4') = Outstanding(ValueOf(c), v2, v4) - ValueOf(c)[s]
        /\ Outstanding(QtyOf(c), v2, v4) \in Int /\ Outstanding(ValueOf(c), v2, v4) \in Int
        /\ QtyOf(c)[s] \in Int /\ ValueOf(c)[s] \in Int
    BY <2>1, AmountsAdditive
  <2>3. /\ v1[c].qty \in Int /\ v1[c].value \in Int /\ v6[c].qty \in Int /\ v6[c].value \in Int
        /\ QtyHeld(c) \in Int /\ ValueHeld(c) \in Int /\ GoodOk(c)
    BY <1>4, HeldTyped DEF GoodsOk
  <2>4. PICK q, v : q = 0 - QtyOf(c)[s] /\ v = 0 - ValueOf(c)[s]
    OBVIOUS
  <2>5. q \in Int /\ v \in Int /\ ~(q > 0) /\ 0 \in Int
    <3>1. QtyOf(c)[s] \in Nat
      BY <1>4, QtyNat
    <3> QED BY <2>2, <2>4, <3>1
  <2>6. QtyHeld(c)' = QtyHeld(c) + 0 + q
    <3>1. /\ QtyHeld(c)' = v1'[c].qty + Outstanding(QtyOf(c), v2', v4')
          /\ QtyHeld(c) = v1[c].qty + Outstanding(QtyOf(c), v2, v4)
      BY DEF QtyHeld
    <3> QED BY <1>3, <2>2, <2>3, <2>4, <3>1
  <2>7. ValueHeld(c)' = ValueHeld(c) + 0 + v
    <3>1. /\ ValueHeld(c)' = v1'[c].value + Outstanding(ValueOf(c), v2', v4')
          /\ ValueHeld(c) = v1[c].value + Outstanding(ValueOf(c), v2, v4)
      BY DEF ValueHeld
    <3> QED BY <1>3, <2>2, <2>3, <2>4, <3>1
  <2>8. q < 0 \/ v # 0 => Challans!Missed(c)'
    <3> SUFFICES ASSUME q < 0 \/ v # 0 PROVE Challans!Missed(c)'
      OBVIOUS
    <3>1. QtyOf(c)[s] # 0 \/ ValueOf(c)[s] # 0
      BY <2>2, <2>4, <2>5
    <3>2. \E i \in DOMAIN s : s[i].cat = c
      BY <1>4, <3>1, AmountNone
    <3>3. <<"died", c>> \in v8'
      BY <1>3, <1>4, <3>2, MarksGrow
    <3> QED BY <3>3 DEF Challans!Missed
  <2>9. v6'[c].qty = v6[c].qty + 0 /\ v6'[c].value = v6[c].value + 0
    BY <1>3, <2>3
  <2> QED BY <1>4, <1>5, <2>3, <2>5, <2>6, <2>7, <2>8, <2>9, GoodMoves
<1>11. PurchaseOk'
  <2> SUFFICES ASSUME ~v7' PROVE OneServes' /\ Fitting'
    BY <1>3, <1>4, PurchaseStays DEF TransInv, TransType
  <2>1. ~v7 /\ a.at \notin Challans!OnPurchase
    BY <1>3, <1>4 DEF TransType
  <2>2. OneServes /\ Fitting
    BY <2>1 DEF TransInv, PurchaseOk
  <2>3. OneServes'
    BY <1>3, <1>6, <2>2, IdleHaul DEF OneServes, Challans!OnPurchase
  <2>4. \A c : Lead(Challans!idle, c) = Lead(v4[w], c) /\ Pledge(Challans!idle, c) = Pledge(v4[w], c)
    BY <1>1, <2>1, IdleHaul DEF Lead, Pledge, Challans!OnPurchase
  <2>5. \A c : Leads(v4', c) = Leads(v4, c) /\ Pledges(v4', c) = Pledges(v4, c)
    BY <1>3, <1>4, <2>4, IdleHaul, LeadsStay
  <2> QED BY <1>3, <1>4, <2>2, <2>3, <2>5, FittingStays
<1> QED BY <1>7, <1>8, <1>10, <1>11 DEF TransInv

LEMMA TransStep == TransInv /\ Challans!Next => TransInv'
<1> SUFFICES ASSUME TransInv, Challans!Next PROVE TransInv'
  OBVIOUS
<1>1. ASSUME NEW s \in Outgoing, Challans!CreateTransferOut(s) PROVE TransInv'
  BY <1>1, TransfersAssumption, TransferOutKeeps DEF Loads
<1>2. ASSUME NEW k \in DOMAIN v2, Challans!Accept(k) PROVE TransInv'
  BY <1>2, AcceptKeeps
<1>3. ASSUME NEW w \in Workers, NEW k \in DOMAIN v2, Challans!RejectRead(w, k) PROVE TransInv'
  BY <1>3, RejectReadKeeps
<1>4. ASSUME NEW w \in Workers, Challans!RejectWrite(w) PROVE TransInv'
  BY <1>4, RejectWriteKeeps
<1>5. ASSUME NEW w \in Workers, NEW s \in Incoming, Challans!BuyStart(w, s) PROVE TransInv'
  <2>1. s \in Loads /\ s # <<>>
    BY TransfersAssumption DEF Loads
  <2> QED BY <1>5, <2>1, BuyStartKeeps
<1>6. ASSUME NEW w \in Workers,
             Challans!BuyLine(w) \/ Challans!BuyRow(w) \/ Challans!BuyItem(w)
      PROVE  TransInv'
  BY <1>6, BuyLineKeeps, BuyRowKeeps, BuyItemKeeps
<1>7. ASSUME NEW w \in Workers, NEW s \in Outgoing, Challans!DistributeRead(w, s) PROVE TransInv'
  BY <1>7, TransfersAssumption, DistributeReadKeeps DEF Loads
<1>8. ASSUME NEW w \in Workers,
             Challans!DistributeShip(w) \/ Challans!DistributeChallan(w) \/ Challans!DistributeItem(w)
      PROVE  TransInv'
  BY <1>8, DistributeShipKeeps, DistributeChallanKeeps, DistributeItemKeeps
<1>9. ASSUME NEW w \in Workers,
             Challans!DistributeRemain(w) \/ Challans!DistributeStatus(w) \/ Challans!Die(w)
      PROVE  TransInv'
  BY <1>9, DistributeRemainKeeps, DistributeStatusKeeps, HaulDies
<1> QED BY <1>1, <1>2, <1>3, <1>4, <1>5, <1>6, <1>7, <1>8, <1>9 DEF Challans!Next

====
