---- MODULE DeskProofs ----
(***************************************************************************)
(* What the desk's books say, and that every step keeps it, for all values *)
(* of the constants: any callers, payments, layaways, sales and requests   *)
(* under way.  BackOfficeProofs draws the theorem.                         *)
(***************************************************************************)
EXTENDS MCDesk, SumTheorems, TLAPS

-----------------------------------------------------------------------------
(***************************************************************************)
(* The desk.                                                               *)
(* v1 = people, v2 = sales, v3 = payments, v4 = drawer, v5 = redeemed,     *)
(* v6 = orders, v7 = jobs, v8 = day, v9 = moves, v10 = awards, v11 = over, *)
(* v12 = marks.  The books are stated for every number a customer may come *)
(* to have: one who is not there yet owes nothing and has no points, so    *)
(* that a sale to a newcomer is a sale like any other.                     *)
(***************************************************************************)
Everyone == 1 .. MaxCustomers
Balance(i) == IF i \in 1 .. Len(v1) THEN v1[i].credit ELSE 0
Points(i) == IF i \in 1 .. Len(v1) THEN v1[i].points ELSE 0
Used(i) == IF i \in 1 .. Len(v1) THEN v1[i].used ELSE 0
Referred(i) == i \in 1 .. Len(v1) /\ v1[i].referred
Gone(i) == i \in 1 .. Len(v1) /\ v1[i].deleted

Customer == [phone : Callers, credit : Nat, points : Int, used : Nat, referred : BOOLEAN,
             deleted : BOOLEAN]
Ticket == [who : Nat, day : {1, 2}, status : {"paid", "credit", "layaway"}, left : Nat, given : Nat]
Receipt == [who : Nat, key : PaymentKeys]
Redemption == [who : Nat, use : Nat]
Order == [id : Int, kind : {"hold", "quote"}, ref : Nat]

Wants == {"delete", "pay", "credit", "drawer", "redeem", "row", "refer", "award"}

\* what a request knows, over n customers and m sales
ErrandOk(j, n, m) ==
    /\ j.op \in {"none", "create", "hold", "layaway"} \cup Wants
    /\ j.op \in Wants => j.who \in 1 .. n
    /\ j.op = "delete" => j = [op |-> "delete", who |-> j.who]
    /\ j.op = "pay" => j.key \in PaymentKeys
    /\ j.op = "create" => j.phone \in Callers
    /\ j.op \in {"redeem", "row"} => j.use \in Nat
    /\ j.op = "refer" => j = [op |-> "refer", who |-> j.who, by |-> j.by]
    /\ j.op \in {"refer", "award"} => j.by \in 1 .. n /\ j.by # j.who
    /\ j.op = "hold" => j.kind \in {"hold", "quote"} /\ j.ref \in Nat
    /\ j.op = "layaway" => j.sale \in 1 .. m /\ j.left \in Int

PeopleType == v1 \in Seq(Customer) /\ Len(v1) <= MaxCustomers
TicketsType ==
    /\ v2 \in Seq(Ticket) /\ v8 \in {1, 2}
    /\ \A n \in 1 .. Len(v2) : v2[n].who \in 1 .. Len(v1) /\ v2[n].day <= v8
JobsType ==
    /\ v7 = [w \in Workers |-> v7[w]]
    /\ \A w \in Workers : ErrandOk(v7[w], Len(v1), Len(v2))
ListsType ==
    /\ v3 \in Seq(Receipt) /\ v5 \in Seq(Redemption)
    /\ v6 \in SUBSET Order /\ IsFiniteSet(v6) /\ v9 \in Nat
    /\ v10 \in [Everyone -> Nat] /\ v11 \in [Everyone -> Nat]
DeskType == PeopleType /\ TicketsType /\ JobsType /\ ListsType

LEMMA DeskCounts == \A S : Desk!Cardinality(S) = Cardinality(S)
BY Zenon DEF Desk!Cardinality, Cardinality

LEMMA DeskSums == \A f, S : Desk!SumFunctionOnSet(f, S) = SumFunctionOnSet(f, S)
BY Zenon DEF Desk!SumFunctionOnSet, SumFunctionOnSet, Desk!FoldFunctionOnSet, FoldFunctionOnSet,
             Desk!MapThenFoldSet, MapThenFoldSet

LEMMA MaxCustomersNat == MaxCustomers \in Nat
BY DeskAssumption

LEMMA BooksType ==
    ASSUME PeopleType, NEW i
    PROVE  /\ Balance(i) \in Nat /\ Points(i) \in Int /\ Used(i) \in Nat
           /\ Referred(i) \in BOOLEAN /\ Gone(i) \in BOOLEAN
<1>1. i \in 1 .. Len(v1) => v1[i] \in Customer
  BY DEF PeopleType
<1> QED BY <1>1 DEF Balance, Points, Used, Referred, Gone, Customer

\* worker w turns to the errand j
Becomes(w, j) ==
    /\ v7' = [o \in Workers |-> v7'[o]] /\ v7'[w] = j
    /\ \A o \in Workers : o # w => v7'[o] = v7[o]

LEMMA WorkerTurns ==
    ASSUME JobsType, NEW w \in Workers, NEW j, Desk!Takes(w, j) \/ Desk!Goes(w, j)
    PROVE  Becomes(w, j) /\ v8' = v8 /\ v9' \in {v9, v9 + 1}
<1>1. v7' = [v7 EXCEPT ![w] = j] /\ v8' = v8 /\ v9' \in {v9, v9 + 1}
  BY DEF Desk!Takes, Desk!Goes
<1>2. v7 = [o \in Workers |-> v7[o]]
  BY DEF JobsType
<1> QED BY <1>1, <1>2 DEF Becomes

\* the entry of customer i, a newcomer perhaps, becomes c
Entry(i, c) ==
    /\ v1' \in Seq(Customer) /\ c \in Customer /\ Len(v1) <= Len(v1') /\ Len(v1') <= MaxCustomers
    /\ i \in 1 .. Len(v1') /\ i \in Everyone /\ v1'[i] = c
    /\ \A j : j # i => (j \in 1 .. Len(v1') <=> j \in 1 .. Len(v1))
    /\ \A j \in 1 .. Len(v1) : j # i => v1'[j] = v1[j]

LEMMA EntryMeans ==
    ASSUME PeopleType, NEW i, NEW c, Entry(i, c)
    PROVE  /\ PeopleType'
           /\ Balance(i)' = c.credit /\ Points(i)' = c.points /\ Used(i)' = c.used
           /\ Referred(i)' = c.referred /\ Gone(i)' = c.deleted
           /\ \A j : j # i => /\ Balance(j)' = Balance(j) /\ Points(j)' = Points(j)
                              /\ Used(j)' = Used(j) /\ Referred(j)' = Referred(j)
                              /\ Gone(j)' = Gone(j)
<1>1. PeopleType'
  BY DEF Entry, PeopleType
<1>2. /\ Balance(i)' = c.credit /\ Points(i)' = c.points /\ Used(i)' = c.used
  BY DEF Entry, Balance, Points, Used
<1>3. Referred(i)' = c.referred /\ Gone(i)' = c.deleted
  <2>1. i \in 1 .. Len(v1') /\ v1'[i] = c /\ c.referred \in BOOLEAN /\ c.deleted \in BOOLEAN
    BY DEF Entry, Customer
  <2>2. Referred(i)' = c.referred
    BY <2>1 DEF Referred
  <2>3. Gone(i)' = c.deleted
    BY <2>1 DEF Gone
  <2> QED BY <2>2, <2>3
<1>4. ASSUME NEW j, j # i
      PROVE  /\ Balance(j)' = Balance(j) /\ Points(j)' = Points(j) /\ Used(j)' = Used(j)
             /\ Referred(j)' = Referred(j) /\ Gone(j)' = Gone(j)
  <2>1. (j \in 1 .. Len(v1') <=> j \in 1 .. Len(v1)) /\ (j \in 1 .. Len(v1) => v1'[j] = v1[j])
    BY <1>4 DEF Entry
  <2> QED BY <2>1 DEF Balance, Points, Used, Referred, Gone
<1> QED BY <1>1, <1>2, <1>3, <1>4

LEMMA EntryChanged ==
    ASSUME PeopleType, NEW i \in 1 .. Len(v1), NEW c \in Customer, v1' = [v1 EXCEPT ![i] = c]
    PROVE  Entry(i, c)
<1>1. v1 \in Seq(Customer) /\ Len(v1) \in Nat /\ Len(v1) <= MaxCustomers
  BY DEF PeopleType
<1>2. /\ v1' \in Seq(Customer) /\ Len(v1') = Len(v1) /\ v1'[i] = c
      /\ \A j \in 1 .. Len(v1) : j # i => v1'[j] = v1[j]
  BY <1>1
<1>3. i \in Everyone
  BY <1>1, MaxCustomersNat DEF Everyone
<1> QED BY <1>1, <1>2, <1>3 DEF Entry

LEMMA EntryAdded ==
    ASSUME PeopleType, NEW i, i = Len(v1) + 1, i <= MaxCustomers, NEW c \in Customer,
           v1' \in Seq(Customer), Len(v1') = i, v1'[i] = c, \A j \in 1 .. Len(v1) : v1'[j] = v1[j]
    PROVE  Entry(i, c)
<1>1. v1 \in Seq(Customer) /\ Len(v1) \in Nat /\ Len(v1) <= MaxCustomers
  BY DEF PeopleType
<1>2. i \in Everyone /\ i \in 1 .. i
  BY <1>1, MaxCustomersNat DEF Everyone
<1>3. \A j : j # i => (j \in 1 .. i <=> j \in 1 .. Len(v1))
  BY <1>1
<1> QED BY <1>1, <1>2, <1>3 DEF Entry

LEMMA MinIs ==
    ASSUME NEW S \in SUBSET Nat, IsFiniteSet(S), S # {}
    PROVE  Desk!Min(S) \in S /\ \A x \in S : Desk!Min(S) <= x
<1>1. PICK R : R = {p \in S \X S : p[1] > p[2]}
  OBVIOUS
<1>2. \A x, y \in S : <<x, y>> \in R <=> x > y
  BY <1>1
<1>3. \A x, y, z \in S : <<x, y>> \in R /\ <<y, z>> \in R => <<x, z>> \in R
  BY <1>2
<1>4. \A x \in S : <<x, x>> \notin R
  BY <1>2
<1>5. \A T \in SUBSET S : T # {} => \E x \in T : \A y \in T : <<x, y>> \notin R
  BY <1>3, <1>4, LastElement
<1>6. PICK x \in S : \A y \in S : ~(x > y)
  BY <1>2, <1>5
<1>7. \A y \in S : x \in Nat /\ y \in Nat /\ x <= y
  BY <1>6
<1> QED BY <1>7 DEF Desk!Min

(***************************************************************************)
(* What each step does to the books.                                       *)
(***************************************************************************)
Sold(i, d, t) ==
    /\ PeopleType' /\ Len(v1) <= Len(v1') /\ i \in 1 .. Len(v1') /\ i \in Everyone
    /\ d = (IF t.status = "credit" THEN 1 ELSE 0)
    /\ Balance(i)' = Balance(i) + d /\ Points(i)' = Points(i) + 1
    /\ \A j : j # i => Balance(j)' = Balance(j) /\ Points(j)' = Points(j)
    /\ \A j : Used(j)' = Used(j) /\ Referred(j)' = Referred(j) /\ Gone(j)' = Gone(j)
    /\ d = 1 => \/ <<"sold to removed", i>> \in v12'
                \/ ~Gone(i) /\ \A w \in Workers : v7[w] # [op |-> "delete", who |-> i]
    /\ t \in Ticket /\ t.who = i /\ t.day = v8 /\ t.status # "layaway" /\ t.left = 0 /\ t.given = 0
    /\ v2' = Append(v2, t)
    /\ v12 \subseteq v12' /\ v9' = v9 + 1
    /\ UNCHANGED <<v3, v4, v5, v6, v7, v8, v10, v11>>

LEMMA SellIs ==
    ASSUME DeskType, NEW phone \in Callers, NEW status \in {"paid", "credit"},
           Desk!Sell(phone, status)
    PROVE  \E i, d, t : Sold(i, d, t)
<1>1. PICK found, i, them :
         /\ found = Desk!Known(phone)
         /\ i = IF found # {} THEN Desk!Min(found) ELSE Len(v1) + 1
         /\ them = IF found # {} THEN v1 ELSE Append(v1, Desk!Newcomer(phone))
  OBVIOUS
<1>2. /\ i <= MaxCustomers
      /\ v1' = [them EXCEPT ![i].credit = @ + (IF status = "credit" THEN 1 ELSE 0),
                            ![i].points = @ + 1]
      /\ v2' = Append(v2, [who |-> i, day |-> v8, status |-> status, left |-> 0, given |-> 0])
      /\ v12' = v12 \cup
            (IF status = "credit" /\ found # {} /\
                   (them[i].deleted \/ \E w \in Workers : v7[w] = [op |-> "delete", who |-> i])
             THEN {<<"sold to removed", i>>} ELSE {})
      /\ v9' = v9 + 1
      /\ UNCHANGED <<v3, v4, v5, v6, v7, v8, v10, v11>>
  BY <1>1 DEF Desk!Sell
<1>credit. PICK d : d = IF status = "credit" THEN 1 ELSE 0
  OBVIOUS
<1>ticket. PICK t : t = [who |-> i, day |-> v8, status |-> status, left |-> 0, given |-> 0]
  OBVIOUS
<1>3. PeopleType /\ v1 \in Seq(Customer) /\ Len(v1) \in Nat
  BY DEF DeskType, PeopleType
<1>4. \A j : j \in found <=> j \in 1 .. Len(v1) /\ v1[j].phone = phone
  BY <1>1, <1>3 DEF Desk!Known, Desk!Ids
<1>5. found # {} => i \in found
  <2>1. IsFiniteSet(1 .. Len(v1)) /\ found \in SUBSET (1 .. Len(v1))
    BY <1>3, <1>4, FS_Interval
  <2>2. IsFiniteSet(found)
    BY <2>1, FS_Subset
  <2>3. found \in SUBSET Nat
    BY <2>1, <1>3
  <2> QED BY <1>1, <2>2, <2>3, MinIs
<1>6. PICK n : n = Desk!Newcomer(phone)
  OBVIOUS
<1>7. /\ n \in Customer /\ n.credit = 0 /\ n.points = 0 /\ n.used = 0 /\ n.referred = FALSE
      /\ n.deleted = FALSE
  BY <1>6 DEF Desk!Newcomer, Customer
<1>8. PICK b : /\ b \in Customer /\ b = them[i]
               /\ b.credit = Balance(i) /\ b.points = Points(i) /\ b.used = Used(i)
               /\ b.referred = Referred(i) /\ b.deleted = Gone(i)
  <2>1. CASE found # {}
    <3>1. i \in 1 .. Len(v1) /\ them[i] = v1[i] /\ v1[i] \in Customer
      BY <1>1, <1>3, <1>4, <1>5, <2>1
    <3>2. v1[i].referred \in BOOLEAN /\ v1[i].deleted \in BOOLEAN
      BY <3>1 DEF Customer
    <3>3. v1[i].referred = Referred(i) /\ v1[i].deleted = Gone(i)
      BY <3>1, <3>2 DEF Referred, Gone
    <3> QED BY <3>1, <3>3 DEF Balance, Points, Used
  <2>2. CASE found = {}
    <3>1. i = Len(v1) + 1 /\ them[i] = n /\ i \notin 1 .. Len(v1)
      BY <1>1, <1>3, <1>6, <1>7, <2>2
    <3>2. Referred(i) = FALSE /\ Gone(i) = FALSE
      BY <3>1 DEF Referred, Gone
    <3> QED BY <1>7, <3>1, <3>2 DEF Balance, Points, Used
  <2> QED BY <2>1, <2>2
<1>9. PICK c : c = [b EXCEPT !.credit = b.credit + d, !.points = b.points + 1]
  OBVIOUS
<1>10. c \in Customer
  <2>1. b.credit + d \in Nat /\ b.points + 1 \in Int
    BY <1>8, <1>credit DEF Customer
  <2> QED BY <1>8, <1>9, <2>1 DEF Customer
<1>11. /\ c.credit = b.credit + d /\ c.points = b.points + 1
       /\ c.used = b.used /\ c.referred = b.referred /\ c.deleted = b.deleted
  BY <1>8, <1>9 DEF Customer
<1>12. them \in Seq(Customer) /\ i \in 1 .. Len(them)
  <2>1. CASE found # {}
    BY <1>1, <1>3, <1>4, <1>5, <2>1
  <2>2. CASE found = {}
    BY <1>1, <1>3, <1>6, <1>7, <2>2
  <2> QED BY <2>1, <2>2
<1>13. v1' = [them EXCEPT ![i] = c]
  BY <1>2, <1>8, <1>9, <1>12, <1>credit
<1>14. Entry(i, c)
  <2>1. CASE found # {}
    <3>1. i \in 1 .. Len(v1) /\ them = v1
      BY <1>1, <1>4, <1>5, <2>1
    <3> QED BY <1>3, <1>10, <1>13, <3>1, EntryChanged
  <2>2. CASE found = {}
    <3>1. i = Len(v1) + 1 /\ Len(them) = i /\ \A j \in 1 .. Len(v1) : them[j] = v1[j]
      BY <1>1, <1>3, <1>6, <1>7, <2>2
    <3>2. /\ v1' \in Seq(Customer) /\ Len(v1') = i /\ v1'[i] = c
          /\ \A j \in 1 .. Len(v1) : v1'[j] = v1[j]
      BY <1>3, <1>10, <1>12, <1>13, <3>1
    <3> QED BY <1>2, <1>3, <1>10, <3>1, <3>2, EntryAdded
  <2> QED BY <2>1, <2>2
<1>15. /\ PeopleType' /\ Balance(i)' = Balance(i) + d /\ Points(i)' = Points(i) + 1
       /\ \A j : j # i => Balance(j)' = Balance(j) /\ Points(j)' = Points(j)
       /\ \A j : Used(j)' = Used(j) /\ Referred(j)' = Referred(j) /\ Gone(j)' = Gone(j)
  <2>1. /\ PeopleType'
        /\ Balance(i)' = c.credit /\ Points(i)' = c.points /\ Used(i)' = c.used
        /\ Referred(i)' = c.referred /\ Gone(i)' = c.deleted
        /\ \A j : j # i => /\ Balance(j)' = Balance(j) /\ Points(j)' = Points(j)
                           /\ Used(j)' = Used(j) /\ Referred(j)' = Referred(j)
                           /\ Gone(j)' = Gone(j)
    BY <1>3, <1>14, EntryMeans
  <2> QED BY <1>8, <1>11, <2>1
<1>16. d = 1 => \/ <<"sold to removed", i>> \in v12'
                \/ ~Gone(i) /\ \A w \in Workers : v7[w] # [op |-> "delete", who |-> i]
  <2>1. CASE found # {}
    <3>1. d = 1 => status = "credit"
      BY <1>credit
    <3>2. PICK u : u = (them[i].deleted \/ \E w \in Workers : v7[w] = [op |-> "delete", who |-> i])
      OBVIOUS
    <3>3. status = "credit" /\ u => <<"sold to removed", i>> \in v12'
      BY <1>2, <2>1, <3>2
    <3>4. ~u => ~Gone(i) /\ \A w \in Workers : v7[w] # [op |-> "delete", who |-> i]
      BY <1>8, <3>2
    <3> QED BY <3>1, <3>3, <3>4
  <2>2. CASE found = {}
    <3>1. i \notin 1 .. Len(v1)
      BY <1>1, <1>3, <2>2
    <3>2. ASSUME NEW w \in Workers, v7[w] = [op |-> "delete", who |-> i] PROVE FALSE
      <4>1. v7[w].op = "delete" /\ v7[w].who = i
        BY <3>2
      <4>2. i \in 1 .. Len(v1)
        BY <4>1 DEF DeskType, JobsType, ErrandOk, Wants
      <4> QED BY <3>1, <4>2
    <3> QED BY <3>1, <3>2 DEF Gone
  <2> QED BY <2>1, <2>2
<1>17. /\ t \in Ticket /\ t.who = i /\ t.day = v8 /\ t.status = status /\ t.left = 0 /\ t.given = 0
  <2>1. i \in Nat /\ v8 \in {1, 2}
    BY <1>14, MaxCustomersNat DEF Entry, Everyone, DeskType, TicketsType
  <2> QED BY <1>ticket, <2>1 DEF Ticket
<1>18. v12 \subseteq v12' /\ v2' = Append(v2, t)
  BY <1>2, <1>ticket
<1>19. Len(v1) <= Len(v1') /\ i \in 1 .. Len(v1') /\ i \in Everyone
  BY <1>14 DEF Entry
<1>20. Sold(i, d, t)
  BY <1>2, <1>credit, <1>15, <1>16, <1>17, <1>18, <1>19 DEF Sold
<1> QED BY <1>20

LEMMA BooksAt ==
    ASSUME PeopleType, NEW i \in 1 .. Len(v1)
    PROVE  /\ v1[i] \in Customer /\ i \in Everyone
           /\ v1[i].credit = Balance(i) /\ v1[i].points = Points(i) /\ v1[i].used = Used(i)
           /\ v1[i].referred = Referred(i) /\ v1[i].deleted = Gone(i)
<1>1. v1[i] \in Customer /\ i \in Everyone
  BY MaxCustomersNat DEF PeopleType, Everyone
<1>2. v1[i].referred \in BOOLEAN /\ v1[i].deleted \in BOOLEAN
  BY <1>1 DEF Customer
<1>3. v1[i].referred = Referred(i)
  BY <1>2 DEF Referred
<1>4. v1[i].deleted = Gone(i)
  BY <1>2 DEF Gone
<1> QED BY <1>1, <1>3, <1>4 DEF Balance, Points, Used

SameBooks ==
    \A j : /\ Balance(j)' = Balance(j) /\ Points(j)' = Points(j) /\ Used(j)' = Used(j)
           /\ Referred(j)' = Referred(j) /\ Gone(j)' = Gone(j)

LEMMA SameBooksOf == ASSUME UNCHANGED v1 PROVE SameBooks
BY DEF SameBooks, Balance, Points, Used, Referred, Gone

(***************************************************************************)
(* A request begins with what it reads, and changes nothing yet.           *)
(***************************************************************************)
Begun(w, j) ==
    /\ v7[w].op = "none" /\ Becomes(w, j) /\ ErrandOk(j, Len(v1), Len(v2))
    /\ j.op \in {"create", "delete", "redeem", "pay", "refer", "layaway", "hold"}
    /\ j.op = "delete" => Balance(j.who) = 0
    /\ j.op = "redeem" => j.use <= Points(j.who)
    /\ j.op = "layaway" =>
          j.left = (IF v2[j.sale].left > 0 THEN v2[j.sale].left ELSE LayawayDue) - 1
    /\ j.op = "hold" => j.ref = Desk!NextRef(j.kind)
    /\ v9' \in {v9, v9 + 1}
    /\ UNCHANGED <<v1, v2, v3, v4, v5, v6, v8, v10, v11, v12>>

LEMMA BeginsWith ==
    ASSUME DeskType, NEW w \in Workers, NEW j,
           Desk!Free(w), Desk!Takes(w, j), UNCHANGED <<v1, v2, v3, v4, v5, v6, v10, v11, v12>>,
           ErrandOk(j, Len(v1), Len(v2)),
           j.op \in {"create", "delete", "redeem", "pay", "refer", "layaway", "hold"},
           j.op = "delete" => Balance(j.who) = 0,
           j.op = "redeem" => j.use <= Points(j.who),
           j.op = "layaway" =>
              j.left = (IF v2[j.sale].left > 0 THEN v2[j.sale].left ELSE LayawayDue) - 1,
           j.op = "hold" => j.ref = Desk!NextRef(j.kind)
    PROVE  Begun(w, j)
<1>1. v7[w].op = "none"
  BY DEF Desk!Free, Desk!idle
<1>2. Becomes(w, j) /\ v8' = v8 /\ v9' \in {v9, v9 + 1}
  BY WorkerTurns DEF DeskType
<1> QED BY <1>1, <1>2 DEF Begun

LEMMA CreateReadIs ==
    ASSUME DeskType, NEW w \in Workers, NEW p \in Callers, Desk!CreateRead(w, p)
    PROVE  \E j : Begun(w, j)
<1>1. PICK j : j = [op |-> "create", phone |-> p]
  OBVIOUS
<1>2. j.op = "create" /\ ErrandOk(j, Len(v1), Len(v2))
  BY <1>1 DEF ErrandOk, Wants
<1> QED BY <1>1, <1>2, BeginsWith DEF Desk!CreateRead, Desk!rows

LEMMA DeleteReadIs ==
    ASSUME DeskType, NEW w \in Workers, NEW i \in 1 .. Len(v1), Desk!DeleteRead(w, i)
    PROVE  \E j : Begun(w, j)
<1>1. PICK j : j = [op |-> "delete", who |-> i]
  OBVIOUS
<1>2. j.op = "delete" /\ j.who = i /\ ErrandOk(j, Len(v1), Len(v2))
  BY <1>1 DEF ErrandOk, Wants
<1>3. Balance(i) = 0
  BY BooksAt DEF Desk!DeleteRead, DeskType
<1> QED BY <1>1, <1>2, <1>3, BeginsWith DEF Desk!DeleteRead, Desk!rows

LEMMA RedeemReadIs ==
    ASSUME DeskType, NEW w \in Workers, NEW i \in 1 .. Len(v1), Desk!RedeemRead(w, i)
    PROVE  \E j : Begun(w, j)
<1>1. v1[i].points = Points(i) /\ Points(i) \in Int
  BY BooksAt, BooksType DEF DeskType
<1>2. PICK use \in 1 .. v1[i].points : Desk!Takes(w, [op |-> "redeem", who |-> i, use |-> use])
  BY DEF Desk!RedeemRead
<1>3. PICK j : j = [op |-> "redeem", who |-> i, use |-> use]
  OBVIOUS
<1>4. /\ j.op = "redeem" /\ j.who = i /\ j.use = use /\ use \in Nat /\ use <= Points(i)
      /\ ErrandOk(j, Len(v1), Len(v2))
  BY <1>1, <1>2, <1>3 DEF ErrandOk, Wants
<1> QED BY <1>2, <1>3, <1>4, BeginsWith DEF Desk!RedeemRead, Desk!rows

LEMMA PayCheckIs ==
    ASSUME DeskType, NEW w \in Workers, NEW i \in 1 .. Len(v1), NEW k \in PaymentKeys,
           Desk!PayCheck(w, i, k)
    PROVE  \E j : Begun(w, j)
<1>1. PICK j : j = [op |-> "pay", who |-> i, key |-> k]
  OBVIOUS
<1>2. j.op = "pay" /\ ErrandOk(j, Len(v1), Len(v2))
  BY <1>1 DEF ErrandOk, Wants
<1> QED BY <1>1, <1>2, BeginsWith DEF Desk!PayCheck, Desk!rows

LEMMA ReferReadIs ==
    ASSUME DeskType, NEW w \in Workers, NEW i \in 1 .. Len(v1), NEW by \in 1 .. Len(v1),
           Desk!ReferRead(w, i, by)
    PROVE  \E j : Begun(w, j)
<1>1. PICK j : j = [op |-> "refer", who |-> i, by |-> by]
  OBVIOUS
<1>2. i # by
  BY DEF Desk!ReferRead
<1>3. j.op = "refer" /\ ErrandOk(j, Len(v1), Len(v2))
  BY <1>1, <1>2 DEF ErrandOk, Wants
<1> QED BY <1>1, <1>3, BeginsWith DEF Desk!ReferRead, Desk!rows

LEMMA LayawayReadIs ==
    ASSUME DeskType, NEW w \in Workers, NEW n \in 1 .. Len(v2), Desk!LayawayRead(w, n)
    PROVE  \E j : Begun(w, j)
<1>1. PICK left : left = (IF v2[n].left > 0 THEN v2[n].left ELSE LayawayDue) - 1
  OBVIOUS
<1>2. PICK j : j = [op |-> "layaway", sale |-> n, left |-> left]
  OBVIOUS
<1>3. left \in Int
  <2>1. v2 \in Seq(Ticket)
    BY DEF DeskType, TicketsType
  <2>2. v2[n] \in Ticket
    BY <2>1
  <2>3. PICK a : a = v2[n].left
    OBVIOUS
  <2>4. a \in Int /\ LayawayDue \in Int
    BY <2>2, <2>3, DeskAssumption DEF Ticket
  <2> QED BY <1>1, <2>3, <2>4
<1>4. j.op = "layaway" /\ j.sale = n /\ j.left = left /\ ErrandOk(j, Len(v1), Len(v2))
  BY <1>2, <1>3 DEF ErrandOk, Wants
<1>5. Desk!Takes(w, j)
  BY <1>1, <1>2 DEF Desk!LayawayRead
<1> QED BY <1>1, <1>2, <1>4, <1>5, BeginsWith DEF Desk!LayawayRead, Desk!rows

LEMMA RefType ==
    ASSUME ListsType, NEW kind
    PROVE  /\ IsFiniteSet({o \in v6 : o.kind = kind})
           /\ Cardinality({o \in v6 : o.kind = kind}) \in Nat
           /\ Desk!NextRef(kind) = Cardinality({o \in v6 : o.kind = kind}) + 1
<1>1. PICK S : S = {o \in v6 : o.kind = kind}
  OBVIOUS
<1>2. IsFiniteSet(S)
  BY <1>1, FS_Subset DEF ListsType
<1>3. Cardinality(S) \in Nat
  BY <1>2, FS_CardinalityType
<1>4. Desk!NextRef(kind) = Cardinality({o \in v6 : o.kind = kind}) + 1
  BY DeskCounts DEF Desk!NextRef
<1> QED BY <1>1, <1>2, <1>3, <1>4

LEMMA HoldReadIs ==
    ASSUME DeskType, NEW w \in Workers, NEW kind \in {"hold", "quote"}, Desk!HoldRead(w, kind)
    PROVE  \E j : Begun(w, j)
<1>1. PICK ref : ref = Desk!NextRef(kind)
  OBVIOUS
<1>2. PICK j : j = [op |-> "hold", kind |-> kind, ref |-> ref]
  OBVIOUS
<1>3. ref \in Nat
  <2>1. PICK c \in Nat : Desk!NextRef(kind) = c + 1
    BY RefType DEF DeskType
  <2> QED BY <1>1, <2>1
<1>4. j.op = "hold" /\ j.kind = kind /\ j.ref = ref /\ ErrandOk(j, Len(v1), Len(v2))
  BY <1>2, <1>3 DEF ErrandOk, Wants
<1> QED BY <1>1, <1>2, <1>4, BeginsWith DEF Desk!HoldRead, Desk!rows

(***************************************************************************)
(* The statements that a request goes on with.                             *)
(***************************************************************************)
\* what every step leaves alone but for what is said of it
Goneon(w, j) ==
    /\ Becomes(w, j) /\ ErrandOk(j, Len(v1'), Len(v2')) /\ PeopleType' /\ Len(v1) <= Len(v1')
    /\ v12 \subseteq v12' /\ v8' = v8 /\ v9' = v9

LEMMA GoesOn ==
    ASSUME DeskType, NEW w \in Workers, NEW j, Desk!Goes(w, j), ErrandOk(j, Len(v1'), Len(v2')),
           PeopleType', Len(v1) <= Len(v1'), v12 \subseteq v12'
    PROVE  Goneon(w, j)
<1>1. v9' = v9
  BY DEF Desk!Goes
<1> QED BY <1>1, WorkerTurns DEF Goneon, DeskType

LEMMA IdleOk == \A n, m : ErrandOk(Desk!idle, n, m) /\ Desk!idle.op = "none"
BY DEF ErrandOk, Wants, Desk!idle

LEMMA EditPhoneIs ==
    ASSUME DeskType, NEW i \in 1 .. Len(v1), NEW p \in Callers, Desk!EditPhone(i, p)
    PROVE  /\ PeopleType' /\ Len(v1') = Len(v1) /\ SameBooks
           /\ <<"twin", 0>> \in v12' /\ v12 \subseteq v12' /\ v9' \in {v9, v9 + 1}
           /\ UNCHANGED <<v2, v3, v4, v5, v6, v7, v8, v10, v11>>
<1>1. PeopleType /\ v1[i] \in Customer
  BY BooksAt DEF DeskType
<1>2. PICK b, c : b = v1[i] /\ c = [b EXCEPT !.phone = p]
  OBVIOUS
<1>3. /\ c \in Customer /\ c.credit = b.credit /\ c.points = b.points /\ c.used = b.used
      /\ c.referred = b.referred /\ c.deleted = b.deleted
  BY <1>1, <1>2 DEF Customer
<1>4. v1' = [v1 EXCEPT ![i] = c]
  BY <1>2 DEF Desk!EditPhone
<1>5. Entry(i, c) /\ Len(v1') = Len(v1)
  <2>1. Entry(i, c)
    BY <1>1, <1>3, <1>4, EntryChanged
  <2> QED BY <1>1, <1>4, <2>1 DEF PeopleType
<1>6. PeopleType' /\ SameBooks
  <2>1. /\ b.credit = Balance(i) /\ b.points = Points(i) /\ b.used = Used(i)
        /\ b.referred = Referred(i) /\ b.deleted = Gone(i)
    BY <1>1, <1>2, BooksAt
  <2>2. /\ PeopleType'
        /\ Balance(i)' = c.credit /\ Points(i)' = c.points /\ Used(i)' = c.used
        /\ Referred(i)' = c.referred /\ Gone(i)' = c.deleted
        /\ \A j : j # i => /\ Balance(j)' = Balance(j) /\ Points(j)' = Points(j)
                           /\ Used(j)' = Used(j) /\ Referred(j)' = Referred(j)
                           /\ Gone(j)' = Gone(j)
    BY <1>1, <1>5, EntryMeans
  <2> QED BY <1>3, <2>1, <2>2 DEF SameBooks
<1> QED BY <1>5, <1>6 DEF Desk!EditPhone

Removed(w, i) ==
    /\ v7[w] = [op |-> "delete", who |-> i] /\ Goneon(w, Desk!idle)
    /\ Len(v1') = Len(v1)
    /\ \A j : /\ Balance(j)' = Balance(j) /\ Points(j)' = Points(j) /\ Used(j)' = Used(j)
              /\ Referred(j)' = Referred(j)
    /\ Gone(i)' = TRUE
    /\ \A j : j # i => Gone(j)' = Gone(j)
    /\ UNCHANGED <<v2, v3, v4, v5, v6, v10, v11, v12>>

LEMMA DeleteWriteIs ==
    ASSUME DeskType, NEW w \in Workers, Desk!DeleteWrite(w)
    PROVE  \E i : Removed(w, i)
<1>1. PICK i : i = v7[w].who
  OBVIOUS
<1>2. /\ v7[w].op = "delete" /\ v7[w] = [op |-> "delete", who |-> i] /\ i \in 1 .. Len(v1)
  BY <1>1 DEF Desk!DeleteWrite, Desk!At, DeskType, JobsType, ErrandOk, Wants
<1>3. PeopleType /\ v1[i] \in Customer
  BY <1>2, BooksAt DEF DeskType
<1>4. PICK b, c : b = v1[i] /\ c = [b EXCEPT !.deleted = TRUE]
  OBVIOUS
<1>5. /\ c \in Customer /\ c.credit = b.credit /\ c.points = b.points /\ c.used = b.used
      /\ c.referred = b.referred /\ c.deleted = TRUE
  BY <1>3, <1>4 DEF Customer
<1>6. v1' = [v1 EXCEPT ![i] = c]
  BY <1>1, <1>4 DEF Desk!DeleteWrite
<1>7. Entry(i, c) /\ Len(v1') = Len(v1)
  <2>1. Entry(i, c)
    BY <1>2, <1>3, <1>5, <1>6, EntryChanged
  <2> QED BY <1>3, <1>6, <2>1 DEF PeopleType
<1>8. /\ PeopleType' /\ Gone(i)' = TRUE
      /\ \A j : /\ Balance(j)' = Balance(j) /\ Points(j)' = Points(j) /\ Used(j)' = Used(j)
                /\ Referred(j)' = Referred(j)
      /\ \A j : j # i => Gone(j)' = Gone(j)
  <2>1. /\ b.credit = Balance(i) /\ b.points = Points(i) /\ b.used = Used(i)
        /\ b.referred = Referred(i)
    BY <1>2, <1>3, <1>4, BooksAt
  <2>2. /\ PeopleType'
        /\ Balance(i)' = c.credit /\ Points(i)' = c.points /\ Used(i)' = c.used
        /\ Referred(i)' = c.referred /\ Gone(i)' = c.deleted
        /\ \A j : j # i => /\ Balance(j)' = Balance(j) /\ Points(j)' = Points(j)
                           /\ Used(j)' = Used(j) /\ Referred(j)' = Referred(j)
                           /\ Gone(j)' = Gone(j)
    BY <1>3, <1>7, EntryMeans
  <2> QED BY <1>5, <2>1, <2>2
<1>9. /\ Desk!Goes(w, Desk!idle) /\ UNCHANGED <<v2, v3, v4, v5, v6, v10, v11, v12>>
  BY DEF Desk!DeleteWrite
<1>10. Goneon(w, Desk!idle)
  <2>1. Len(v1) <= Len(v1') /\ v12 \subseteq v12'
    BY <1>7, <1>9, <1>3 DEF PeopleType
  <2> QED BY <1>8, <1>9, <2>1, IdleOk, GoesOn
<1>11. Removed(w, i)
  BY <1>2, <1>7, <1>8, <1>9, <1>10 DEF Removed
<1> QED BY <1>11

Relieved(w, i) ==
    /\ v7[w].op = "credit" /\ i = v7[w].who /\ i \in Everyone
    /\ Goneon(w, [op |-> "drawer", who |-> i])
    /\ Len(v1') = Len(v1)
    /\ \A j : /\ Points(j)' = Points(j) /\ Used(j)' = Used(j) /\ Referred(j)' = Referred(j)
              /\ Gone(j)' = Gone(j)
    /\ Balance(i)' = IF Balance(i) = 0 THEN 0 ELSE Balance(i) - 1
    /\ v11'[i] = v11[i] + (IF Balance(i) = 0 THEN 1 ELSE 0)
    /\ \A j : j # i => Balance(j)' = Balance(j)
    /\ v11' \in [Everyone -> Nat] /\ \A j \in Everyone : j # i => v11'[j] = v11[j]
    /\ UNCHANGED <<v2, v3, v4, v5, v6, v10, v12>>

LEMMA PayCreditIs ==
    ASSUME DeskType, NEW w \in Workers, Desk!PayCredit(w)
    PROVE  \E i : Relieved(w, i)
<1>1. PICK i : i = v7[w].who
  OBVIOUS
<1>2. v7[w].op = "credit" /\ i \in 1 .. Len(v1)
  BY <1>1 DEF Desk!PayCredit, Desk!At, DeskType, JobsType, ErrandOk, Wants
<1>3. PeopleType /\ v1[i] \in Customer /\ i \in Everyone /\ v1[i].credit \in Nat
  BY <1>2, BooksAt DEF DeskType, Customer
<1>4. PICK b, n : b = v1[i] /\ n = IF b.credit = 0 THEN 0 ELSE b.credit - 1
  OBVIOUS
<1>5. n \in Nat /\ Desk!NotBelow(b.credit - 1, 0) = n
  BY <1>3, <1>4 DEF Desk!NotBelow
<1>6. PICK c : c = [b EXCEPT !.credit = n]
  OBVIOUS
<1>7. /\ c \in Customer /\ c.credit = n /\ c.points = b.points /\ c.used = b.used
      /\ c.referred = b.referred /\ c.deleted = b.deleted
  BY <1>3, <1>4, <1>5, <1>6 DEF Customer
<1>8. v1' = [v1 EXCEPT ![i] = c]
  BY <1>1, <1>4, <1>5, <1>6 DEF Desk!PayCredit
<1>9. Entry(i, c) /\ Len(v1') = Len(v1)
  <2>1. Entry(i, c)
    BY <1>2, <1>3, <1>7, <1>8, EntryChanged
  <2> QED BY <1>3, <1>8, <2>1 DEF PeopleType
<1>10. /\ b.credit = Balance(i) /\ b.points = Points(i) /\ b.used = Used(i)
       /\ b.referred = Referred(i) /\ b.deleted = Gone(i)
  BY <1>2, <1>3, <1>4, BooksAt
<1>11. /\ PeopleType' /\ Balance(i)' = n
       /\ \A j : /\ Points(j)' = Points(j) /\ Used(j)' = Used(j) /\ Referred(j)' = Referred(j)
                 /\ Gone(j)' = Gone(j)
       /\ \A j : j # i => Balance(j)' = Balance(j)
  <2>1. /\ PeopleType'
        /\ Balance(i)' = c.credit /\ Points(i)' = c.points /\ Used(i)' = c.used
        /\ Referred(i)' = c.referred /\ Gone(i)' = c.deleted
        /\ \A j : j # i => /\ Balance(j)' = Balance(j) /\ Points(j)' = Points(j)
                           /\ Used(j)' = Used(j) /\ Referred(j)' = Referred(j)
                           /\ Gone(j)' = Gone(j)
    BY <1>3, <1>9, EntryMeans
  <2> QED BY <1>7, <1>10, <2>1
<1>12. /\ Desk!Goes(w, [op |-> "drawer", who |-> i]) /\ UNCHANGED <<v2, v3, v4, v5, v6, v10, v12>>
       /\ v11' = [v11 EXCEPT ![i] = v11[i] + (IF b.credit = 0 THEN 1 ELSE 0)]
  BY <1>1, <1>4 DEF Desk!PayCredit
<1>13. /\ v11' \in [Everyone -> Nat] /\ \A j \in Everyone : j # i => v11'[j] = v11[j]
       /\ v11'[i] = v11[i] + (IF b.credit = 0 THEN 1 ELSE 0)
  BY <1>3, <1>12 DEF DeskType, ListsType
<1>14. Goneon(w, [op |-> "drawer", who |-> i])
  <2>1. Len(v1) <= Len(v1') /\ v12 \subseteq v12'
    BY <1>9, <1>12, <1>3 DEF PeopleType
  <2>2. ErrandOk([op |-> "drawer", who |-> i], Len(v1'), Len(v2'))
    BY <1>2, <1>9 DEF ErrandOk, Wants
  <2> QED BY <1>11, <1>12, <2>1, <2>2, GoesOn
<1>15. Relieved(w, i)
  BY <1>1, <1>2, <1>3, <1>4, <1>9, <1>10, <1>11, <1>12, <1>13, <1>14 DEF Relieved
<1> QED BY <1>15

Redeemed(w, i, use) ==
    /\ v7[w].op = "redeem" /\ i = v7[w].who /\ use = v7[w].use /\ use \in Nat
    /\ Goneon(w, [op |-> "row", who |-> i, use |-> use])
    /\ Len(v1') = Len(v1)
    /\ \A j : Balance(j)' = Balance(j) /\ Referred(j)' = Referred(j) /\ Gone(j)' = Gone(j)
    /\ Points(i)' = Points(i) - use /\ Used(i)' = Used(i) + use
    /\ \A j : j # i => Points(j)' = Points(j) /\ Used(j)' = Used(j)
    /\ \/ <<"redeemed at once", i>> \in v12'
       \/ \A o \in Workers : o # w => ~(v7[o].op = "redeem" /\ v7[o].who = i)
    /\ UNCHANGED <<v2, v3, v4, v5, v6, v10, v11>>

LEMMA RedeemWriteIs ==
    ASSUME DeskType, NEW w \in Workers, Desk!RedeemWrite(w)
    PROVE  \E i, use : Redeemed(w, i, use)
<1>1. PICK i, use : i = v7[w].who /\ use = v7[w].use
  OBVIOUS
<1>2. v7[w].op = "redeem" /\ i \in 1 .. Len(v1) /\ use \in Nat
  BY <1>1 DEF Desk!RedeemWrite, Desk!At, DeskType, JobsType, ErrandOk, Wants
<1>3. PeopleType /\ v1[i] \in Customer
  BY <1>2, BooksAt DEF DeskType
<1>4. PICK b : b = v1[i]
  OBVIOUS
<1>5. b \in Customer /\ b.points \in Int /\ b.used \in Nat
  BY <1>3, <1>4 DEF Customer
<1>6. PICK c : c = [b EXCEPT !.points = b.points - use, !.used = b.used + use]
  OBVIOUS
<1>7. c \in Customer
  <2>1. b.points - use \in Int /\ b.used + use \in Nat
    BY <1>2, <1>5
  <2> QED BY <1>5, <1>6, <2>1 DEF Customer
<1>8. /\ c.points = b.points - use /\ c.used = b.used + use
      /\ c.credit = b.credit /\ c.referred = b.referred /\ c.deleted = b.deleted
  BY <1>5, <1>6 DEF Customer
<1>9. v1' = [v1 EXCEPT ![i] = c]
  <2>1. v1' = [v1 EXCEPT ![i].points = @ - use, ![i].used = @ + use]
    BY <1>1 DEF Desk!RedeemWrite
  <2> QED BY <1>2, <1>3, <1>4, <1>6, <2>1 DEF PeopleType
<1>10. Entry(i, c) /\ Len(v1') = Len(v1)
  <2>1. Entry(i, c)
    BY <1>2, <1>3, <1>7, <1>9, EntryChanged
  <2> QED BY <1>3, <1>9, <2>1 DEF PeopleType
<1>11. /\ b.credit = Balance(i) /\ b.points = Points(i) /\ b.used = Used(i)
       /\ b.referred = Referred(i) /\ b.deleted = Gone(i)
  BY <1>2, <1>3, <1>4, BooksAt
<1>12. /\ PeopleType' /\ Points(i)' = Points(i) - use /\ Used(i)' = Used(i) + use
       /\ \A j : Balance(j)' = Balance(j) /\ Referred(j)' = Referred(j) /\ Gone(j)' = Gone(j)
       /\ \A j : j # i => Points(j)' = Points(j) /\ Used(j)' = Used(j)
  <2>1. /\ PeopleType'
        /\ Balance(i)' = c.credit /\ Points(i)' = c.points /\ Used(i)' = c.used
        /\ Referred(i)' = c.referred /\ Gone(i)' = c.deleted
        /\ \A j : j # i => /\ Balance(j)' = Balance(j) /\ Points(j)' = Points(j)
                           /\ Used(j)' = Used(j) /\ Referred(j)' = Referred(j)
                           /\ Gone(j)' = Gone(j)
    BY <1>3, <1>10, EntryMeans
  <2> QED BY <1>8, <1>11, <2>1
<1>13. /\ Desk!Goes(w, [op |-> "row", who |-> i, use |-> use])
       /\ UNCHANGED <<v2, v3, v4, v5, v6, v10, v11>>
       /\ v12' = v12 \cup (IF \E o \in Workers \ {w} : v7[o].op = "redeem" /\ v7[o].who = i
                           THEN {<<"redeemed at once", i>>} ELSE {})
  BY <1>1 DEF Desk!RedeemWrite, Desk!At
<1>14. v12 \subseteq v12' /\ \/ <<"redeemed at once", i>> \in v12'
                             \/ \A o \in Workers : o # w => ~(v7[o].op = "redeem" /\ v7[o].who = i)
  BY <1>13
<1>15. Goneon(w, [op |-> "row", who |-> i, use |-> use])
  <2>1. Len(v1) <= Len(v1')
    BY <1>10, <1>3 DEF PeopleType
  <2>2. ErrandOk([op |-> "row", who |-> i, use |-> use], Len(v1'), Len(v2'))
    BY <1>2, <1>10 DEF ErrandOk, Wants
  <2> QED BY <1>12, <1>13, <1>14, <2>1, <2>2, GoesOn
<1>16. Redeemed(w, i, use)
  BY <1>1, <1>2, <1>10, <1>12, <1>13, <1>14, <1>15 DEF Redeemed
<1> QED BY <1>16

Vouched(w, i) ==
    /\ v7[w].op = "refer" /\ i = v7[w].who
    /\ \E j : j.op = "award" /\ Goneon(w, j)
    /\ Len(v1') = Len(v1)
    /\ \A j : /\ Balance(j)' = Balance(j) /\ Points(j)' = Points(j) /\ Used(j)' = Used(j)
              /\ Gone(j)' = Gone(j)
    /\ Referred(i)' = TRUE /\ \A j : j # i => Referred(j)' = Referred(j)
    /\ <<"referred at once", i>> \in v12' \/ ~Referred(i)
    /\ UNCHANGED <<v2, v3, v4, v5, v6, v10, v11>>

LEMMA ReferMarkIs ==
    ASSUME DeskType, NEW w \in Workers, Desk!ReferMark(w)
    PROVE  \E i : Vouched(w, i)
<1>1. PICK i, by : i = v7[w].who /\ by = v7[w].by
  OBVIOUS
<1>2. /\ v7[w].op = "refer" /\ i \in 1 .. Len(v1) /\ by \in 1 .. Len(v1) /\ by # i
      /\ v7[w] = [op |-> "refer", who |-> i, by |-> by]
  BY <1>1 DEF Desk!ReferMark, Desk!At, DeskType, JobsType, ErrandOk, Wants
<1>3. PeopleType /\ v1[i] \in Customer
  BY <1>2, BooksAt DEF DeskType
<1>4. PICK b, c : b = v1[i] /\ c = [b EXCEPT !.referred = TRUE]
  OBVIOUS
<1>5. /\ c \in Customer /\ c.credit = b.credit /\ c.points = b.points /\ c.used = b.used
      /\ c.referred = TRUE /\ c.deleted = b.deleted
  BY <1>3, <1>4 DEF Customer
<1>6. v1' = [v1 EXCEPT ![i] = c]
  BY <1>1, <1>4 DEF Desk!ReferMark
<1>7. Entry(i, c) /\ Len(v1') = Len(v1)
  <2>1. Entry(i, c)
    BY <1>2, <1>3, <1>5, <1>6, EntryChanged
  <2> QED BY <1>3, <1>6, <2>1 DEF PeopleType
<1>8. /\ b.credit = Balance(i) /\ b.points = Points(i) /\ b.used = Used(i)
      /\ b.referred = Referred(i) /\ b.deleted = Gone(i)
  BY <1>2, <1>3, <1>4, BooksAt
<1>9. /\ PeopleType' /\ Referred(i)' = TRUE
      /\ \A j : /\ Balance(j)' = Balance(j) /\ Points(j)' = Points(j) /\ Used(j)' = Used(j)
                /\ Gone(j)' = Gone(j)
      /\ \A j : j # i => Referred(j)' = Referred(j)
  <2>1. /\ PeopleType'
        /\ Balance(i)' = c.credit /\ Points(i)' = c.points /\ Used(i)' = c.used
        /\ Referred(i)' = c.referred /\ Gone(i)' = c.deleted
        /\ \A j : j # i => /\ Balance(j)' = Balance(j) /\ Points(j)' = Points(j)
                           /\ Used(j)' = Used(j) /\ Referred(j)' = Referred(j)
                           /\ Gone(j)' = Gone(j)
    BY <1>3, <1>7, EntryMeans
  <2> QED BY <1>5, <1>8, <2>1
<1>10. PICK j : j = [op |-> "award", who |-> i, by |-> by]
  OBVIOUS
<1>11. /\ Desk!Goes(w, j) /\ UNCHANGED <<v2, v3, v4, v5, v6, v10, v11>>
       /\ v12' = v12 \cup (IF b.referred THEN {<<"referred at once", i>>} ELSE {})
  <2>1. [v7[w] EXCEPT !.op = "award"] = j
    BY <1>2, <1>10
  <2> QED BY <1>1, <1>4, <2>1 DEF Desk!ReferMark
<1>12. v12 \subseteq v12' /\ (<<"referred at once", i>> \in v12' \/ ~Referred(i))
  BY <1>8, <1>11
<1>13. j.op = "award" /\ Goneon(w, j)
  <2>1. Len(v1) <= Len(v1')
    BY <1>7, <1>3 DEF PeopleType
  <2>2. j.op = "award" /\ ErrandOk(j, Len(v1'), Len(v2'))
    BY <1>2, <1>7, <1>10 DEF ErrandOk, Wants
  <2> QED BY <1>9, <1>11, <1>12, <2>1, <2>2, GoesOn
<1>14. Vouched(w, i)
  BY <1>1, <1>2, <1>7, <1>9, <1>11, <1>12, <1>13 DEF Vouched
<1> QED BY <1>14

Awarded(w, i, by) ==
    /\ v7[w].op = "award" /\ i \in Everyone /\ by \in Everyone /\ i # by
    /\ Goneon(w, Desk!idle)
    /\ Len(v1') = Len(v1)
    /\ \A j : /\ Balance(j)' = Balance(j) /\ Used(j)' = Used(j) /\ Referred(j)' = Referred(j)
              /\ Gone(j)' = Gone(j)
    /\ \A j \in {i, by} : Points(j)' = Points(j) + 1 /\ v10'[j] = v10[j] + 1
    /\ \A j : j \notin {i, by} => Points(j)' = Points(j)
    /\ \A j \in Everyone : j \notin {i, by} => v10'[j] = v10[j]
    /\ v10' \in [Everyone -> Nat]
    /\ UNCHANGED <<v2, v3, v4, v5, v6, v11, v12>>

LEMMA ReferAwardIs ==
    ASSUME DeskType, NEW w \in Workers, Desk!ReferAward(w)
    PROVE  \E i, by : Awarded(w, i, by)
<1>1. PICK i, by : i = v7[w].who /\ by = v7[w].by
  OBVIOUS
<1>2. v7[w].op = "award" /\ i \in 1 .. Len(v1) /\ by \in 1 .. Len(v1) /\ by # i
  BY <1>1 DEF Desk!ReferAward, Desk!At, DeskType, JobsType, ErrandOk, Wants
<1>3. PeopleType /\ ListsType /\ v1 \in Seq(Customer) /\ i \in Everyone /\ by \in Everyone
  BY <1>2, BooksAt DEF DeskType, PeopleType
<1>4. PICK both : both = {i, by}
  OBVIOUS
<1>5. /\ v1' = [j \in 1 .. Len(v1) |->
                   IF j \in both THEN [v1[j] EXCEPT !.points = @ + 1] ELSE v1[j]]
      /\ v10' = [j \in Everyone |-> IF j \in both THEN v10[j] + 1 ELSE v10[j]]
      /\ Desk!Goes(w, Desk!idle) /\ UNCHANGED <<v2, v3, v4, v5, v6, v11, v12>>
  <2>1. DOMAIN v1 = 1 .. Len(v1) /\ DOMAIN v10 = Everyone
    BY <1>3 DEF ListsType
  <2> QED BY <1>1, <1>4, <2>1 DEF Desk!ReferAward, Desk!Ids
<1>6. ASSUME NEW j \in 1 .. Len(v1)
      PROVE  /\ v1'[j] \in Customer /\ v1'[j].credit = v1[j].credit /\ v1'[j].used = v1[j].used
             /\ v1'[j].referred = v1[j].referred /\ v1'[j].deleted = v1[j].deleted
             /\ v1'[j].points = v1[j].points + (IF j \in both THEN 1 ELSE 0)
  <2>1. PICK b : b = v1[j]
    OBVIOUS
  <2>2. b \in Customer /\ b.points \in Int
    <3>1. b \in Customer
      BY <1>3, <2>1
    <3> QED BY <3>1 DEF Customer
  <2>3. CASE j \in both
    <3>1. v1'[j] = [b EXCEPT !.points = b.points + 1]
      BY <1>5, <2>1, <2>3
    <3> QED BY <2>1, <2>2, <2>3, <3>1 DEF Customer
  <2>4. CASE j \notin both
    <3>1. v1'[j] = b
      BY <1>5, <2>1, <2>4
    <3> QED BY <2>1, <2>2, <2>4, <3>1
  <2> QED BY <2>3, <2>4
<1>7. v1' \in Seq(Customer) /\ Len(v1') = Len(v1)
  <2>1. PICK n \in Nat : n = Len(v1)
    BY <1>3
  <2>2. DOMAIN v1' = 1 .. n /\ v1' = [j \in 1 .. n |-> v1'[j]]
    BY <1>5, <2>1
  <2>3. v1' \in [1 .. n -> Customer]
    BY <1>6, <2>1, <2>2
  <2> QED BY <2>1, <2>2, <2>3
<1>8. PeopleType' /\ Len(v1) <= Len(v1')
  BY <1>3, <1>7 DEF PeopleType
<1>9. \A j : /\ Balance(j)' = Balance(j) /\ Used(j)' = Used(j) /\ Referred(j)' = Referred(j)
             /\ Gone(j)' = Gone(j)
  BY <1>6, <1>7 DEF Balance, Used, Referred, Gone
<1>10. \A j : Points(j)' = Points(j) + (IF j \in both THEN 1 ELSE 0)
  <2>1. \A j \in 1 .. Len(v1) : Points(j)' = Points(j) + (IF j \in both THEN 1 ELSE 0)
    BY <1>6, <1>7 DEF Points
  <2>2. \A j : j \notin 1 .. Len(v1) => Points(j)' = 0 /\ Points(j) = 0 /\ j \notin both
    BY <1>2, <1>4, <1>7 DEF Points
  <2> QED BY <2>1, <2>2
<1>11. \A j : Points(j) \in Int
  BY <1>3, BooksType
<1>12. /\ \A j \in both : Points(j)' = Points(j) + 1
       /\ \A j : j \notin both => Points(j)' = Points(j)
  BY <1>10, <1>11
<1>13. /\ v10' \in [Everyone -> Nat] /\ \A j \in both : v10'[j] = v10[j] + 1
       /\ \A j \in Everyone : j \notin both => v10'[j] = v10[j]
  BY <1>3, <1>4, <1>5 DEF ListsType
<1>14. Goneon(w, Desk!idle)
  BY <1>5, <1>8, IdleOk, GoesOn
<1>15. Awarded(w, i, by)
  BY <1>2, <1>3, <1>4, <1>5, <1>7, <1>9, <1>12, <1>13, <1>14 DEF Awarded
<1> QED BY <1>15

Created(w) ==
    /\ v7[w].op = "create" /\ Goneon(w, Desk!idle) /\ SameBooks
    /\ \/ v1' = v1
       \/ \E c \in Customer :
             /\ v1' = Append(v1, c)
             /\ \/ <<"twin", 0>> \in v12'
                \/ \A j \in 1 .. Len(v1) : ~v1[j].deleted => v1[j].phone # c.phone
    /\ UNCHANGED <<v2, v3, v4, v5, v6, v10, v11>>

LEMMA CreateWriteIs ==
    ASSUME DeskType, NEW w \in Workers, Desk!CreateWrite(w)
    PROVE  Created(w)
<1>1. PICK p, m, c : p = v7[w].phone /\ m = Len(v1) + 1 /\ c = Desk!Newcomer(p)
  OBVIOUS
<1>2. PeopleType /\ v1 \in Seq(Customer) /\ v7[w].op = "create" /\ p \in Callers
  BY <1>1 DEF Desk!CreateWrite, Desk!At, DeskType, PeopleType, JobsType, ErrandOk
<1>3. /\ c \in Customer /\ c.credit = 0 /\ c.points = 0 /\ c.used = 0 /\ c.referred = FALSE
      /\ c.deleted = FALSE /\ c.phone = p
  BY <1>1, <1>2 DEF Desk!Newcomer, Customer
<1>4. /\ v1' = (IF Len(v1) < MaxCustomers THEN Append(v1, c) ELSE v1)
      /\ v12' = v12 \cup (IF Desk!Known(p) \cap Desk!Live # {} THEN {<<"twin", 0>>} ELSE {})
      /\ Desk!Goes(w, Desk!idle) /\ UNCHANGED <<v2, v3, v4, v5, v6, v10, v11>>
  BY <1>1 DEF Desk!CreateWrite
<1>5. \/ <<"twin", 0>> \in v12'
      \/ \A j \in 1 .. Len(v1) : ~v1[j].deleted => v1[j].phone # p
  <2>1. DOMAIN v1 = 1 .. Len(v1)
    BY <1>2
  <2>2. CASE Desk!Known(p) \cap Desk!Live # {}
    BY <1>4, <2>2
  <2>3. CASE Desk!Known(p) \cap Desk!Live = {}
    BY <2>1, <2>3 DEF Desk!Known, Desk!Live, Desk!Ids
  <2> QED BY <2>2, <2>3
<1>6. PeopleType' /\ Len(v1) <= Len(v1') /\ SameBooks
  <2>1. CASE v1' = v1
    BY <1>2, <2>1, SameBooksOf DEF PeopleType
  <2>2. CASE v1' = Append(v1, c) /\ Len(v1) < MaxCustomers
    <3>1. /\ v1' \in Seq(Customer) /\ Len(v1') = m /\ v1'[m] = c /\ m <= MaxCustomers
          /\ \A j \in 1 .. Len(v1) : v1'[j] = v1[j]
      BY <1>1, <1>2, <1>3, <2>2, MaxCustomersNat
    <3>2. Entry(m, c)
      BY <1>1, <1>2, <1>3, <3>1, EntryAdded
    <3>3. /\ PeopleType'
          /\ Balance(m)' = c.credit /\ Points(m)' = c.points /\ Used(m)' = c.used
          /\ Referred(m)' = c.referred /\ Gone(m)' = c.deleted
          /\ \A j : j # m => /\ Balance(j)' = Balance(j) /\ Points(j)' = Points(j)
                             /\ Used(j)' = Used(j) /\ Referred(j)' = Referred(j)
                             /\ Gone(j)' = Gone(j)
      BY <1>2, <3>2, EntryMeans
    <3>4. m \notin 1 .. Len(v1)
      BY <1>1, <1>2
    <3>5. Balance(m) = 0 /\ Points(m) = 0 /\ Used(m) = 0 /\ ~Referred(m) /\ ~Gone(m)
      BY <3>4 DEF Balance, Points, Used, Referred, Gone
    <3>6. Referred(m)' = Referred(m) /\ Gone(m)' = Gone(m)
      BY <1>2, <1>3, <3>3, <3>5, BooksType
    <3>7. SameBooks
      BY <1>3, <3>3, <3>5, <3>6 DEF SameBooks
    <3> QED BY <3>2, <3>3, <3>7 DEF Entry
  <2> QED BY <1>4, <2>1, <2>2
<1>7. Goneon(w, Desk!idle)
  BY <1>4, <1>6, IdleOk, GoesOn
<1> QED BY <1>2, <1>3, <1>4, <1>5, <1>6, <1>7 DEF Created

\* Lists: what concerns no customer's entry.
Listed(w, j) ==
    /\ Goneon(w, j) /\ UNCHANGED v1 /\ SameBooks

LEMMA ListedIs ==
    ASSUME DeskType, NEW w \in Workers, NEW j, Desk!Goes(w, j), UNCHANGED v1,
           v2' = v2 \/ j = Desk!idle, ErrandOk(j, Len(v1), Len(v2)), v12 \subseteq v12'
    PROVE  Listed(w, j)
<1>1. PeopleType' /\ Len(v1) <= Len(v1') /\ SameBooks
  BY SameBooksOf DEF DeskType, PeopleType
<1>2. ErrandOk(j, Len(v1'), Len(v2'))
  BY IdleOk
<1> QED BY <1>1, <1>2, GoesOn DEF Listed

Inserted(w, i, k) ==
    /\ v7[w].op = "pay" /\ k \in PaymentKeys /\ i \in Everyone
    /\ \/ v3' = v3 /\ Listed(w, Desk!idle)
       \/ /\ \A n \in 1 .. Len(v3) : v3[n].key # k
          /\ \E r \in Receipt : r.who = i /\ r.key = k /\ v3' = Append(v3, r)
          /\ Listed(w, [op |-> "credit", who |-> i])
    /\ UNCHANGED <<v2, v4, v5, v6, v10, v11, v12>>

LEMMA PayInsertIs ==
    ASSUME DeskType, NEW w \in Workers, Desk!PayInsert(w)
    PROVE  \E i, k : Inserted(w, i, k)
<1>1. PICK i, k, r : i = v7[w].who /\ k = v7[w].key /\ r = [who |-> i, key |-> k]
  OBVIOUS
<1>2. v7[w].op = "pay" /\ i \in 1 .. Len(v1) /\ k \in PaymentKeys
  BY <1>1 DEF Desk!PayInsert, Desk!At, DeskType, JobsType, ErrandOk, Wants
<1>3. i \in Everyone /\ i \in Nat
  BY <1>2, BooksAt, MaxCustomersNat DEF DeskType, Everyone
<1>4. r \in Receipt /\ r.who = i /\ r.key = k
  BY <1>1, <1>2, <1>3 DEF Receipt
<1>5. /\ IF Desk!Paid(k) THEN v3' = v3 /\ Desk!Goes(w, Desk!idle)
         ELSE v3' = Append(v3, r) /\ Desk!Goes(w, [op |-> "credit", who |-> i])
      /\ UNCHANGED <<v1, v2, v4, v5, v6, v10, v11, v12>>
  BY <1>1 DEF Desk!PayInsert
<1>6. ErrandOk([op |-> "credit", who |-> i], Len(v1), Len(v2)) /\ ErrandOk(Desk!idle, Len(v1), Len(v2))
  BY <1>2, IdleOk DEF ErrandOk, Wants
<1>7. CASE Desk!Paid(k)
  <2>1. Listed(w, Desk!idle)
    BY <1>5, <1>6, <1>7, ListedIs
  <2>2. Inserted(w, i, k)
    BY <1>2, <1>3, <1>5, <1>7, <2>1 DEF Inserted
  <2> QED BY <2>2
<1>8. CASE ~Desk!Paid(k)
  <2>1. Listed(w, [op |-> "credit", who |-> i])
    BY <1>5, <1>6, <1>8, ListedIs
  <2>2. \A n \in 1 .. Len(v3) : v3[n].key # k
    BY <1>8 DEF Desk!Paid
  <2>3. Inserted(w, i, k)
    BY <1>2, <1>3, <1>4, <1>5, <1>8, <2>1, <2>2 DEF Inserted
  <2> QED BY <2>3
<1> QED BY <1>7, <1>8

Received(w) ==
    /\ v7[w].op = "drawer" /\ Listed(w, Desk!idle)
    /\ UNCHANGED <<v2, v3, v5, v6, v10, v11, v12>>

LEMMA PayDrawerIs ==
    ASSUME DeskType, NEW w \in Workers, Desk!PayDrawer(w)
    PROVE  Received(w)
BY IdleOk, ListedIs DEF Received, Desk!PayDrawer, Desk!At

RowWritten(w, i, use) ==
    /\ v7[w].op = "row" /\ i = v7[w].who /\ use = v7[w].use /\ use \in Nat
    /\ \E r \in Redemption : r.who = i /\ r.use = use /\ v5' = Append(v5, r)
    /\ Listed(w, Desk!idle)
    /\ UNCHANGED <<v2, v3, v4, v6, v10, v11, v12>>

LEMMA RedeemRowIs ==
    ASSUME DeskType, NEW w \in Workers, Desk!RedeemRow(w)
    PROVE  \E i, use : RowWritten(w, i, use)
<1>1. PICK i, use, r : i = v7[w].who /\ use = v7[w].use /\ r = [who |-> i, use |-> use]
  OBVIOUS
<1>2. v7[w].op = "row" /\ i \in 1 .. Len(v1) /\ use \in Nat
  BY <1>1 DEF Desk!RedeemRow, Desk!At, DeskType, JobsType, ErrandOk, Wants
<1>3. r \in Redemption /\ r.who = i /\ r.use = use
  <2>1. i \in Nat
    BY <1>2
  <2> QED BY <1>1, <1>2, <2>1 DEF Redemption
<1>4. /\ v5' = Append(v5, r) /\ Desk!Goes(w, Desk!idle)
      /\ UNCHANGED <<v1, v2, v3, v4, v6, v10, v11, v12>>
  BY <1>1 DEF Desk!RedeemRow
<1>5. Listed(w, Desk!idle)
  BY <1>4, IdleOk, ListedIs
<1>6. RowWritten(w, i, use)
  BY <1>1, <1>2, <1>3, <1>4, <1>5 DEF RowWritten
<1> QED BY <1>6

Parked(w, o) ==
    /\ v7[w].op = "hold" /\ o.kind = v7[w].kind /\ o.ref = v7[w].ref /\ o \in Order
    /\ v6' = v6 \cup {o} /\ Listed(w, Desk!idle)
    /\ <<"held at once", 0>> \in v12' \/ \A u \in Workers : u # w => v7[u].op # "hold"
    /\ UNCHANGED <<v2, v3, v4, v5, v10, v11>>

LEMMA HoldWriteIs ==
    ASSUME DeskType, NEW w \in Workers, Desk!HoldWrite(w)
    PROVE  \E o : Parked(w, o)
<1>1. PICK kind, ref, c : kind = v7[w].kind /\ ref = v7[w].ref /\ c = Desk!Cardinality(v6)
  OBVIOUS
<1>2. PICK o : o = [id |-> 10 * v9 + c, kind |-> kind, ref |-> ref]
  OBVIOUS
<1>3. v7[w].op = "hold" /\ kind \in {"hold", "quote"} /\ ref \in Nat
  BY <1>1 DEF Desk!HoldWrite, Desk!At, DeskType, JobsType, ErrandOk
<1>4. c \in Nat /\ v9 \in Nat
  BY <1>1, DeskCounts, FS_CardinalityType DEF DeskType, ListsType
<1>5. o \in Order /\ o.kind = kind /\ o.ref = ref
  BY <1>2, <1>3, <1>4 DEF Order
<1>6. /\ v6' = v6 \cup {o} /\ Desk!Goes(w, Desk!idle)
      /\ v12' = v12 \cup (IF Desk!Others(w, {"hold"}) THEN {<<"held at once", 0>>} ELSE {})
      /\ UNCHANGED <<v1, v2, v3, v4, v5, v10, v11>>
  BY <1>1, <1>2 DEF Desk!HoldWrite
<1>7. Listed(w, Desk!idle)
  BY <1>6, IdleOk, ListedIs
<1>8. <<"held at once", 0>> \in v12' \/ \A u \in Workers : u # w => v7[u].op # "hold"
  BY <1>6 DEF Desk!Others
<1>9. Parked(w, o)
  BY <1>1, <1>3, <1>5, <1>6, <1>7, <1>8 DEF Parked
<1> QED BY <1>9

LaidBy(w, n, t) ==
    /\ v7[w].op = "layaway" /\ n = v7[w].sale /\ n \in 1 .. Len(v2)
    /\ t \in Ticket /\ t.who = v2[n].who /\ t.day = v2[n].day /\ t.given = v2[n].given + 1
    /\ t.left = (IF v7[w].left < 0 THEN 0 ELSE v7[w].left)
    /\ t.status = (IF v7[w].left <= 0 THEN "paid" ELSE "layaway")
    /\ v2' = [v2 EXCEPT ![n] = t] /\ Listed(w, Desk!idle)
    /\ <<"edited", t.who>> \in v12'
    /\ \/ <<"layaway at once", n>> \in v12'
       \/ \A o \in Workers : o # w => ~(v7[o].op = "layaway" /\ v7[o].sale = n)
    /\ UNCHANGED <<v3, v4, v5, v6, v10, v11>>

LEMMA LayawayWriteIs ==
    ASSUME DeskType, NEW w \in Workers, Desk!LayawayWrite(w)
    PROVE  \E n, t : LaidBy(w, n, t)
<1>1. PICK n, left : n = v7[w].sale /\ left = v7[w].left
  OBVIOUS
<1>2. v7[w].op = "layaway" /\ n \in 1 .. Len(v2) /\ left \in Int
  BY <1>1 DEF Desk!LayawayWrite, Desk!At, DeskType, JobsType, ErrandOk
<1>3. v2 \in Seq(Ticket) /\ v2[n] \in Ticket
  BY <1>2 DEF DeskType, TicketsType
<1>4. PICK b, rest, status : /\ b = v2[n] /\ rest = (IF left < 0 THEN 0 ELSE left)
                             /\ status = (IF left <= 0 THEN "paid" ELSE "layaway")
  OBVIOUS
<1>5. rest \in Nat /\ Desk!NotBelow(left, 0) = rest /\ status \in {"paid", "layaway"}
  BY <1>2, <1>4 DEF Desk!NotBelow
<1>6. PICK t : t = [b EXCEPT !.left = rest, !.given = b.given + 1, !.status = status]
  OBVIOUS
<1>7. t \in Ticket
  <2>1. b \in Ticket /\ b.given + 1 \in Nat
    BY <1>3, <1>4 DEF Ticket
  <2> QED BY <1>5, <1>6, <2>1 DEF Ticket
<1>8. t.who = b.who /\ t.day = b.day /\ t.given = b.given + 1 /\ t.left = rest /\ t.status = status
  BY <1>3, <1>4, <1>6 DEF Ticket
<1>9. /\ v2' = [v2 EXCEPT ![n].left = rest, ![n].given = @ + 1, ![n].status = status]
      /\ v12' = v12 \cup {<<"edited", b.who>>}
                \cup (IF \E o \in Workers \ {w} : v7[o].op = "layaway" /\ v7[o].sale = n
                      THEN {<<"layaway at once", n>>} ELSE {})
      /\ Desk!Goes(w, Desk!idle) /\ UNCHANGED <<v1, v3, v4, v5, v6, v10, v11>>
  BY <1>1, <1>4, <1>5 DEF Desk!LayawayWrite, Desk!At
<1>10. v2' = [v2 EXCEPT ![n] = t]
  BY <1>2, <1>3, <1>4, <1>6, <1>9
<1>11. Listed(w, Desk!idle)
  BY <1>9, IdleOk, ListedIs
<1>12. /\ <<"edited", t.who>> \in v12'
       /\ \/ <<"layaway at once", n>> \in v12'
          \/ \A o \in Workers : o # w => ~(v7[o].op = "layaway" /\ v7[o].sale = n)
  BY <1>8, <1>9
<1>13. LaidBy(w, n, t)
  BY <1>1, <1>2, <1>4, <1>7, <1>8, <1>9, <1>10, <1>11, <1>12 DEF LaidBy
<1> QED BY <1>13

Edited(n, t) ==
    /\ n \in 1 .. Len(v2) /\ t \in Ticket /\ t.who = v2[n].who /\ t.day = v2[n].day
    /\ t.given = v2[n].given /\ t.left = v2[n].left
    /\ v2' = [v2 EXCEPT ![n] = t] /\ v12 \subseteq v12'
    /\ <<"edited", t.who>> \in v12' /\ <<"edited by hand", n>> \in v12'
    /\ v9' = v9 + 1 /\ UNCHANGED <<v1, v3, v4, v5, v6, v7, v8, v10, v11>>

LEMMA EditSaleIs ==
    ASSUME DeskType, NEW n \in 1 .. Len(v2), NEW status \in {"paid", "credit"},
           Desk!EditSale(n, status)
    PROVE  \E t : Edited(n, t)
<1>1. v2 \in Seq(Ticket) /\ v2[n] \in Ticket
  BY DEF DeskType, TicketsType
<1>2. PICK t : t = [v2[n] EXCEPT !.status = status]
  OBVIOUS
<1>3. /\ t \in Ticket /\ t.who = v2[n].who /\ t.day = v2[n].day
      /\ t.given = v2[n].given /\ t.left = v2[n].left
  BY <1>1, <1>2 DEF Ticket
<1>4. v2' = [v2 EXCEPT ![n] = t]
  BY <1>2 DEF Desk!EditSale
<1>5. /\ v12' = v12 \cup {<<"edited", v2[n].who>>, <<"edited by hand", n>>}
      /\ v9' = v9 + 1 /\ UNCHANGED <<v1, v3, v4, v5, v6, v7, v8, v10, v11>>
  BY DEF Desk!EditSale
<1>6. Edited(n, t)
  BY <1>3, <1>4, <1>5 DEF Edited
<1> QED BY <1>6

Died(w) ==
    /\ Listed(w, Desk!idle) /\ UNCHANGED <<v2, v3, v4, v5, v6, v10, v11>>
    /\ v7[w].op \in {"credit", "row", "award"} => <<"cut", v7[w].who>> \in v12'

LEMMA DieIs ==
    ASSUME DeskType, NEW w \in Workers, Desk!Die(w)
    PROVE  Died(w)
<1>1. v12 \subseteq v12' /\ Desk!Goes(w, Desk!idle) /\ UNCHANGED <<v1, v2, v3, v4, v5, v6, v10, v11>>
  BY DEF Desk!Die, Desk!rows
<1>2. v7[w].op \in {"credit", "row", "award"} => <<"cut", v7[w].who>> \in v12'
  BY DEF Desk!Die
<1>3. Listed(w, Desk!idle)
  BY <1>1, IdleOk, ListedIs
<1> QED BY <1>1, <1>2, <1>3 DEF Died

\* steps that concern no customer, no sale and no request
Aside ==
    /\ SameBooks /\ v12 \subseteq v12' /\ v8' \in {v8, 2} /\ v8 <= v8' /\ v9' \in {v9, v9 + 1}
    /\ UNCHANGED <<v2, v3, v5, v7, v10, v11>>
    /\ PeopleType' /\ Len(v1') = Len(v1)
    /\ v1' = v1 \/ <<"twin", 0>> \in v12'
    /\ v6' = v6 \/ (v6' \in SUBSET v6 /\ <<"held at once", 0>> \in v12')

LEMMA AsideIs ==
    ASSUME DeskType,
           \/ \E i \in 1 .. Len(v1), p \in Callers : Desk!EditPhone(i, p)
           \/ \E o \in v6 : Desk!Unpark(o)
           \/ Desk!NextDay
    PROVE  Aside
<1>1. v8 \in {1, 2} /\ PeopleType
  BY DEF DeskType, TicketsType
<1>2. CASE \E i \in 1 .. Len(v1), p \in Callers : Desk!EditPhone(i, p)
  <2>1. /\ PeopleType' /\ Len(v1') = Len(v1) /\ SameBooks
        /\ <<"twin", 0>> \in v12' /\ v12 \subseteq v12' /\ v9' \in {v9, v9 + 1}
        /\ UNCHANGED <<v2, v3, v4, v5, v6, v7, v8, v10, v11>>
    BY <1>2, EditPhoneIs
  <2>2. v8' \in {v8, 2} /\ v8 <= v8'
    BY <1>1, <2>1
  <2> QED BY <2>1, <2>2 DEF Aside
<1>3. CASE \E o \in v6 : Desk!Unpark(o)
  <2>1. /\ v6' \in SUBSET v6 /\ <<"held at once", 0>> \in v12' /\ v12 \subseteq v12' /\ v9' = v9 + 1
        /\ UNCHANGED <<v1, v2, v3, v5, v7, v8, v10, v11>>
    BY <1>3 DEF Desk!Unpark
  <2>2. v8' \in {v8, 2} /\ v8 <= v8'
    <3>1. v8' = v8
      BY <2>1
    <3> QED BY <1>1, <3>1
  <2>3. PeopleType' /\ Len(v1') = Len(v1) /\ SameBooks
    BY <1>1, <2>1, SameBooksOf DEF PeopleType
  <2> QED BY <2>1, <2>2, <2>3 DEF Aside
<1>4. CASE Desk!NextDay
  <2>1. v8' = 2 /\ UNCHANGED <<v1, v2, v3, v4, v5, v6, v7, v9, v10, v11, v12>>
    BY <1>1, <1>4 DEF Desk!NextDay, Desk!rows
  <2> QED BY <1>1, <2>1, SameBooksOf DEF Aside, PeopleType
<1> QED BY <1>2, <1>3, <1>4

(***************************************************************************)
(* A step of the desk is one of these.                                     *)
(***************************************************************************)
DeskStep ==
    \/ Aside
    \/ \E i, d, t : Sold(i, d, t)
    \/ \E n, t : Edited(n, t)
    \/ \E w \in Workers :
          \/ \E j : Begun(w, j)
          \/ Created(w) \/ (\E i : Removed(w, i)) \/ (\E i, k : Inserted(w, i, k))
          \/ (\E i : Relieved(w, i)) \/ Received(w) \/ (\E i, use : Redeemed(w, i, use))
          \/ (\E i, use : RowWritten(w, i, use)) \/ (\E i : Vouched(w, i))
          \/ (\E i, by : Awarded(w, i, by)) \/ (\E o : Parked(w, o))
          \/ (\E n, t : LaidBy(w, n, t)) \/ Died(w)

LEMMA DeskSteps == ASSUME DeskType, Desk!Next PROVE DeskStep
<1>1. DOMAIN v1 = 1 .. Len(v1) /\ DOMAIN v2 = 1 .. Len(v2) /\ Desk!Ids = 1 .. Len(v1)
  BY DEF DeskType, PeopleType, TicketsType, Desk!Ids
<1>2. Desk!Live \in SUBSET (1 .. Len(v1))
  BY <1>1 DEF Desk!Live
<1>3. CASE \E p \in Callers : \/ \E st \in {"paid", "credit"} : Desk!Sell(p, st)
                              \/ \E i \in Desk!Live : Desk!EditPhone(i, p)
  <2>1. CASE \E p \in Callers : \E st \in {"paid", "credit"} : Desk!Sell(p, st)
    BY <2>1, SellIs DEF DeskStep
  <2>2. CASE \E p \in Callers : \E i \in Desk!Live : Desk!EditPhone(i, p)
    BY <1>2, <2>2, AsideIs DEF DeskStep
  <2> QED BY <1>3, <2>1, <2>2
<1>4. CASE \E n \in DOMAIN v2, st \in {"paid", "credit"} : Desk!EditSale(n, st)
  BY <1>1, <1>4, EditSaleIs DEF DeskStep
<1>5. CASE (\E o \in v6 : Desk!Unpark(o)) \/ Desk!NextDay
  BY <1>5, AsideIs DEF DeskStep
<1>6. ASSUME NEW w \in Workers,
             \/ \E p \in Callers : Desk!CreateRead(w, p)
             \/ \E i \in Desk!Ids : \/ Desk!DeleteRead(w, i) \/ Desk!RedeemRead(w, i)
                                    \/ \E k \in PaymentKeys : Desk!PayCheck(w, i, k)
                                    \/ \E j \in Desk!Ids : Desk!ReferRead(w, i, j)
             \/ \E n \in DOMAIN v2 : Desk!LayawayRead(w, n)
             \/ \E kind \in {"hold", "quote"} : Desk!HoldRead(w, kind)
      PROVE  DeskStep
  <2>1. CASE \E p \in Callers : Desk!CreateRead(w, p)
    BY <2>1, CreateReadIs DEF DeskStep
  <2>2. CASE \E i \in 1 .. Len(v1) : Desk!DeleteRead(w, i)
    BY <2>2, DeleteReadIs DEF DeskStep
  <2>3. CASE \E i \in 1 .. Len(v1) : Desk!RedeemRead(w, i)
    BY <2>3, RedeemReadIs DEF DeskStep
  <2>4. CASE \E i \in 1 .. Len(v1) : \E k \in PaymentKeys : Desk!PayCheck(w, i, k)
    BY <2>4, PayCheckIs DEF DeskStep
  <2>5. CASE \E i \in 1 .. Len(v1) : \E j \in 1 .. Len(v1) : Desk!ReferRead(w, i, j)
    BY <2>5, ReferReadIs DEF DeskStep
  <2>6. CASE \E n \in 1 .. Len(v2) : Desk!LayawayRead(w, n)
    BY <2>6, LayawayReadIs DEF DeskStep
  <2>7. CASE \E kind \in {"hold", "quote"} : Desk!HoldRead(w, kind)
    BY <2>7, HoldReadIs DEF DeskStep
  <2> QED BY <1>1, <1>6, <2>1, <2>2, <2>3, <2>4, <2>5, <2>6, <2>7
<1>7. ASSUME NEW w \in Workers,
             \/ Desk!CreateWrite(w) \/ Desk!DeleteWrite(w)
             \/ Desk!PayInsert(w) \/ Desk!PayCredit(w) \/ Desk!PayDrawer(w)
             \/ Desk!RedeemWrite(w) \/ Desk!RedeemRow(w) \/ Desk!ReferMark(w) \/ Desk!ReferAward(w)
             \/ Desk!HoldWrite(w) \/ Desk!LayawayWrite(w) \/ Desk!Die(w)
      PROVE  DeskStep
  <2>1. CASE Desk!CreateWrite(w) \/ Desk!DeleteWrite(w) \/ Desk!PayInsert(w)
    BY <2>1, CreateWriteIs, DeleteWriteIs, PayInsertIs DEF DeskStep
  <2>2. CASE Desk!PayCredit(w) \/ Desk!PayDrawer(w) \/ Desk!RedeemWrite(w) \/ Desk!RedeemRow(w)
    BY <2>2, PayCreditIs, PayDrawerIs, RedeemWriteIs, RedeemRowIs DEF DeskStep
  <2>3. CASE Desk!ReferMark(w) \/ Desk!ReferAward(w) \/ Desk!HoldWrite(w)
    BY <2>3, ReferMarkIs, ReferAwardIs, HoldWriteIs DEF DeskStep
  <2>4. CASE Desk!LayawayWrite(w) \/ Desk!Die(w)
    BY <2>4, LayawayWriteIs, DieIs DEF DeskStep
  <2> QED BY <1>7, <2>1, <2>2, <2>3, <2>4
<1> QED BY <1>3, <1>4, <1>5, <1>6, <1>7 DEF Desk!Next

(***************************************************************************)
(* Types are kept.                                                         *)
(***************************************************************************)
LEMMA Lengths == ASSUME DeskType PROVE Len(v1) \in Nat /\ Len(v2) \in Nat
BY DEF DeskType, PeopleType, TicketsType

LEMMA ErrandStays ==
    ASSUME NEW e, NEW n \in Nat, NEW m \in Nat, NEW n2 \in Nat, NEW m2 \in Nat,
           n <= n2, m <= m2, ErrandOk(e, n, m)
    PROVE  ErrandOk(e, n2, m2)
<1>1. \A x : (x \in 1 .. n => x \in 1 .. n2) /\ (x \in 1 .. m => x \in 1 .. m2)
  OBVIOUS
<1> QED BY <1>1 DEF ErrandOk

LEMMA JobsKept ==
    ASSUME DeskType, NEW w \in Workers, NEW j, Becomes(w, j), ErrandOk(j, Len(v1'), Len(v2')),
           Len(v1') \in Nat, Len(v2') \in Nat, Len(v1) <= Len(v1'), Len(v2) <= Len(v2')
    PROVE  JobsType'
<1>1. \A o \in Workers : ErrandOk(v7[o], Len(v1'), Len(v2'))
  BY Lengths, ErrandStays DEF DeskType, JobsType
<1>2. \A o \in Workers : ErrandOk(v7'[o], Len(v1'), Len(v2'))
  BY <1>1 DEF Becomes
<1> QED BY <1>2 DEF JobsType, Becomes

LEMMA JobsLeft ==
    ASSUME DeskType, v7' = v7, Len(v1') \in Nat, Len(v2') \in Nat, Len(v1) <= Len(v1'),
           Len(v2) <= Len(v2')
    PROVE  JobsType'
<1>1. \A o \in Workers : ErrandOk(v7[o], Len(v1'), Len(v2'))
  BY Lengths, ErrandStays DEF DeskType, JobsType
<1>2. v7' = [w \in Workers |-> v7'[w]]
  BY DEF DeskType, JobsType
<1>3. \A o \in Workers : ErrandOk(v7'[o], Len(v1'), Len(v2'))
  BY <1>1
<1> QED BY <1>2, <1>3 DEF JobsType

LEMMA TicketsKept ==
    ASSUME DeskType, v2' = v2, Len(v1') \in Nat, Len(v1) <= Len(v1'), v8' \in {1, 2}, v8 <= v8'
    PROVE  TicketsType'
<1>1. v2 \in Seq(Ticket) /\ v8 \in {1, 2} /\ Len(v1) \in Nat
  BY Lengths DEF DeskType, TicketsType
<1>2. ASSUME NEW n \in 1 .. Len(v2') PROVE v2'[n].who \in 1 .. Len(v1') /\ v2'[n].day <= v8'
  <2>1. n \in 1 .. Len(v2) /\ v2'[n] = v2[n]
    OBVIOUS
  <2>2. v2[n].who \in 1 .. Len(v1) /\ v2[n].day <= v8 /\ v2[n] \in Ticket
    BY <1>1, <2>1 DEF DeskType, TicketsType
  <2>3. v2[n].day \in {1, 2}
    BY <2>2 DEF Ticket
  <2>4. v2'[n].day <= v8'
    BY <1>1, <2>1, <2>2, <2>3
  <2> QED BY <1>1, <2>1, <2>2, <2>4
<1> QED BY <1>1, <1>2 DEF TicketsType

LEMMA TicketAdded ==
    ASSUME DeskType, NEW t \in Ticket, v2' = Append(v2, t), t.who \in 1 .. Len(v1'), t.day = v8,
           Len(v1') \in Nat, Len(v1) <= Len(v1'), v8' = v8
    PROVE  TicketsType' /\ Len(v2') = Len(v2) + 1
<1>1. v2 \in Seq(Ticket) /\ v8 \in {1, 2} /\ Len(v1) \in Nat /\ Len(v2) \in Nat
  BY Lengths DEF DeskType, TicketsType
<1>2. v2' \in Seq(Ticket) /\ Len(v2') = Len(v2) + 1 /\ v2'[Len(v2) + 1] = t
  BY <1>1
<1>3. ASSUME NEW n \in 1 .. Len(v2') PROVE v2'[n].who \in 1 .. Len(v1') /\ v2'[n].day <= v8'
  <2>1. CASE n \in 1 .. Len(v2)
    <3>1. v2'[n] = v2[n]
      BY <1>1, <2>1
    <3>2. v2[n].who \in 1 .. Len(v1) /\ v2[n].day <= v8
      BY <2>1 DEF DeskType, TicketsType
    <3> QED BY <1>1, <3>1, <3>2
  <2>2. CASE n \notin 1 .. Len(v2)
    <3>1. v2'[n] = t
      BY <1>1, <1>2, <2>2
    <3> QED BY <1>1, <3>1
  <2> QED BY <2>1, <2>2
<1> QED BY <1>1, <1>2, <1>3 DEF TicketsType

LEMMA TicketChanged ==
    ASSUME DeskType, NEW n \in 1 .. Len(v2), NEW t \in Ticket, v2' = [v2 EXCEPT ![n] = t],
           t.who = v2[n].who, t.day = v2[n].day, Len(v1') = Len(v1), v8' = v8
    PROVE  /\ TicketsType' /\ Len(v2') = Len(v2) /\ v2'[n] = t
           /\ \A m \in 1 .. Len(v2) : m # n => v2'[m] = v2[m]
<1>1. v2 \in Seq(Ticket) /\ v8 \in {1, 2}
  BY DEF DeskType, TicketsType
<1>2. /\ v2' \in Seq(Ticket) /\ Len(v2') = Len(v2) /\ v2'[n] = t
      /\ \A m \in 1 .. Len(v2) : m # n => v2'[m] = v2[m]
  BY <1>1
<1>3. ASSUME NEW m \in 1 .. Len(v2') PROVE v2'[m].who \in 1 .. Len(v1') /\ v2'[m].day <= v8'
  <2>1. v2'[m].who = v2[m].who /\ v2'[m].day = v2[m].day /\ m \in 1 .. Len(v2)
    BY <1>2
  <2> QED BY <2>1 DEF DeskType, TicketsType
<1> QED BY <1>1, <1>2, <1>3 DEF TicketsType

LEMMA DeskTypeKept == ASSUME DeskType, DeskStep PROVE DeskType'
<1>1. Len(v1) \in Nat /\ Len(v2) \in Nat /\ v8 \in {1, 2} /\ v9 \in Nat /\ ListsType /\ PeopleType
  BY Lengths DEF DeskType, TicketsType, ListsType
<1>2. PeopleType' => Len(v1') \in Nat
  BY DEF PeopleType
<1>3. CASE Aside
  <2>1. PeopleType' /\ Len(v1') = Len(v1) /\ v2' = v2 /\ v8' \in {1, 2} /\ v8 <= v8' /\ v7' = v7
    BY <1>1, <1>3 DEF Aside
  <2>2. TicketsType' /\ JobsType'
    BY <1>1, <2>1, TicketsKept, JobsLeft
  <2>3. v6' \in SUBSET Order /\ IsFiniteSet(v6') /\ v9' \in Nat
    <3>1. v6' \in SUBSET v6 /\ v9' \in {v9, v9 + 1}
      BY <1>3 DEF Aside
    <3>2. v6 \in SUBSET Order /\ IsFiniteSet(v6)
      BY <1>1 DEF ListsType
    <3>3. IsFiniteSet(v6')
      BY <3>1, <3>2, FS_Subset
    <3>4. v9' \in Nat
      BY <1>1, <3>1
    <3> QED BY <3>1, <3>2, <3>3, <3>4
  <2>4. ListsType'
    BY <1>1, <1>3, <2>3 DEF Aside, ListsType
  <2> QED BY <2>1, <2>2, <2>4 DEF DeskType
<1>4. CASE \E i, d, t : Sold(i, d, t)
  <2>1. PICK i, d, t : Sold(i, d, t)
    BY <1>4
  <2>2. /\ PeopleType' /\ Len(v1) <= Len(v1') /\ v2' = Append(v2, t) /\ t \in Ticket
        /\ t.who \in 1 .. Len(v1') /\ t.day = v8
        /\ v9' = v9 + 1 /\ UNCHANGED <<v3, v5, v6, v7, v8, v10, v11>>
    BY <2>1 DEF Sold
  <2>3. TicketsType' /\ Len(v2') = Len(v2) + 1
    BY <1>1, <1>2, <2>2, TicketAdded
  <2>4. JobsType'
    BY <1>1, <1>2, <2>2, <2>3, JobsLeft
  <2>5. v9' \in Nat
    BY <1>1, <2>2
  <2>6. ListsType'
    BY <1>1, <2>2, <2>5 DEF ListsType
  <2> QED BY <2>2, <2>3, <2>4, <2>6 DEF DeskType
<1>5. CASE \E n, t : Edited(n, t)
  <2>1. PICK n, t : Edited(n, t)
    BY <1>5
  <2>2. /\ n \in 1 .. Len(v2) /\ t \in Ticket /\ t.who = v2[n].who /\ t.day = v2[n].day
        /\ v2' = [v2 EXCEPT ![n] = t]
        /\ v9' = v9 + 1 /\ UNCHANGED <<v1, v3, v5, v6, v7, v8, v10, v11>>
    BY <2>1 DEF Edited
  <2>3. TicketsType' /\ Len(v2') = Len(v2)
    BY <1>1, <2>2, TicketChanged
  <2>4. JobsType'
    BY <1>1, <2>2, <2>3, JobsLeft
  <2>5. v9' \in Nat
    BY <1>1, <2>2
  <2>6. ListsType' /\ PeopleType'
    BY <1>1, <2>2, <2>5 DEF ListsType, PeopleType
  <2> QED BY <2>3, <2>4, <2>6 DEF DeskType
<1>6. ASSUME NEW w \in Workers, NEW j, Becomes(w, j), ErrandOk(j, Len(v1'), Len(v2')),
             PeopleType', Len(v1) <= Len(v1'), v2' = v2, v8' = v8, ListsType'
      PROVE  DeskType'
  <2>1. TicketsType' /\ JobsType'
    BY <1>1, <1>2, <1>6, TicketsKept, JobsKept
  <2> QED BY <1>6, <2>1 DEF DeskType
<1>7. ASSUME NEW w \in Workers,
             \/ \E j : Begun(w, j)
             \/ Created(w) \/ (\E i : Removed(w, i))
             \/ Received(w) \/ (\E i, use : Redeemed(w, i, use)) \/ (\E i : Vouched(w, i))
             \/ Died(w)
      PROVE  DeskType'
  <2>1. PICK j : /\ Becomes(w, j) /\ ErrandOk(j, Len(v1'), Len(v2')) /\ PeopleType'
                 /\ Len(v1) <= Len(v1') /\ v9' \in {v9, v9 + 1}
                 /\ UNCHANGED <<v2, v3, v5, v6, v8, v10, v11>>
    <3>1. CASE \E j : Begun(w, j)
      BY <1>1, <3>1 DEF Begun, PeopleType
    <3>2. CASE Created(w)
      BY <3>2 DEF Created, Goneon
    <3>3. CASE \E i : Removed(w, i)
      BY <3>3 DEF Removed, Goneon
    <3>4. CASE Received(w)
      BY <3>4 DEF Received, Listed, Goneon
    <3>5. CASE \E i, use : Redeemed(w, i, use)
      BY <3>5 DEF Redeemed, Goneon
    <3>6. CASE \E i : Vouched(w, i)
      BY <3>6 DEF Vouched, Goneon
    <3>7. CASE Died(w)
      BY <3>7 DEF Died, Listed, Goneon
    <3> QED BY <1>7, <3>1, <3>2, <3>3, <3>4, <3>5, <3>6, <3>7
  <2>2. v9' \in Nat
    BY <1>1, <2>1
  <2>3. ListsType'
    BY <1>1, <2>1, <2>2 DEF ListsType
  <2> QED BY <1>6, <2>1, <2>3
<1>8. ASSUME NEW w \in Workers, NEW i, NEW k, Inserted(w, i, k) PROVE DeskType'
  <2>1. PICK j : /\ Becomes(w, j) /\ ErrandOk(j, Len(v1'), Len(v2')) /\ PeopleType'
                 /\ Len(v1) <= Len(v1') /\ v9' = v9
                 /\ UNCHANGED <<v2, v5, v6, v8, v10, v11>>
    BY <1>8 DEF Inserted, Listed, Goneon
  <2>2. v3' \in Seq(Receipt)
    <3>1. v3' = v3 \/ \E r \in Receipt : v3' = Append(v3, r)
      BY <1>8 DEF Inserted
    <3>2. v3 \in Seq(Receipt)
      BY <1>1 DEF ListsType
    <3> QED BY <3>1, <3>2
  <2>3. ListsType'
    BY <1>1, <2>1, <2>2 DEF ListsType
  <2> QED BY <1>6, <2>1, <2>3
<1>9. ASSUME NEW w \in Workers, NEW i, Relieved(w, i) PROVE DeskType'
  <2>1. PICK j : /\ Becomes(w, j) /\ ErrandOk(j, Len(v1'), Len(v2')) /\ PeopleType'
                 /\ Len(v1) <= Len(v1') /\ v9' = v9 /\ v11' \in [Everyone -> Nat]
                 /\ UNCHANGED <<v2, v3, v5, v6, v8, v10>>
    BY <1>9 DEF Relieved, Goneon
  <2>2. ListsType'
    BY <1>1, <2>1 DEF ListsType
  <2> QED BY <1>6, <2>1, <2>2
<1>10. ASSUME NEW w \in Workers, NEW i, NEW use, RowWritten(w, i, use) PROVE DeskType'
  <2>1. PICK j : /\ Becomes(w, j) /\ ErrandOk(j, Len(v1'), Len(v2')) /\ PeopleType'
                 /\ Len(v1) <= Len(v1') /\ v9' = v9
                 /\ UNCHANGED <<v2, v3, v6, v8, v10, v11>>
    BY <1>10 DEF RowWritten, Listed, Goneon
  <2>2. v5' \in Seq(Redemption)
    BY <1>1, <1>10 DEF RowWritten, ListsType
  <2>3. ListsType'
    BY <1>1, <2>1, <2>2 DEF ListsType
  <2> QED BY <1>6, <2>1, <2>3
<1>11. ASSUME NEW w \in Workers, NEW i, NEW by, Awarded(w, i, by) PROVE DeskType'
  <2>1. PICK j : /\ Becomes(w, j) /\ ErrandOk(j, Len(v1'), Len(v2')) /\ PeopleType'
                 /\ Len(v1) <= Len(v1') /\ v9' = v9 /\ v10' \in [Everyone -> Nat]
                 /\ UNCHANGED <<v2, v3, v5, v6, v8, v11>>
    BY <1>11 DEF Awarded, Goneon
  <2>2. ListsType'
    BY <1>1, <2>1 DEF ListsType
  <2> QED BY <1>6, <2>1, <2>2
<1>12. ASSUME NEW w \in Workers, NEW o, Parked(w, o) PROVE DeskType'
  <2>1. PICK j : /\ Becomes(w, j) /\ ErrandOk(j, Len(v1'), Len(v2')) /\ PeopleType'
                 /\ Len(v1) <= Len(v1') /\ v9' = v9 /\ v6' = v6 \cup {o} /\ o \in Order
                 /\ UNCHANGED <<v2, v3, v5, v8, v10, v11>>
    BY <1>12 DEF Parked, Listed, Goneon
  <2>2. v6' \in SUBSET Order /\ IsFiniteSet(v6')
    BY <1>1, <2>1, FS_AddElement DEF ListsType
  <2>3. ListsType'
    BY <1>1, <2>1, <2>2 DEF ListsType
  <2> QED BY <1>6, <2>1, <2>3
<1>13. ASSUME NEW w \in Workers, NEW n, NEW t, LaidBy(w, n, t) PROVE DeskType'
  <2>1. /\ Becomes(w, Desk!idle) /\ ErrandOk(Desk!idle, Len(v1'), Len(v2')) /\ PeopleType'
        /\ v1' = v1 /\ v9' = v9 /\ v8' = v8 /\ UNCHANGED <<v3, v5, v6, v10, v11>>
        /\ n \in 1 .. Len(v2) /\ t \in Ticket /\ t.who = v2[n].who /\ t.day = v2[n].day
        /\ v2' = [v2 EXCEPT ![n] = t]
    BY <1>13 DEF LaidBy, Listed, Goneon
  <2>2. TicketsType' /\ Len(v2') = Len(v2)
    BY <1>1, <2>1, TicketChanged
  <2>3. JobsType'
    BY <1>1, <2>1, <2>2, JobsKept
  <2>4. ListsType'
    BY <1>1, <2>1 DEF ListsType
  <2> QED BY <2>1, <2>2, <2>3, <2>4 DEF DeskType
<1> QED BY <1>3, <1>4, <1>5, <1>7, <1>8, <1>9, <1>10, <1>11, <1>12, <1>13 DEF DeskStep

(***************************************************************************)
(* What is counted, customer by customer.                                  *)
(***************************************************************************)
Lots(i) == {n \in 1 .. Len(v2) : v2[n].who = i}
Debts(i) == {n \in 1 .. Len(v2) : v2[n].who = i /\ v2[n].status = "credit"}
Receipts(i) == {n \in 1 .. Len(v3) : v3[n].who = i}
AtWork(op, i) == {w \in Workers : v7[w].op = op /\ v7[w].who = i}

LEMMA CountsType ==
    ASSUME DeskType, NEW i
    PROVE  /\ IsFiniteSet(Lots(i)) /\ Cardinality(Lots(i)) \in Nat
           /\ IsFiniteSet(Debts(i)) /\ Cardinality(Debts(i)) \in Nat
           /\ IsFiniteSet(Receipts(i)) /\ Cardinality(Receipts(i)) \in Nat
           /\ \A op : IsFiniteSet(AtWork(op, i)) /\ Cardinality(AtWork(op, i)) \in Nat
<1>1. Len(v2) \in Nat /\ Len(v3) \in Nat
  BY DEF DeskType, TicketsType, ListsType
<1>2. IsFiniteSet(1 .. Len(v2)) /\ IsFiniteSet(1 .. Len(v3)) /\ IsFiniteSet(Workers)
  BY <1>1, FS_Interval, PartsAssumption
<1>3. /\ Lots(i) \in SUBSET (1 .. Len(v2)) /\ Debts(i) \in SUBSET (1 .. Len(v2))
      /\ Receipts(i) \in SUBSET (1 .. Len(v3)) /\ \A op : AtWork(op, i) \in SUBSET Workers
  BY DEF Lots, Debts, Receipts, AtWork
<1>4. /\ IsFiniteSet(Lots(i)) /\ IsFiniteSet(Debts(i)) /\ IsFiniteSet(Receipts(i))
      /\ \A op : IsFiniteSet(AtWork(op, i))
  BY <1>2, <1>3, FS_Subset
<1> QED BY <1>4, FS_CardinalityType

LEMMA OneMore ==
    ASSUME NEW S, IsFiniteSet(S), NEW a, a \notin S, NEW T, T = S \cup {a}
    PROVE  IsFiniteSet(T) /\ Cardinality(T) = Cardinality(S) + 1
BY FS_AddElement

LEMMA OneLess ==
    ASSUME NEW S, IsFiniteSet(S), NEW a, a \in S, NEW T, T = S \ {a}
    PROVE  IsFiniteSet(T) /\ Cardinality(S) = Cardinality(T) + 1
<1>1. IsFiniteSet(T) /\ a \notin T /\ S = T \cup {a}
  BY FS_Subset
<1> QED BY <1>1, OneMore

LEMMA SoldCounts ==
    ASSUME DeskType, NEW i, NEW d, NEW t, Sold(i, d, t)
    PROVE  /\ Cardinality(Lots(i)') = Cardinality(Lots(i)) + 1
           /\ Cardinality(Debts(i)') = Cardinality(Debts(i)) + d
           /\ \A j : j # i => Lots(j)' = Lots(j) /\ Debts(j)' = Debts(j)
<1>1. PICK m : m = Len(v2) + 1
  OBVIOUS
<1>2. /\ v2 \in Seq(Ticket) /\ Len(v2) \in Nat /\ t \in Ticket /\ t.who = i
      /\ v2' = Append(v2, t) /\ d = IF t.status = "credit" THEN 1 ELSE 0
  BY Lengths DEF DeskType, TicketsType, Sold
<1>3. /\ \A n : n \in 1 .. Len(v2') <=> n \in 1 .. Len(v2) \/ n = m
      /\ m \notin 1 .. Len(v2) /\ v2'[m] = t /\ \A n \in 1 .. Len(v2) : v2'[n] = v2[n]
  BY <1>1, <1>2
<1>4. Lots(i)' = Lots(i) \cup {m} /\ m \notin Lots(i)
  BY <1>2, <1>3 DEF Lots
<1>5. m \notin Debts(i) /\ Debts(i)' = IF t.status = "credit" THEN Debts(i) \cup {m} ELSE Debts(i)
  BY <1>2, <1>3 DEF Debts
<1>6. \A j : j # i => Lots(j)' = Lots(j) /\ Debts(j)' = Debts(j)
  BY <1>2, <1>3 DEF Lots, Debts
<1>7. Cardinality(Lots(i)') = Cardinality(Lots(i)) + 1
  BY <1>4, CountsType, OneMore
<1>8. Cardinality(Debts(i)') = Cardinality(Debts(i)) + d
  <2>1. CASE t.status = "credit"
    BY <1>2, <1>5, <2>1, CountsType, OneMore
  <2>2. CASE t.status # "credit"
    BY <1>2, <1>5, <2>2, CountsType
  <2> QED BY <2>1, <2>2
<1> QED BY <1>6, <1>7, <1>8

Altered(n, t) ==
    /\ \A j : Lots(j)' = Lots(j) /\ (j # t.who => Debts(j)' = Debts(j))
    /\ Len(v2') = Len(v2) /\ v2'[n] = t
    /\ \A m \in 1 .. Len(v2) : m # n => v2'[m] = v2[m]

LEMMA ChangedCounts ==
    ASSUME DeskType, NEW n \in 1 .. Len(v2), NEW t, v2' = [v2 EXCEPT ![n] = t], t.who = v2[n].who
    PROVE  Altered(n, t)
<1>1. v2 \in Seq(Ticket)
  BY DEF DeskType, TicketsType
<1>2. /\ Len(v2') = Len(v2) /\ v2'[n] = t
      /\ \A m \in 1 .. Len(v2) : m # n => v2'[m] = v2[m]
  BY <1>1
<1>3. \A j : Lots(j)' = Lots(j)
  BY <1>2 DEF Lots
<1>4. \A j : j # t.who => Debts(j)' = Debts(j)
  BY <1>2 DEF Debts
<1> QED BY <1>2, <1>3, <1>4 DEF Altered

LEMMA AddedReceipt ==
    ASSUME DeskType, NEW r \in Receipt, v3' = Append(v3, r)
    PROVE  /\ Cardinality(Receipts(r.who)') = Cardinality(Receipts(r.who)) + 1
           /\ \A j : j # r.who => Receipts(j)' = Receipts(j)
<1>1. PICK m, i : m = Len(v3) + 1 /\ i = r.who
  OBVIOUS
<1>2. v3 \in Seq(Receipt) /\ Len(v3) \in Nat
  BY DEF DeskType, ListsType
<1>3. /\ \A n : n \in 1 .. Len(v3') <=> n \in 1 .. Len(v3) \/ n = m
      /\ m \notin 1 .. Len(v3) /\ v3'[m] = r /\ \A n \in 1 .. Len(v3) : v3'[n] = v3[n]
  BY <1>1, <1>2
<1>4. Receipts(i)' = Receipts(i) \cup {m} /\ m \notin Receipts(i)
  BY <1>1, <1>3 DEF Receipts
<1>5. \A j : j # i => Receipts(j)' = Receipts(j)
  BY <1>1, <1>3 DEF Receipts
<1>6. Cardinality(Receipts(i)') = Cardinality(Receipts(i)) + 1
  BY <1>4, CountsType, OneMore
<1> QED BY <1>1, <1>5, <1>6

LEMMA TakesUp ==
    ASSUME DeskType, NEW w \in Workers, NEW j, Becomes(w, j), NEW op, v7[w].op # op, j.op = op
    PROVE  /\ Cardinality(AtWork(op, j.who)') = Cardinality(AtWork(op, j.who)) + 1
           /\ \A i : i # j.who => AtWork(op, i)' = AtWork(op, i)
<1>1. AtWork(op, j.who)' = AtWork(op, j.who) \cup {w} /\ w \notin AtWork(op, j.who)
  BY DEF AtWork, Becomes
<1>2. \A i : i # j.who => AtWork(op, i)' = AtWork(op, i)
  BY DEF AtWork, Becomes
<1>3. Cardinality(AtWork(op, j.who)') = Cardinality(AtWork(op, j.who)) + 1
  BY <1>1, CountsType, OneMore
<1> QED BY <1>2, <1>3

OneFewer(op, i) ==
    /\ Cardinality(AtWork(op, i)) = Cardinality(AtWork(op, i)') + 1
    /\ Cardinality(AtWork(op, i)') \in Nat
    /\ \A k : k # i => AtWork(op, k)' = AtWork(op, k)

LEMMA PutsDown ==
    ASSUME DeskType, NEW w \in Workers, NEW j, Becomes(w, j), NEW op, v7[w].op = op, j.op # op,
           NEW i, i = v7[w].who
    PROVE  OneFewer(op, i)
<1>1. AtWork(op, i)' = AtWork(op, i) \ {w} /\ w \in AtWork(op, i)
  BY DEF AtWork, Becomes
<1>2. \A k : k # i => AtWork(op, k)' = AtWork(op, k)
  BY DEF AtWork, Becomes
<1>3. IsFiniteSet(AtWork(op, i))
  BY CountsType
<1>4. PICK S, T : S = AtWork(op, i) /\ T = AtWork(op, i)'
  OBVIOUS
<1>5. IsFiniteSet(T) /\ Cardinality(S) = Cardinality(T) + 1
  BY <1>1, <1>3, <1>4, OneLess
<1>6. Cardinality(T) \in Nat
  BY <1>5, FS_CardinalityType
<1> QED BY <1>2, <1>4, <1>5, <1>6 DEF OneFewer

\* nobody takes up or puts down an errand of this kind
Steady(op) ==
    \/ v7' = v7
    \/ \E w \in Workers : \E j : Becomes(w, j) /\ v7[w].op # op /\ j.op # op

LEMMA SteadyMeans ==
    ASSUME NEW op, Steady(op)
    PROVE  /\ \A i : AtWork(op, i)' = AtWork(op, i)
           /\ \A w \in Workers : v7[w].op = op \/ v7'[w].op = op => v7'[w] = v7[w]
<1>1. \A w \in Workers : v7[w].op = op \/ v7'[w].op = op => v7'[w] = v7[w]
  BY DEF Steady, Becomes
<1>2. \A i : AtWork(op, i)' = AtWork(op, i)
  BY <1>1 DEF AtWork
<1> QED BY <1>1, <1>2

(***************************************************************************)
(* A payment is taken once per key.                                        *)
(***************************************************************************)
KeysOk == \A m, n \in 1 .. Len(v3) : v3[m].key = v3[n].key => m = n

LEMMA KeysKept == ASSUME DeskType, DeskStep, KeysOk PROVE KeysOk'
<1>1. v3' = v3 \/ \E w \in Workers : \E i, k : Inserted(w, i, k)
  <2>1. Aside \/ (\E i, d, t : Sold(i, d, t)) \/ (\E n, t : Edited(n, t)) => v3' = v3
    BY DEF Aside, Sold, Edited
  <2>2. ASSUME NEW w \in Workers
        PROVE  /\ (\E j : Begun(w, j)) => v3' = v3
               /\ Created(w) \/ Received(w) \/ Died(w) => v3' = v3
               /\ \A i : Removed(w, i) \/ Relieved(w, i) \/ Vouched(w, i) => v3' = v3
               /\ \A i, use : Redeemed(w, i, use) \/ RowWritten(w, i, use) => v3' = v3
    BY DEF Begun, Created, Removed, Relieved, Received, Redeemed, RowWritten, Vouched, Died
  <2>3. ASSUME NEW w \in Workers
        PROVE  /\ \A i, by : Awarded(w, i, by) => v3' = v3
               /\ \A o : Parked(w, o) => v3' = v3
               /\ \A n, t : LaidBy(w, n, t) => v3' = v3
    BY DEF Awarded, Parked, LaidBy
  <2> QED BY <2>1, <2>2, <2>3 DEF DeskStep
<1>2. CASE v3' = v3
  BY <1>2 DEF KeysOk
<1>3. ASSUME NEW w \in Workers, NEW i, NEW k, Inserted(w, i, k), v3' # v3 PROVE KeysOk'
  <2>1. /\ \A n \in 1 .. Len(v3) : v3[n].key # k
        /\ \E r \in Receipt : r.key = k /\ v3' = Append(v3, r)
    BY <1>3 DEF Inserted
  <2>2. PICK r \in Receipt : r.key = k /\ v3' = Append(v3, r)
    BY <2>1
  <2>3. PICK e : e = Len(v3) + 1
    OBVIOUS
  <2>4. v3 \in Seq(Receipt) /\ Len(v3) \in Nat
    BY DEF DeskType, ListsType
  <2>5. /\ \A n : n \in 1 .. Len(v3') <=> n \in 1 .. Len(v3) \/ n = e
        /\ v3'[e] = r /\ \A n \in 1 .. Len(v3) : v3'[n] = v3[n]
    BY <2>2, <2>3, <2>4
  <2> QED BY <2>1, <2>2, <2>5 DEF KeysOk
<1> QED BY <1>1, <1>2, <1>3

(***************************************************************************)
(* What a customer owes: the credit sales less the payments that had       *)
(* something to pay; a payment on the way to the balance has its row.      *)
(***************************************************************************)
CreditOk(i) ==
    /\ v11[i] + Cardinality(AtWork("credit", i)) <= Cardinality(Receipts(i))
    /\ <<"cut", i>> \notin v12 /\ <<"edited", i>> \notin v12 =>
          /\ Balance(i) = Cardinality(Debts(i)) + v11[i]
                       - (Cardinality(Receipts(i)) - Cardinality(AtWork("credit", i)))
          /\ \A n \in 1 .. Len(v2) : v2[n].who = i => v2[n].status # "layaway"

CreditQuiet ==
    /\ \A j : Balance(j)' = Balance(j)
    /\ v12 \subseteq v12' /\ UNCHANGED <<v2, v3, v11>> /\ Steady("credit")

LEMMA CreditSteps ==
    ASSUME DeskStep
    PROVE  \/ CreditQuiet
           \/ \E i, d, t : Sold(i, d, t)
           \/ \E n, t : Edited(n, t)
           \/ \E w \in Workers : \/ (\E i, k : Inserted(w, i, k)) \/ (\E i : Relieved(w, i))
                                 \/ (\E n, t : LaidBy(w, n, t)) \/ Died(w)
<1>1. CASE Aside
  BY <1>1 DEF CreditQuiet, Aside, SameBooks, Steady
<1>2. ASSUME NEW w \in Workers, NEW j, Begun(w, j) PROVE CreditQuiet
  BY <1>2 DEF CreditQuiet, Begun, Steady, Balance
<1>3. ASSUME NEW w \in Workers, Created(w) \/ Received(w) PROVE CreditQuiet
  BY <1>3, IdleOk DEF CreditQuiet, Created, Received, Listed, Goneon, SameBooks, Steady
<1>4. ASSUME NEW w \in Workers, NEW i, Removed(w, i) PROVE CreditQuiet
  BY <1>4, IdleOk DEF CreditQuiet, Removed, Goneon, Steady
<1>5. ASSUME NEW w \in Workers, NEW i, NEW use, Redeemed(w, i, use) PROVE CreditQuiet
  <2>1. PICK j : j = [op |-> "row", who |-> i, use |-> use]
    OBVIOUS
  <2>2. Becomes(w, j) /\ v7[w].op # "credit" /\ j.op # "credit"
    BY <1>5, <2>1 DEF Redeemed, Goneon
  <2>3. (\A n : Balance(n)' = Balance(n)) /\ v12 \subseteq v12' /\ UNCHANGED <<v2, v3, v11>>
    BY <1>5 DEF Redeemed, Goneon
  <2> QED BY <2>2, <2>3 DEF CreditQuiet, Steady
<1>6. ASSUME NEW w \in Workers, NEW i, NEW use, RowWritten(w, i, use) PROVE CreditQuiet
  BY <1>6, IdleOk DEF CreditQuiet, RowWritten, Listed, Goneon, SameBooks, Steady
<1>7. ASSUME NEW w \in Workers, NEW i, Vouched(w, i) PROVE CreditQuiet
  BY <1>7 DEF CreditQuiet, Vouched, Goneon, Steady
<1>8. ASSUME NEW w \in Workers, NEW i, NEW by, Awarded(w, i, by) PROVE CreditQuiet
  BY <1>8, IdleOk DEF CreditQuiet, Awarded, Goneon, Steady
<1>9. ASSUME NEW w \in Workers, NEW o, Parked(w, o) PROVE CreditQuiet
  BY <1>9, IdleOk DEF CreditQuiet, Parked, Listed, Goneon, SameBooks, Steady
<1> QED BY <1>1, <1>2, <1>3, <1>4, <1>5, <1>6, <1>7, <1>8, <1>9 DEF DeskStep

\* the same counts, and no row that was not there before
LEMMA CreditSame ==
    ASSUME NEW i, CreditOk(i), v12 \subseteq v12',
           \/ <<"cut", i>> \in v12' \/ <<"edited", i>> \in v12'
           \/ /\ Balance(i)' = Balance(i) /\ Debts(i)' = Debts(i)
              /\ \A n \in 1 .. Len(v2') : v2'[n].who = i =>
                    \/ v2'[n].status # "layaway"
                    \/ n \in 1 .. Len(v2) /\ v2'[n] = v2[n],
           v11'[i] = v11[i], Receipts(i)' = Receipts(i), AtWork("credit", i)' = AtWork("credit", i)
    PROVE  CreditOk(i)'
<1>1. v11'[i] + Cardinality(AtWork("credit", i)') <= Cardinality(Receipts(i)')
  BY DEF CreditOk
<1>2. CASE <<"cut", i>> \in v12' \/ <<"edited", i>> \in v12'
  BY <1>1, <1>2 DEF CreditOk
<1>3. CASE ~(<<"cut", i>> \in v12' \/ <<"edited", i>> \in v12')
  <2>1. /\ Balance(i) = Cardinality(Debts(i)) + v11[i]
                     - (Cardinality(Receipts(i)) - Cardinality(AtWork("credit", i)))
        /\ \A n \in 1 .. Len(v2) : v2[n].who = i => v2[n].status # "layaway"
    BY <1>3 DEF CreditOk
  <2>2. \A n \in 1 .. Len(v2') : v2'[n].who = i => v2'[n].status # "layaway"
    BY <1>3, <2>1
  <2>3. Balance(i)' = Cardinality(Debts(i)') + v11'[i]
                   - (Cardinality(Receipts(i)') - Cardinality(AtWork("credit", i)'))
    BY <1>3, <2>1
  <2> QED BY <1>1, <2>2, <2>3 DEF CreditOk
<1> QED BY <1>2, <1>3

LEMMA CreditKept == ASSUME DeskType, DeskStep, NEW i \in Everyone, CreditOk(i) PROVE CreditOk(i)'
<1>0. v11[i] \in Nat /\ Balance(i) \in Nat
  BY BooksType DEF DeskType, ListsType
<1>1. CASE CreditQuiet
  <2>1. /\ Balance(i)' = Balance(i) /\ v2' = v2 /\ v3' = v3 /\ v11' = v11 /\ v12 \subseteq v12'
        /\ AtWork("credit", i)' = AtWork("credit", i)
    BY <1>1, SteadyMeans DEF CreditQuiet
  <2>2. Debts(i)' = Debts(i) /\ Receipts(i)' = Receipts(i)
    BY <2>1 DEF Debts, Receipts
  <2> QED BY <2>1, <2>2, CreditSame
<1>2. ASSUME NEW k, NEW d, NEW t, Sold(k, d, t) PROVE CreditOk(i)'
  <2>1. /\ v3' = v3 /\ v7' = v7 /\ v11' = v11 /\ v12 \subseteq v12' /\ v2' = Append(v2, t)
        /\ t.status # "layaway" /\ t.who = k /\ d \in {0, 1}
        /\ Balance(k)' = Balance(k) + d /\ \A j : j # k => Balance(j)' = Balance(j)
    BY <1>2 DEF Sold
  <2>2. Receipts(i)' = Receipts(i) /\ AtWork("credit", i)' = AtWork("credit", i)
    BY <2>1 DEF Receipts, AtWork
  <2>3. /\ Cardinality(Debts(k)') = Cardinality(Debts(k)) + d
        /\ \A j : j # k => Debts(j)' = Debts(j)
    BY <1>2, SoldCounts
  <2>4. \A n \in 1 .. Len(v2') :
           v2'[n].status # "layaway" \/ (n \in 1 .. Len(v2) /\ v2'[n] = v2[n])
    <3>1. v2 \in Seq(Ticket) /\ Len(v2) \in Nat
      BY Lengths DEF DeskType, TicketsType
    <3> QED BY <2>1, <3>1
  <2>5. CASE k # i
    BY <2>1, <2>2, <2>3, <2>4, <2>5, CreditSame
  <2>6. CASE k = i
    <3>1. PICK D, R, B \in Nat : /\ D = Cardinality(Debts(i)) /\ R = Cardinality(Receipts(i))
                                 /\ B = Cardinality(AtWork("credit", i))
      BY CountsType
    <3>2. Cardinality(Debts(i)') = D + d /\ Balance(i)' = Balance(i) + d
      BY <2>1, <2>3, <2>6, <3>1
    <3>3. v11'[i] + Cardinality(AtWork("credit", i)') <= Cardinality(Receipts(i)')
      BY <2>1, <2>2 DEF CreditOk
    <3>4. SUFFICES ASSUME <<"cut", i>> \notin v12', <<"edited", i>> \notin v12'
                   PROVE  /\ Balance(i)' = Cardinality(Debts(i)') + v11'[i]
                                - (Cardinality(Receipts(i)') - Cardinality(AtWork("credit", i)'))
                          /\ \A n \in 1 .. Len(v2') : v2'[n].who = i => v2'[n].status # "layaway"
      BY <3>3 DEF CreditOk
    <3>5. /\ Balance(i) = D + v11[i] - (R - B)
          /\ \A n \in 1 .. Len(v2) : v2[n].who = i => v2[n].status # "layaway"
      BY <2>1, <3>1, <3>4 DEF CreditOk
    <3>6. Balance(i) + d = D + d + v11[i] - (R - B)
      <4>1. PICK o, u \in Nat : o = Balance(i) /\ u = v11[i]
        BY <1>0
      <4>2. o = D + u - (R - B) /\ d \in Nat
        BY <2>1, <3>5, <4>1
      <4>3. o + d = D + d + u - (R - B)
        BY <3>1, <4>1, <4>2
      <4> QED BY <4>1, <4>3
    <3> QED BY <2>1, <2>2, <2>4, <3>1, <3>2, <3>5, <3>6
  <2> QED BY <2>5, <2>6
<1>3. ASSUME NEW n \in 1 .. Len(v2), NEW t, v2' = [v2 EXCEPT ![n] = t], t.who = v2[n].who,
             <<"edited", t.who>> \in v12', v12 \subseteq v12', v1' = v1, v3' = v3, v11' = v11,
             Steady("credit")
      PROVE  CreditOk(i)'
  <2>1. Balance(i)' = Balance(i) /\ Receipts(i)' = Receipts(i) /\ AtWork("credit", i)' = AtWork("credit", i)
    BY <1>3, SteadyMeans DEF Balance, Receipts
  <2>2. /\ i # t.who => Debts(i)' = Debts(i)
        /\ Len(v2') = Len(v2) /\ v2'[n] = t
        /\ \A m \in 1 .. Len(v2) : m # n => v2'[m] = v2[m]
    <3>1. Altered(n, t)
      <4>1. v2' = [v2 EXCEPT ![n] = t] /\ t.who = v2[n].who
        BY <1>3
      <4> QED BY <4>1, ChangedCounts
    <3> QED BY <3>1 DEF Altered
  <2> QED BY <1>3, <2>1, <2>2, CreditSame
<1>4. ASSUME NEW n, NEW t, Edited(n, t) PROVE CreditOk(i)'
  BY <1>3, <1>4 DEF Edited, Steady
<1>5. ASSUME NEW w \in Workers, NEW n, NEW t, LaidBy(w, n, t) PROVE CreditOk(i)'
  <2>1. Steady("credit") /\ v12 \subseteq v12'
    BY <1>5, IdleOk DEF LaidBy, Listed, Goneon, Steady
  <2> QED BY <1>3, <1>5, <2>1 DEF LaidBy, Listed
<1>6. ASSUME NEW w \in Workers, NEW k, NEW key, Inserted(w, k, key) PROVE CreditOk(i)'
  <2>1. /\ v7[w].op = "pay" /\ UNCHANGED <<v1, v2, v11, v12>> /\ Balance(i)' = Balance(i)
        /\ Debts(i)' = Debts(i)
    BY <1>6 DEF Inserted, Listed, Balance, Debts
  <2>2. CASE v3' = v3 /\ Becomes(w, Desk!idle)
    <3>1. Steady("credit")
      BY <2>1, <2>2, IdleOk DEF Steady
    <3>2. Receipts(i)' = Receipts(i) /\ AtWork("credit", i)' = AtWork("credit", i)
      BY <2>2, <3>1, SteadyMeans DEF Receipts
    <3> QED BY <2>1, <3>2, CreditSame
  <2>3. CASE /\ \E r \in Receipt : r.who = k /\ v3' = Append(v3, r)
             /\ Becomes(w, [op |-> "credit", who |-> k])
    <3>1. /\ Cardinality(Receipts(k)') = Cardinality(Receipts(k)) + 1
          /\ \A j : j # k => Receipts(j)' = Receipts(j)
      BY <2>3, AddedReceipt
    <3>2. PICK j : j = [op |-> "credit", who |-> k]
      OBVIOUS
    <3>3. j.op = "credit" /\ j.who = k /\ Becomes(w, j)
      BY <2>3, <3>2
    <3>4. /\ Cardinality(AtWork("credit", k)') = Cardinality(AtWork("credit", k)) + 1
          /\ \A m : m # k => AtWork("credit", m)' = AtWork("credit", m)
      BY <2>1, <3>3, TakesUp
    <3>5. CASE k # i
      BY <2>1, <3>1, <3>4, <3>5, CreditSame
    <3>6. CASE k = i
      <4>1. PICK D, R, B \in Nat : /\ D = Cardinality(Debts(i)) /\ R = Cardinality(Receipts(i))
                                   /\ B = Cardinality(AtWork("credit", i))
        BY CountsType
      <4>2. Cardinality(Receipts(i)') = R + 1 /\ Cardinality(AtWork("credit", i)') = B + 1
        BY <3>1, <3>4, <3>6, <4>1
      <4>3. v11[i] + (B + 1) <= R + 1 /\ (R + 1) - (B + 1) = R - B
        <5>1. v11[i] + B <= R
          BY <4>1 DEF CreditOk
        <5> QED BY <1>0, <4>1, <5>1
      <4> QED BY <2>1, <4>1, <4>2, <4>3 DEF CreditOk
    <3> QED BY <3>5, <3>6
  <2> QED BY <1>6, <2>2, <2>3 DEF Inserted, Listed, Goneon
<1>7. ASSUME NEW w \in Workers, NEW k, Relieved(w, k) PROVE CreditOk(i)'
  <2>1. PICK j : j = [op |-> "drawer", who |-> k]
    OBVIOUS
  <2>2. /\ v7[w].op = "credit" /\ k = v7[w].who /\ k \in Everyone /\ Becomes(w, j)
        /\ j.op # "credit" /\ UNCHANGED <<v2, v3, v12>>
        /\ Balance(k)' = IF Balance(k) = 0 THEN 0 ELSE Balance(k) - 1
        /\ v11'[k] = v11[k] + (IF Balance(k) = 0 THEN 1 ELSE 0)
        /\ \A m : m # k => Balance(m)' = Balance(m)
        /\ \A m \in Everyone : m # k => v11'[m] = v11[m]
    BY <1>7, <2>1 DEF Relieved, Goneon
  <2>3. /\ Cardinality(AtWork("credit", k)) = Cardinality(AtWork("credit", k)') + 1
        /\ Cardinality(AtWork("credit", k)') \in Nat
        /\ \A m : m # k => AtWork("credit", m)' = AtWork("credit", m)
    <3>1. OneFewer("credit", k)
      <4>1. Becomes(w, j) /\ v7[w].op = "credit" /\ j.op # "credit" /\ k = v7[w].who
        BY <2>2
      <4> QED BY <4>1, PutsDown
    <3> QED BY <3>1 DEF OneFewer
  <2>4. Debts(i)' = Debts(i) /\ Receipts(i)' = Receipts(i)
    BY <2>2 DEF Debts, Receipts
  <2>5. CASE k # i
    BY <2>2, <2>3, <2>4, <2>5, CreditSame
  <2>6. CASE k = i
    <3>1. PICK D, R, B \in Nat : /\ D = Cardinality(Debts(i)) /\ R = Cardinality(Receipts(i))
                                 /\ B = Cardinality(AtWork("credit", i))
      BY CountsType
    <3>2. Cardinality(AtWork("credit", i)') \in Nat
      BY <2>3, <2>6
    <3>3. PICK b \in Nat : b = Cardinality(AtWork("credit", i)')
      BY <3>2
    <3>4. B = b + 1 /\ v11[i] + B <= R
      BY <2>3, <2>6, <3>1, <3>3 DEF CreditOk
    <3>5. PICK o, O, u, U : o = Balance(i) /\ O = Balance(i)' /\ u = v11[i] /\ U = v11'[i]
      OBVIOUS
    <3>6. /\ o \in Nat /\ u \in Nat
          /\ O = (IF o = 0 THEN 0 ELSE o - 1) /\ U = u + (IF o = 0 THEN 1 ELSE 0)
      BY <1>0, <2>2, <2>6, <3>5
    <3>7. U + b <= R /\ (o = D + u - (R - B) => O = D + U - (R - b))
      <4>1. CASE o = 0
        BY <3>1, <3>3, <3>4, <3>5, <3>6, <4>1
      <4>2. CASE o # 0
        BY <3>1, <3>3, <3>4, <3>5, <3>6, <4>2
      <4> QED BY <4>1, <4>2
    <3> QED BY <2>2, <2>4, <3>1, <3>3, <3>5, <3>7 DEF CreditOk
  <2> QED BY <2>5, <2>6
<1>8. ASSUME NEW w \in Workers, Died(w) PROVE CreditOk(i)'
  <2>1. /\ Becomes(w, Desk!idle) /\ UNCHANGED <<v1, v2, v3, v11>> /\ v12 \subseteq v12'
        /\ v7[w].op = "credit" => <<"cut", v7[w].who>> \in v12'
        /\ Balance(i)' = Balance(i) /\ Debts(i)' = Debts(i) /\ Receipts(i)' = Receipts(i)
    BY <1>8 DEF Died, Listed, Goneon, Balance, Debts, Receipts
  <2>2. CASE v7[w].op # "credit"
    <3>1. Steady("credit")
      BY <2>1, <2>2, IdleOk DEF Steady
    <3> QED BY <2>1, <3>1, SteadyMeans, CreditSame
  <2>3. CASE v7[w].op = "credit"
    <3>1. PICK k : k = v7[w].who
      OBVIOUS
    <3>2. /\ Cardinality(AtWork("credit", k)) = Cardinality(AtWork("credit", k)') + 1
          /\ Cardinality(AtWork("credit", k)') \in Nat
          /\ \A m : m # k => AtWork("credit", m)' = AtWork("credit", m)
      <4>1. Desk!idle.op # "credit"
        BY IdleOk
      <4>2. OneFewer("credit", k)
        BY <2>1, <2>3, <3>1, <4>1, PutsDown
      <4> QED BY <4>2 DEF OneFewer
    <3>3. CASE k # i
      BY <2>1, <3>2, <3>3, CreditSame
    <3>4. CASE k = i
      <4>1. Cardinality(AtWork("credit", i)') \in Nat
        BY <3>2, <3>4
      <4>2. PICK b, R \in Nat : b = Cardinality(AtWork("credit", i)') /\ R = Cardinality(Receipts(i))
        BY <4>1, CountsType
      <4>3. v11[i] + (b + 1) <= R
        BY <3>2, <3>4, <4>2 DEF CreditOk
      <4>4. v11[i] + b <= R
        BY <1>0, <4>2, <4>3
      <4> QED BY <2>1, <2>3, <3>1, <3>4, <4>2, <4>4 DEF CreditOk
    <3> QED BY <3>3, <3>4
  <2> QED BY <2>2, <2>3
<1> QED BY <1>1, <1>2, <1>4, <1>5, <1>6, <1>7, <1>8, CreditSteps

(***************************************************************************)
(* Points: what was earned less what was used, never below zero unless     *)
(* two redemptions overlapped.                                             *)
(***************************************************************************)
PointsOk(i) ==
    /\ Points(i) + Used(i) = Cardinality(Lots(i)) + v10[i]
    /\ <<"redeemed at once", i>> \notin v12 =>
          /\ Points(i) >= 0
          /\ \A w \in Workers : v7[w].op = "redeem" /\ v7[w].who = i => v7[w].use <= Points(i)

PointsQuiet ==
    /\ \A j : Points(j)' = Points(j) /\ Used(j)' = Used(j) /\ Lots(j)' = Lots(j)
    /\ v12 \subseteq v12' /\ v10' = v10
    /\ \A w \in Workers : v7'[w].op = "redeem" => v7'[w] = v7[w]

\* the errand of one worker becomes j, which is not of this kind
LEMMA NoneTaken ==
    ASSUME NEW op, NEW w \in Workers, NEW j, Becomes(w, j), j.op # op
    PROVE  \A o \in Workers : v7'[o].op = op => v7'[o] = v7[o]
BY DEF Becomes

LEMMA LotsLeft == ASSUME v2' = v2 PROVE \A j : Lots(j)' = Lots(j) /\ Debts(j)' = Debts(j)
BY DEF Lots, Debts

LEMMA PointsSteps ==
    ASSUME DeskType, DeskStep
    PROVE  \/ PointsQuiet
           \/ \E i, d, t : Sold(i, d, t)
           \/ \E w \in Workers : \/ (\E j : Begun(w, j)) \/ (\E i, use : Redeemed(w, i, use))
                                 \/ (\E i, by : Awarded(w, i, by))
<1>1. CASE Aside
  BY <1>1, LotsLeft DEF PointsQuiet, Aside, SameBooks
<1>2. ASSUME NEW n, NEW t, Edited(n, t) PROVE PointsQuiet
  <2>1. /\ n \in 1 .. Len(v2) /\ v2' = [v2 EXCEPT ![n] = t] /\ t.who = v2[n].who
        /\ v1' = v1 /\ v7' = v7 /\ v10' = v10 /\ v12 \subseteq v12'
    BY <1>2 DEF Edited
  <2>2. Altered(n, t)
    BY <2>1, ChangedCounts
  <2> QED BY <2>1, <2>2 DEF PointsQuiet, Altered, Points, Used
<1>idle. Desk!idle.op # "redeem"
  BY IdleOk
<1>3. ASSUME NEW w \in Workers, NEW n, NEW t, LaidBy(w, n, t) PROVE PointsQuiet
  <2>1. /\ n \in 1 .. Len(v2) /\ v2' = [v2 EXCEPT ![n] = t] /\ t.who = v2[n].who
        /\ v1' = v1 /\ Becomes(w, Desk!idle) /\ v10' = v10 /\ v12 \subseteq v12'
    BY <1>3 DEF LaidBy, Listed, Goneon
  <2>2. Altered(n, t)
    BY <2>1, ChangedCounts
  <2>3. \A o \in Workers : v7'[o].op = "redeem" => v7'[o] = v7[o]
    BY <1>idle, <2>1, NoneTaken
  <2> QED BY <2>1, <2>2, <2>3 DEF PointsQuiet, Altered, Points, Used
<1>4. ASSUME NEW w \in Workers, NEW j, Becomes(w, j), j.op # "redeem", v2' = v2, v10' = v10,
             v12 \subseteq v12', \A k : Points(k)' = Points(k) /\ Used(k)' = Used(k)
      PROVE  PointsQuiet
  <2>1. \A o \in Workers : v7'[o].op = "redeem" => v7'[o] = v7[o]
    BY <1>4, NoneTaken
  <2> QED BY <1>4, <2>1, LotsLeft DEF PointsQuiet
<1>5. ASSUME NEW w \in Workers, Created(w) \/ Received(w) \/ Died(w) PROVE PointsQuiet
  <2>1. /\ Becomes(w, Desk!idle) /\ v2' = v2 /\ v10' = v10 /\ v12 \subseteq v12'
        /\ \A k : Points(k)' = Points(k) /\ Used(k)' = Used(k)
    BY <1>5 DEF Created, Received, Died, Listed, Goneon, SameBooks
  <2> QED BY <1>4, <1>idle, <2>1
<1>6. ASSUME NEW w \in Workers, NEW i, Removed(w, i) PROVE PointsQuiet
  <2>1. /\ Becomes(w, Desk!idle) /\ v2' = v2 /\ v10' = v10 /\ v12 \subseteq v12'
        /\ \A k : Points(k)' = Points(k) /\ Used(k)' = Used(k)
    BY <1>6 DEF Removed, Goneon
  <2> QED BY <1>4, <1>idle, <2>1
<1>7. ASSUME NEW w \in Workers, NEW i, NEW k, Inserted(w, i, k) PROVE PointsQuiet
  <2>1. PICK j : j = [op |-> "credit", who |-> i]
    OBVIOUS
  <2>2. /\ Becomes(w, Desk!idle) \/ Becomes(w, j)
        /\ v2' = v2 /\ v10' = v10 /\ v12 \subseteq v12'
        /\ \A m : Points(m)' = Points(m) /\ Used(m)' = Used(m)
    BY <1>7, <2>1 DEF Inserted, Listed, Goneon, SameBooks
  <2>3. j.op # "redeem"
    BY <2>1
  <2> QED BY <1>4, <1>idle, <2>2, <2>3
<1>8. ASSUME NEW w \in Workers, NEW i, Relieved(w, i) PROVE PointsQuiet
  <2>1. PICK j : j = [op |-> "drawer", who |-> i]
    OBVIOUS
  <2>2. /\ Becomes(w, j) /\ v2' = v2 /\ v10' = v10 /\ v12 \subseteq v12' /\ j.op # "redeem"
        /\ \A m : Points(m)' = Points(m) /\ Used(m)' = Used(m)
    BY <1>8, <2>1 DEF Relieved, Goneon
  <2> QED BY <1>4, <2>2
<1>9. ASSUME NEW w \in Workers, NEW i, NEW use, RowWritten(w, i, use) PROVE PointsQuiet
  <2>1. /\ Becomes(w, Desk!idle) /\ v2' = v2 /\ v10' = v10 /\ v12 \subseteq v12'
        /\ \A k : Points(k)' = Points(k) /\ Used(k)' = Used(k)
    BY <1>9 DEF RowWritten, Listed, Goneon, SameBooks
  <2> QED BY <1>4, <1>idle, <2>1
<1>10. ASSUME NEW w \in Workers, NEW i, Vouched(w, i) PROVE PointsQuiet
  <2>1. PICK j : j.op = "award" /\ Goneon(w, j)
    BY <1>10 DEF Vouched
  <2>2. /\ Becomes(w, j) /\ v2' = v2 /\ v10' = v10 /\ v12 \subseteq v12' /\ j.op # "redeem"
        /\ \A m : Points(m)' = Points(m) /\ Used(m)' = Used(m)
    BY <1>10, <2>1 DEF Vouched, Goneon
  <2> QED BY <1>4, <2>2
<1>11. ASSUME NEW w \in Workers, NEW o, Parked(w, o) PROVE PointsQuiet
  <2>1. /\ Becomes(w, Desk!idle) /\ v2' = v2 /\ v10' = v10 /\ v12 \subseteq v12'
        /\ \A k : Points(k)' = Points(k) /\ Used(k)' = Used(k)
    BY <1>11 DEF Parked, Listed, Goneon, SameBooks
  <2> QED BY <1>4, <1>idle, <2>1
<1> QED BY <1>1, <1>2, <1>3, <1>5, <1>6, <1>7, <1>8, <1>9, <1>10, <1>11 DEF DeskStep

LEMMA PointsKept == ASSUME DeskType, DeskStep, NEW i \in Everyone, PointsOk(i) PROVE PointsOk(i)'
<1>0. PICK p, u, l, a \in Int : /\ p = Points(i) /\ u = Used(i) /\ l = Cardinality(Lots(i))
                                /\ a = v10[i]
  BY BooksType, CountsType DEF DeskType, ListsType
<1>1. p + u = l + a
  BY <1>0 DEF PointsOk
<1>2. CASE PointsQuiet
  BY <1>2 DEF PointsQuiet, PointsOk
<1>3. ASSUME NEW k, NEW d, NEW t, Sold(k, d, t) PROVE PointsOk(i)'
  <2>1. /\ v7' = v7 /\ v10' = v10 /\ v12 \subseteq v12' /\ \A j : Used(j)' = Used(j)
        /\ Points(k)' = Points(k) + 1 /\ \A j : j # k => Points(j)' = Points(j)
    BY <1>3 DEF Sold
  <2>2. /\ Cardinality(Lots(k)') = Cardinality(Lots(k)) + 1
        /\ \A j : j # k => Lots(j)' = Lots(j)
    BY <1>3, SoldCounts
  <2>3. CASE k # i
    BY <2>1, <2>2, <2>3 DEF PointsOk
  <2>4. CASE k = i
    <3>1. /\ Points(i)' = p + 1 /\ Used(i)' = u /\ Cardinality(Lots(i)') = l + 1 /\ v10'[i] = a
      BY <1>0, <2>1, <2>2, <2>4
    <3>2. (p + 1) + u = (l + 1) + a
      BY <1>0, <1>1
    <3>3. ASSUME <<"redeemed at once", i>> \notin v12'
          PROVE  /\ p + 1 >= 0
                 /\ \A w \in Workers : v7'[w].op = "redeem" /\ v7'[w].who = i => v7'[w].use <= p + 1
      <4>1. /\ p >= 0
            /\ \A w \in Workers : v7[w].op = "redeem" /\ v7[w].who = i => v7[w].use <= p
        BY <1>0, <2>1, <3>3 DEF PointsOk
      <4>2. \A w \in Workers : v7[w].op = "redeem" => v7[w].use \in Nat
        BY DEF DeskType, JobsType, ErrandOk
      <4> QED BY <1>0, <2>1, <4>1, <4>2
    <3> QED BY <3>1, <3>2, <3>3 DEF PointsOk
  <2> QED BY <2>3, <2>4
<1>4. ASSUME NEW w \in Workers, NEW j, Begun(w, j) PROVE PointsOk(i)'
  <2>1. /\ Becomes(w, j) /\ (j.op = "redeem" => j.use <= Points(j.who))
        /\ UNCHANGED <<v1, v2, v10, v12>>
    BY <1>4 DEF Begun
  <2>2. Points(i)' = Points(i) /\ Used(i)' = Used(i) /\ Lots(i)' = Lots(i)
    BY <2>1, LotsLeft DEF Points, Used
  <2>3. ASSUME <<"redeemed at once", i>> \notin v12', NEW o \in Workers,
               v7'[o].op = "redeem", v7'[o].who = i
        PROVE  v7'[o].use <= Points(i)
    <3>1. CASE o = w
      BY <2>1, <2>3, <3>1 DEF Becomes
    <3>2. CASE o # w
      BY <2>1, <2>3, <3>2 DEF Becomes, PointsOk
    <3> QED BY <3>1, <3>2
  <2> QED BY <2>1, <2>2, <2>3 DEF PointsOk
<1>5. ASSUME NEW w \in Workers, NEW k, NEW use, Redeemed(w, k, use) PROVE PointsOk(i)'
  <2>1. PICK j : j = [op |-> "row", who |-> k, use |-> use]
    OBVIOUS
  <2>2. /\ v7[w].op = "redeem" /\ k = v7[w].who /\ use = v7[w].use /\ use \in Nat
        /\ Becomes(w, j) /\ j.op # "redeem" /\ v2' = v2 /\ v10' = v10 /\ v12 \subseteq v12'
        /\ Points(k)' = Points(k) - use /\ Used(k)' = Used(k) + use
        /\ \A m : m # k => Points(m)' = Points(m) /\ Used(m)' = Used(m)
        /\ \/ <<"redeemed at once", k>> \in v12'
           \/ \A o \in Workers : o # w => ~(v7[o].op = "redeem" /\ v7[o].who = k)
    BY <1>5, <2>1 DEF Redeemed, Goneon
  <2>3. /\ \A o \in Workers : v7'[o].op = "redeem" => v7'[o] = v7[o] /\ o # w
        /\ Lots(i)' = Lots(i)
    BY <2>2, LotsLeft DEF Becomes
  <2>4. CASE k # i
    BY <2>2, <2>3, <2>4 DEF PointsOk
  <2>5. CASE k = i
    <3>1. /\ Points(i)' = p - use /\ Used(i)' = u + use /\ Cardinality(Lots(i)') = l /\ v10'[i] = a
      BY <1>0, <2>2, <2>3, <2>5
    <3>use. PICK n \in Nat : n = use
      BY <2>2
    <3>2. (p - use) + (u + use) = l + a
      BY <1>1, <3>use
    <3>3. ASSUME <<"redeemed at once", i>> \notin v12'
          PROVE  /\ p - use >= 0
                 /\ \A o \in Workers : ~(v7'[o].op = "redeem" /\ v7'[o].who = i)
      <4>1. use <= p
        BY <1>0, <2>2, <2>5, <3>3 DEF PointsOk
      <4>2. \A o \in Workers : ~(v7'[o].op = "redeem" /\ v7'[o].who = i)
        BY <2>2, <2>3, <2>5, <3>3
      <4> QED BY <3>use, <4>1, <4>2
    <3> QED BY <3>1, <3>2, <3>3 DEF PointsOk
  <2> QED BY <2>4, <2>5
<1>6. ASSUME NEW w \in Workers, NEW k, NEW by, Awarded(w, k, by) PROVE PointsOk(i)'
  <2>1. /\ Becomes(w, Desk!idle) /\ v2' = v2 /\ v12' = v12 /\ \A j : Used(j)' = Used(j)
        /\ \A j \in {k, by} : Points(j)' = Points(j) + 1 /\ v10'[j] = v10[j] + 1
        /\ \A j : j \notin {k, by} => Points(j)' = Points(j)
        /\ \A j \in Everyone : j \notin {k, by} => v10'[j] = v10[j]
    BY <1>6 DEF Awarded, Goneon
  <2>2. /\ \A o \in Workers : v7'[o].op = "redeem" => v7'[o] = v7[o]
        /\ Lots(i)' = Lots(i)
    BY <2>1, IdleOk, LotsLeft DEF Becomes
  <2>3. PICK e \in {0, 1} : Points(i)' = p + e /\ v10'[i] = a + e
    <3>1. CASE i \in {k, by}
      BY <1>0, <2>1, <3>1
    <3>2. CASE i \notin {k, by}
      <4>1. Points(i)' = p + 0 /\ v10'[i] = a + 0
        BY <1>0, <2>1, <3>2
      <4> QED BY <4>1
    <3> QED BY <3>1, <3>2
  <2>4. (p + e) + u = l + (a + e)
    BY <1>0, <1>1
  <2>5. ASSUME <<"redeemed at once", i>> \notin v12'
        PROVE  /\ p + e >= 0
               /\ \A o \in Workers : v7'[o].op = "redeem" /\ v7'[o].who = i => v7'[o].use <= p + e
    <3>1. /\ p >= 0
          /\ \A o \in Workers : v7[o].op = "redeem" /\ v7[o].who = i => v7[o].use <= p
      BY <1>0, <2>1, <2>5 DEF PointsOk
    <3>2. \A o \in Workers : v7[o].op = "redeem" => v7[o].use \in Nat
      BY DEF DeskType, JobsType, ErrandOk
    <3> QED BY <1>0, <2>2, <3>1, <3>2
  <2> QED BY <1>0, <2>1, <2>2, <2>3, <2>4, <2>5 DEF PointsOk
<1> QED BY <1>2, <1>3, <1>4, <1>5, <1>6, PointsSteps

(***************************************************************************)
(* Points that were used have their rows, written or on the way.           *)
(***************************************************************************)
RowUse(i) == [n \in 1 .. Len(v5) |-> IF v5[n].who = i THEN v5[n].use ELSE 0]
UseToCome(i) == [w \in Workers |-> IF v7[w].op = "row" /\ v7[w].who = i THEN v7[w].use ELSE 0]
InRows(i) == SumFunctionOnSet(RowUse(i), 1 .. Len(v5))
StillToCome(i) == SumFunctionOnSet(UseToCome(i), Workers)

UsedOk(i) == <<"cut", i>> \notin v12 => Used(i) = InRows(i) + StillToCome(i)

UsedQuiet ==
    /\ \A j : Used(j)' = Used(j)
    /\ v12 \subseteq v12' /\ v5' = v5 /\ Steady("row")

LEMMA RowsType ==
    ASSUME DeskType, NEW i
    PROVE  /\ \A n \in 1 .. Len(v5) : RowUse(i)[n] \in Int
           /\ \A w \in Workers : UseToCome(i)[w] \in Int
           /\ InRows(i) \in Int /\ StillToCome(i) \in Int
           /\ IsFiniteSet(1 .. Len(v5)) /\ IsFiniteSet(Workers)
<1>1. v5 \in Seq(Redemption) /\ Len(v5) \in Nat
  BY DEF DeskType, ListsType
<1>2. IsFiniteSet(1 .. Len(v5)) /\ IsFiniteSet(Workers)
  BY <1>1, FS_Interval, PartsAssumption
<1>3. \A n \in 1 .. Len(v5) : RowUse(i)[n] \in Int
  <2>1. \A n \in 1 .. Len(v5) : v5[n].use \in Int
    <3>1. \A n \in 1 .. Len(v5) : v5[n] \in Redemption
      BY <1>1
    <3> QED BY <3>1 DEF Redemption
  <2> QED BY <2>1 DEF RowUse
<1>4. \A w \in Workers : UseToCome(i)[w] \in Int
  BY DEF UseToCome, DeskType, JobsType, ErrandOk
<1>5. InRows(i) \in Int /\ StillToCome(i) \in Int
  BY <1>2, <1>3, <1>4, SumType DEF InRows, StillToCome
<1> QED BY <1>2, <1>3, <1>4, <1>5

LEMMA RowsMean ==
    ASSUME DeskType, NEW i
    PROVE  Desk!UsedInRows(i) = InRows(i) /\ Desk!RowsToCome(i) = StillToCome(i)
<1>1. DOMAIN v5 = 1 .. Len(v5)
  BY DEF DeskType, ListsType
<1> QED BY <1>1, DeskSums DEF Desk!UsedInRows, Desk!RowsToCome, Desk!At, InRows, StillToCome, RowUse, UseToCome

LEMMA UseSteady == ASSUME Steady("row"), NEW i PROVE StillToCome(i)' = StillToCome(i)
<1>1. \A w \in Workers : v7[w].op = "row" \/ v7'[w].op = "row" => v7'[w] = v7[w]
  BY SteadyMeans
<1>2. UseToCome(i)' = UseToCome(i)
  BY <1>1 DEF UseToCome
<1> QED BY <1>2 DEF StillToCome

\* a row is taken up, written, or lost with its request
LEMMA UseTurns ==
    ASSUME DeskType, NEW w \in Workers, NEW j, Becomes(w, j), NEW i, NEW a, NEW b,
           a = (IF v7[w].op = "row" /\ v7[w].who = i THEN v7[w].use ELSE 0),
           b = (IF j.op = "row" /\ j.who = i THEN j.use ELSE 0), b \in Int
    PROVE  StillToCome(i)' = StillToCome(i) - a + b
<1>1. PICK F, G : F = UseToCome(i) /\ G = UseToCome(i)'
  OBVIOUS
<1>2. F[w] = a /\ G[w] = b /\ \A x \in Workers : x # w => G[x] = F[x]
  BY <1>1 DEF UseToCome, Becomes
<1>3. IsFiniteSet(Workers) /\ \A x \in Workers : F[x] \in Int
  BY <1>1, RowsType
<1>4. SumFunctionOnSet(G, Workers) = SumFunctionOnSet(F, Workers) - F[w] + G[w]
  BY <1>2, <1>3, SumOneChanged
<1> QED BY <1>1, <1>2, <1>4 DEF StillToCome

LEMMA RowComes ==
    ASSUME DeskType, NEW r \in Redemption, v5' = Append(v5, r)
    PROVE  /\ InRows(r.who)' = InRows(r.who) + r.use
           /\ \A j : j # r.who => InRows(j)' = InRows(j)
<1>1. PICK e : e = Len(v5) + 1
  OBVIOUS
<1>2. v5 \in Seq(Redemption) /\ Len(v5) \in Nat /\ r.use \in Int
  BY DEF DeskType, ListsType, Redemption
<1>3. PICK S, T : S = 1 .. Len(v5) /\ T = 1 .. Len(v5')
  OBVIOUS
<1>4. /\ T = S \cup {e} /\ e \notin S /\ v5'[e] = r /\ \A n \in S : v5'[n] = v5[n]
  BY <1>1, <1>2, <1>3
<1>5. ASSUME NEW i
      PROVE  InRows(i)' = InRows(i) + (IF r.who = i THEN r.use ELSE 0)
  <2>1. PICK F, G : F = RowUse(i) /\ G = RowUse(i)'
    OBVIOUS
  <2>2. G[e] = (IF r.who = i THEN r.use ELSE 0) /\ \A x \in S : G[x] = F[x]
    BY <1>3, <1>4, <2>1 DEF RowUse
  <2>3. IsFiniteSet(S) /\ \A x \in S : F[x] \in Int
    BY <1>3, <2>1, RowsType
  <2>4. G[e] \in Int
    BY <1>2, <2>2
  <2>5. SumFunctionOnSet(G, T) = SumFunctionOnSet(F, S) + G[e]
    BY <1>4, <2>2, <2>3, <2>4, SumJoin
  <2> QED BY <1>3, <2>1, <2>2, <2>5 DEF InRows
<1>6. InRows(r.who)' = InRows(r.who) + r.use
  BY <1>5
<1>7. ASSUME NEW j, j # r.who PROVE InRows(j)' = InRows(j)
  <2>1. InRows(j)' = InRows(j) + 0 /\ InRows(j) \in Int
    BY <1>5, <1>7, RowsType
  <2> QED BY <2>1
<1> QED BY <1>6, <1>7

LEMMA UsedSteps ==
    ASSUME DeskStep
    PROVE  \/ UsedQuiet
           \/ \E w \in Workers : \/ (\E i, use : Redeemed(w, i, use))
                                 \/ (\E i, use : RowWritten(w, i, use)) \/ Died(w)
<1>idle. Desk!idle.op # "row"
  BY IdleOk
<1>1. CASE Aside
  BY <1>1 DEF UsedQuiet, Aside, SameBooks, Steady
<1>2. ASSUME NEW i, NEW d, NEW t, Sold(i, d, t) PROVE UsedQuiet
  BY <1>2 DEF UsedQuiet, Sold, Steady
<1>3. ASSUME NEW n, NEW t, Edited(n, t) PROVE UsedQuiet
  BY <1>3 DEF UsedQuiet, Edited, Steady, Used
<1>4. ASSUME NEW w \in Workers, NEW j, Becomes(w, j), v7[w].op # "row", j.op # "row", v5' = v5,
             v12 \subseteq v12', \A k : Used(k)' = Used(k)
      PROVE  UsedQuiet
  BY <1>4 DEF UsedQuiet, Steady
<1>5. ASSUME NEW w \in Workers, NEW j, Begun(w, j) PROVE UsedQuiet
  BY <1>5 DEF UsedQuiet, Begun, Steady, Used
<1>6. ASSUME NEW w \in Workers, Created(w) \/ Received(w) PROVE UsedQuiet
  BY <1>4, <1>6, <1>idle DEF Created, Received, Listed, Goneon, SameBooks
<1>7. ASSUME NEW w \in Workers, NEW i, Removed(w, i) PROVE UsedQuiet
  BY <1>4, <1>7, <1>idle DEF Removed, Goneon
<1>8. ASSUME NEW w \in Workers, NEW i, NEW k, Inserted(w, i, k) PROVE UsedQuiet
  <2>1. PICK j : j = [op |-> "credit", who |-> i]
    OBVIOUS
  <2>2. /\ v7[w].op # "row" /\ j.op # "row" /\ v5' = v5
        /\ v12 \subseteq v12' /\ (\A m : Used(m)' = Used(m))
        /\ Becomes(w, Desk!idle) \/ Becomes(w, j)
    BY <1>8, <2>1 DEF Inserted, Listed, Goneon, SameBooks
  <2> QED BY <1>4, <1>idle, <2>2
<1>9. ASSUME NEW w \in Workers, NEW i, Relieved(w, i) PROVE UsedQuiet
  <2>1. PICK j : j = [op |-> "drawer", who |-> i]
    OBVIOUS
  <2>2. /\ Becomes(w, j) /\ v7[w].op # "row" /\ j.op # "row" /\ v5' = v5
        /\ v12 \subseteq v12' /\ (\A m : Used(m)' = Used(m))
    BY <1>9, <2>1 DEF Relieved, Goneon
  <2> QED BY <1>4, <2>2
<1>10. ASSUME NEW w \in Workers, NEW i, Vouched(w, i) PROVE UsedQuiet
  BY <1>4, <1>10 DEF Vouched, Goneon
<1>11. ASSUME NEW w \in Workers, NEW i, NEW by, Awarded(w, i, by) PROVE UsedQuiet
  BY <1>4, <1>11, <1>idle DEF Awarded, Goneon
<1>12. ASSUME NEW w \in Workers, NEW o, Parked(w, o) PROVE UsedQuiet
  BY <1>4, <1>12, <1>idle DEF Parked, Listed, Goneon, SameBooks
<1>13. ASSUME NEW w \in Workers, NEW n, NEW t, LaidBy(w, n, t) PROVE UsedQuiet
  BY <1>4, <1>13, <1>idle DEF LaidBy, Listed, Goneon, SameBooks
<1> QED BY <1>1, <1>2, <1>3, <1>5, <1>6, <1>7, <1>8, <1>9, <1>10, <1>11, <1>12, <1>13 DEF DeskStep

LEMMA UsedKept == ASSUME DeskType, DeskStep, NEW i \in Everyone, UsedOk(i) PROVE UsedOk(i)'
<1>0. PICK u, r, c \in Int : u = Used(i) /\ r = InRows(i) /\ c = StillToCome(i)
  BY BooksType, RowsType DEF DeskType
<1>1. CASE UsedQuiet
  <2>1. StillToCome(i)' = StillToCome(i) /\ InRows(i)' = InRows(i)
    BY <1>1, UseSteady DEF UsedQuiet, InRows, RowUse
  <2> QED BY <1>1, <2>1 DEF UsedQuiet, UsedOk
<1>2. ASSUME NEW w \in Workers, NEW k, NEW use, Redeemed(w, k, use) PROVE UsedOk(i)'
  <2>1. PICK j : j = [op |-> "row", who |-> k, use |-> use]
    OBVIOUS
  <2>2. /\ v7[w].op = "redeem" /\ use \in Nat /\ Becomes(w, j) /\ v5' = v5 /\ v12 \subseteq v12'
        /\ Used(k)' = Used(k) + use /\ \A m : m # k => Used(m)' = Used(m)
    BY <1>2, <2>1 DEF Redeemed, Goneon
  <2>3. InRows(i)' = r
    BY <1>0, <2>2 DEF InRows, RowUse
  <2>4. PICK b \in Int : b = (IF j.op = "row" /\ j.who = i THEN j.use ELSE 0)
    BY <2>1, <2>2
  <2>5. StillToCome(i)' = c - 0 + b
    BY <1>0, <2>2, <2>4, UseTurns
  <2>6. Used(i)' = u + b
    BY <1>0, <2>1, <2>2, <2>4
  <2>7. u = r + c => u + b = r + (c - 0 + b)
    BY <1>0, <2>4
  <2> QED BY <1>0, <2>2, <2>3, <2>5, <2>6, <2>7 DEF UsedOk
<1>3. ASSUME NEW w \in Workers, NEW k, NEW use, RowWritten(w, k, use) PROVE UsedOk(i)'
  <2>1. /\ v7[w].op = "row" /\ k = v7[w].who /\ use = v7[w].use /\ use \in Nat
        /\ \E x \in Redemption : x.who = k /\ x.use = use /\ v5' = Append(v5, x)
        /\ Becomes(w, Desk!idle) /\ v12' = v12 /\ Used(i)' = Used(i)
    BY <1>3 DEF RowWritten, Listed, Goneon, SameBooks
  <2>2. InRows(k)' = InRows(k) + use /\ \A m : m # k => InRows(m)' = InRows(m)
    BY <2>1, RowComes
  <2>3. PICK a \in Int : a = (IF v7[w].op = "row" /\ v7[w].who = i THEN v7[w].use ELSE 0)
    BY <2>1
  <2>8. PICK j : j = Desk!idle
    OBVIOUS
  <2>9. j.op = "none" /\ Becomes(w, j)
    BY <2>1, <2>8, IdleOk
  <2>10. PICK b : b = (IF j.op = "row" /\ j.who = i THEN j.use ELSE 0)
    OBVIOUS
  <2>11. b = 0
    BY <2>9, <2>10
  <2>4. StillToCome(i)' = c - a + 0
    <3>1. StillToCome(i)' = StillToCome(i) - a + b
      BY <2>3, <2>9, <2>10, <2>11, UseTurns
    <3> QED BY <1>0, <2>11, <3>1
  <2>5. InRows(i)' = r + a
    BY <1>0, <2>1, <2>2, <2>3
  <2>6. u = r + c => u = (r + a) + (c - a + 0)
    BY <1>0, <2>3
  <2> QED BY <1>0, <2>1, <2>4, <2>5, <2>6 DEF UsedOk
<1>4. ASSUME NEW w \in Workers, Died(w) PROVE UsedOk(i)'
  <2>1. /\ Becomes(w, Desk!idle) /\ v12 \subseteq v12' /\ Used(i)' = Used(i) /\ v5' = v5
        /\ v7[w].op = "row" => <<"cut", v7[w].who>> \in v12'
    BY <1>4 DEF Died, Listed, Goneon, SameBooks
  <2>2. InRows(i)' = InRows(i)
    BY <2>1 DEF InRows, RowUse
  <2>3. CASE v7[w].op = "row" /\ v7[w].who = i
    BY <2>1, <2>3 DEF UsedOk
  <2>4. CASE ~(v7[w].op = "row" /\ v7[w].who = i)
    <3>1. StillToCome(i)' = c - 0 + 0
      BY <1>0, <2>1, <2>4, IdleOk, UseTurns
    <3> QED BY <1>0, <2>1, <2>2, <3>1 DEF UsedOk
  <2> QED BY <2>3, <2>4
<1> QED BY <1>1, <1>2, <1>3, <1>4, UsedSteps

(***************************************************************************)
(* A removed customer, or one about to be, owes nothing.                   *)
(***************************************************************************)
Leaving(w, i) == v7[w] = [op |-> "delete", who |-> i]

RemovedOk(i) ==
    <<"sold to removed", i>> \notin v12 =>
       ((Gone(i) \/ \E w \in Workers : Leaving(w, i)) => Balance(i) = 0)

\* what is owed and who is leaving
RemovedQuiet ==
    /\ \A j : Balance(j) = 0 => Balance(j)' = 0
    /\ v12 \subseteq v12'
    /\ \A j : Gone(j)' => Gone(j) \/ \E w \in Workers : Leaving(w, j)
    /\ \A w \in Workers : \A j : Leaving(w, j)' => Leaving(w, j)

LEMMA NoneLeaves ==
    ASSUME NEW w \in Workers, NEW j, Becomes(w, j), j.op # "delete"
    PROVE  \A o \in Workers : \A i : Leaving(o, i)' => Leaving(o, i)
<1>1. ASSUME NEW o \in Workers, NEW i, Leaving(o, i)' PROVE Leaving(o, i)
  <2>1. v7'[o].op = "delete"
    BY <1>1 DEF Leaving
  <2>2. v7'[o] = v7[o]
    BY <2>1 DEF Becomes
  <2> QED BY <1>1, <2>2 DEF Leaving
<1> QED BY <1>1

LEMMA RemovedSteps ==
    ASSUME DeskType, DeskStep
    PROVE  \/ RemovedQuiet
           \/ \E i, d, t : Sold(i, d, t)
           \/ \E w \in Workers : \E j : Begun(w, j)
<1>idle. Desk!idle.op # "delete"
  BY IdleOk
<1>0. ASSUME v7' = v7 PROVE \A o \in Workers : \A i : Leaving(o, i)' => Leaving(o, i)
  BY <1>0 DEF Leaving
<1>1. CASE Aside
  BY <1>0, <1>1 DEF RemovedQuiet, Aside, SameBooks
<1>2. ASSUME NEW n, NEW t, Edited(n, t) PROVE RemovedQuiet
  BY <1>0, <1>2 DEF RemovedQuiet, Edited, Balance, Gone
<1>3. ASSUME NEW w \in Workers, NEW j, Becomes(w, j), j.op # "delete",
             v12 \subseteq v12', \A k : Balance(k) = 0 => Balance(k)' = 0, \A k : Gone(k)' = Gone(k)
      PROVE  RemovedQuiet
  BY <1>3, NoneLeaves DEF RemovedQuiet
<1>4. ASSUME NEW w \in Workers, Created(w) \/ Received(w) \/ Died(w) PROVE RemovedQuiet
  BY <1>3, <1>4, <1>idle DEF Created, Received, Died, Listed, Goneon, SameBooks
<1>5. ASSUME NEW w \in Workers, NEW i, Removed(w, i) PROVE RemovedQuiet
  <2>1. /\ Becomes(w, Desk!idle) /\ v12 \subseteq v12' /\ Leaving(w, i)
        /\ \A k : Balance(k)' = Balance(k)
        /\ \A k : k # i => Gone(k)' = Gone(k)
    BY <1>5 DEF Removed, Goneon, Leaving
  <2>2. \A o \in Workers : \A k : Leaving(o, k)' => Leaving(o, k)
    BY <1>idle, <2>1, NoneLeaves
  <2> QED BY <2>1, <2>2 DEF RemovedQuiet
<1>6. ASSUME NEW w \in Workers, NEW i, NEW k, Inserted(w, i, k) PROVE RemovedQuiet
  <2>1. PICK j : j = [op |-> "credit", who |-> i]
    OBVIOUS
  <2>2. /\ j.op # "delete" /\ v12 \subseteq v12' /\ (\A m : Balance(m)' = Balance(m))
        /\ (\A m : Gone(m)' = Gone(m)) /\ (Becomes(w, Desk!idle) \/ Becomes(w, j))
    BY <1>6, <2>1 DEF Inserted, Listed, Goneon, SameBooks
  <2> QED BY <1>3, <1>idle, <2>2
<1>7. ASSUME NEW w \in Workers, NEW i, Relieved(w, i) PROVE RemovedQuiet
  <2>1. PICK j : j = [op |-> "drawer", who |-> i]
    OBVIOUS
  <2>2. /\ Becomes(w, j) /\ j.op # "delete" /\ v12 \subseteq v12'
        /\ (\A k : Balance(k) = 0 => Balance(k)' = 0) /\ (\A m : Gone(m)' = Gone(m))
    BY <1>7, <2>1 DEF Relieved, Goneon
  <2> QED BY <1>3, <2>2
<1>8. ASSUME NEW w \in Workers, NEW i, NEW use, Redeemed(w, i, use) PROVE RemovedQuiet
  <2>1. PICK j : j = [op |-> "row", who |-> i, use |-> use]
    OBVIOUS
  <2>2. /\ Becomes(w, j) /\ j.op # "delete" /\ v12 \subseteq v12'
        /\ (\A k : Balance(k) = 0 => Balance(k)' = 0) /\ (\A m : Gone(m)' = Gone(m))
    BY <1>8, <2>1 DEF Redeemed, Goneon
  <2> QED BY <1>3, <2>2
<1>9. ASSUME NEW w \in Workers, NEW i, NEW use, RowWritten(w, i, use) PROVE RemovedQuiet
  BY <1>3, <1>9, <1>idle DEF RowWritten, Listed, Goneon, SameBooks
<1>10. ASSUME NEW w \in Workers, NEW i, Vouched(w, i) PROVE RemovedQuiet
  BY <1>3, <1>10 DEF Vouched, Goneon
<1>11. ASSUME NEW w \in Workers, NEW i, NEW by, Awarded(w, i, by) PROVE RemovedQuiet
  BY <1>3, <1>11, <1>idle DEF Awarded, Goneon
<1>12. ASSUME NEW w \in Workers, NEW o, Parked(w, o) PROVE RemovedQuiet
  BY <1>3, <1>12, <1>idle DEF Parked, Listed, Goneon, SameBooks
<1>13. ASSUME NEW w \in Workers, NEW n, NEW t, LaidBy(w, n, t) PROVE RemovedQuiet
  BY <1>3, <1>13, <1>idle DEF LaidBy, Listed, Goneon, SameBooks
<1> QED BY <1>1, <1>2, <1>4, <1>5, <1>6, <1>7, <1>8, <1>9, <1>10, <1>11, <1>12, <1>13 DEF DeskStep

LEMMA RemovedKept == ASSUME DeskType, DeskStep, NEW i \in Everyone, RemovedOk(i) PROVE RemovedOk(i)'
<1>1. CASE RemovedQuiet
  BY <1>1 DEF RemovedQuiet, RemovedOk
<1>2. ASSUME NEW k, NEW d, NEW t, Sold(k, d, t) PROVE RemovedOk(i)'
  <2>1. /\ v7' = v7 /\ v12 \subseteq v12' /\ d \in {0, 1}
        /\ \A j : Gone(j)' = Gone(j)
        /\ Balance(k)' = Balance(k) + d /\ \A j : j # k => Balance(j)' = Balance(j)
        /\ d = 1 => \/ <<"sold to removed", k>> \in v12'
                    \/ ~Gone(k) /\ \A w \in Workers : ~Leaving(w, k)
    BY <1>2 DEF Sold, Leaving
  <2>2. \A w \in Workers : Leaving(w, i)' = Leaving(w, i)
    BY <2>1 DEF Leaving
  <2>3. CASE k # i
    BY <2>1, <2>2, <2>3 DEF RemovedOk
  <2>4. CASE k = i /\ d = 1
    BY <2>1, <2>2, <2>4 DEF RemovedOk
  <2>5. CASE k = i /\ d = 0
    <3>1. Balance(i) = 0 => Balance(i)' = 0
      BY <2>1, <2>5
    <3> QED BY <2>1, <2>2, <3>1 DEF RemovedOk
  <2> QED BY <2>1, <2>3, <2>4, <2>5
<1>3. ASSUME NEW w \in Workers, NEW j, Begun(w, j) PROVE RemovedOk(i)'
  <2>1. /\ Becomes(w, j) /\ (j.op = "delete" => Balance(j.who) = 0) /\ UNCHANGED <<v1, v12>>
    BY <1>3 DEF Begun
  <2>2. Balance(i)' = Balance(i) /\ Gone(i)' = Gone(i)
    BY <2>1 DEF Balance, Gone
  <2>3. ASSUME NEW o \in Workers, Leaving(o, i)' PROVE Leaving(o, i) \/ Balance(i) = 0
    <3>1. CASE o = w
      <4>1. j = [op |-> "delete", who |-> i]
        BY <2>1, <2>3, <3>1 DEF Becomes, Leaving
      <4> QED BY <2>1, <4>1
    <3>2. CASE o # w
      BY <2>1, <2>3, <3>2 DEF Becomes, Leaving
    <3> QED BY <3>1, <3>2
  <2> QED BY <2>1, <2>2, <2>3 DEF RemovedOk
<1> QED BY <1>1, <1>2, <1>3, RemovedSteps

(***************************************************************************)
(* No two live customers share a phone, but for a look-up overtaken by an  *)
(* insert and a phone edited by hand.                                      *)
(***************************************************************************)
TwinsOk ==
    \/ <<"twin", 0>> \in v12
    \/ \A i, j \in 1 .. Len(v1) :
          ~v1[i].deleted /\ ~v1[j].deleted /\ v1[i].phone = v1[j].phone => i = j

\* those who are there keep their phones, and do not come back once removed
PhonesStay ==
    \A j \in 1 .. Len(v1) :
       v1'[j].phone = v1[j].phone /\ (v1[j].deleted => v1'[j].deleted)

PhonesMove ==
    \/ <<"twin", 0>> \in v12'
    \/ Len(v1') = Len(v1) /\ PhonesStay
    \/ /\ Len(v1') = Len(v1) + 1 /\ PhonesStay
       /\ \A j \in 1 .. Len(v1) : ~v1[j].deleted => v1[j].phone # v1'[Len(v1) + 1].phone

LEMMA SellPhones ==
    ASSUME DeskType, NEW phone \in Callers, NEW status \in {"paid", "credit"},
           Desk!Sell(phone, status)
    PROVE  PhonesMove
<1>1. PICK found, i, them, d :
         /\ found = Desk!Known(phone)
         /\ i = (IF found # {} THEN Desk!Min(found) ELSE Len(v1) + 1)
         /\ them = (IF found # {} THEN v1 ELSE Append(v1, Desk!Newcomer(phone)))
         /\ d = (IF status = "credit" THEN 1 ELSE 0)
  OBVIOUS
<1>2. v1' = [them EXCEPT ![i].credit = @ + d, ![i].points = @ + 1]
  BY <1>1 DEF Desk!Sell
<1>3. v1 \in Seq(Customer) /\ Len(v1) \in Nat
  BY DEF DeskType, PeopleType
<1>4. \A j : j \in found <=> j \in 1 .. Len(v1) /\ v1[j].phone = phone
  BY <1>1, <1>3 DEF Desk!Known, Desk!Ids
<1>new. PICK n : n = Desk!Newcomer(phone)
  OBVIOUS
<1>5. n = Desk!Newcomer(phone) /\ n \in Customer /\ n.phone = phone
  BY <1>new DEF Desk!Newcomer, Customer
<1>6. them \in Seq(Customer)
  BY <1>1, <1>3, <1>5
<1>7. /\ Len(v1') = Len(them)
      /\ \A j \in 1 .. Len(them) : /\ v1'[j].phone = them[j].phone
                                   /\ v1'[j].deleted = them[j].deleted
  <2>1. \A j \in 1 .. Len(them) : them[j] \in Customer
    BY <1>6
  <2>2. ASSUME NEW j \in 1 .. Len(them)
        PROVE  v1'[j].phone = them[j].phone /\ v1'[j].deleted = them[j].deleted
    <3>1. CASE j # i
      <4>1. v1'[j] = them[j]
        BY <1>2, <1>6, <3>1
      <4> QED BY <4>1
    <3>2. CASE j = i
      <4>1. PICK b, c : /\ b = them[j]
                        /\ c = [b EXCEPT !.credit = b.credit + d, !.points = b.points + 1]
        OBVIOUS
      <4>2. v1' = [them EXCEPT ![j] = c]
        BY <1>2, <1>6, <3>2, <4>1
      <4>3. v1'[j] = c
        BY <1>6, <4>2
      <4>4. b \in Customer
        BY <2>1, <4>1
      <4>5. c.phone = b.phone /\ c.deleted = b.deleted
        BY <4>1, <4>4 DEF Customer
      <4> QED BY <4>1, <4>3, <4>5
    <3> QED BY <3>1, <3>2
  <2>3. Len(v1') = Len(them)
    BY <1>2, <1>6
  <2> QED BY <2>2, <2>3
<1>8. CASE found # {}
  <2>1. them = v1
    BY <1>1, <1>8
  <2> QED BY <1>7, <2>1 DEF PhonesMove, PhonesStay
<1>9. CASE found = {}
  <2>1. /\ Len(them) = Len(v1) + 1 /\ them[Len(v1) + 1] = n
        /\ \A j \in 1 .. Len(v1) : them[j] = v1[j]
    BY <1>1, <1>3, <1>5, <1>9
  <2>2. \A j \in 1 .. Len(v1) : j \in 1 .. Len(them) /\ v1[j].phone # phone
    BY <1>3, <1>4, <1>9, <2>1
  <2>3. Len(v1) + 1 \in 1 .. Len(them)
    BY <1>3, <2>1
  <2> QED BY <1>5, <1>7, <2>1, <2>2, <2>3 DEF PhonesMove, PhonesStay
<1> QED BY <1>8, <1>9

LEMMA OnePhone ==
    ASSUME DeskType, NEW i \in 1 .. Len(v1), NEW c, v1' = [v1 EXCEPT ![i] = c],
           c.phone = v1[i].phone, v1[i].deleted => c.deleted
    PROVE  PhonesMove
<1>1. v1 \in Seq(Customer)
  BY DEF DeskType, PeopleType
<1>2. Len(v1') = Len(v1) /\ \A j \in 1 .. Len(v1) : v1'[j] = IF j = i THEN c ELSE v1[j]
  BY <1>1
<1>3. PhonesStay
  BY <1>2 DEF PhonesStay
<1> QED BY <1>2, <1>3 DEF PhonesMove

LEMMA PhonesMoved == ASSUME DeskType, Desk!Next PROVE PhonesMove
<1>0. ASSUME UNCHANGED v1 PROVE PhonesMove
  BY <1>0 DEF PhonesMove, PhonesStay
<1>1. ASSUME NEW p \in Callers, NEW st \in {"paid", "credit"}, Desk!Sell(p, st) PROVE PhonesMove
  BY <1>1, SellPhones
<1>2. ASSUME NEW p, NEW i, Desk!EditPhone(i, p) PROVE PhonesMove
  BY <1>2 DEF Desk!EditPhone, PhonesMove
<1>who. ASSUME NEW w \in Workers, v7[w].op \in Wants
        PROVE  v7[w].who \in 1 .. Len(v1) /\ v1[v7[w].who] \in Customer
  <2>1. v7[w].who \in 1 .. Len(v1)
    BY <1>who DEF DeskType, JobsType, ErrandOk
  <2> QED BY <2>1, BooksAt DEF DeskType
<1>3. ASSUME NEW w \in Workers, Desk!CreateWrite(w) PROVE PhonesMove
  <2>1. Created(w)
    BY <1>3, CreateWriteIs
  <2>2. CASE v1' = v1
    BY <1>0, <2>2
  <2>3. CASE \E c \in Customer :
                /\ v1' = Append(v1, c)
                /\ \/ <<"twin", 0>> \in v12'
                   \/ \A j \in 1 .. Len(v1) : ~v1[j].deleted => v1[j].phone # c.phone
    <3>1. PICK c \in Customer :
                /\ v1' = Append(v1, c)
                /\ \/ <<"twin", 0>> \in v12'
                   \/ \A j \in 1 .. Len(v1) : ~v1[j].deleted => v1[j].phone # c.phone
      BY <2>3
    <3>2. v1 \in Seq(Customer)
      BY DEF DeskType, PeopleType
    <3>3. /\ Len(v1') = Len(v1) + 1 /\ v1'[Len(v1) + 1] = c
          /\ \A j \in 1 .. Len(v1) : v1'[j] = v1[j]
      BY <3>1, <3>2
    <3> QED BY <3>1, <3>3 DEF PhonesMove, PhonesStay
  <2> QED BY <2>1, <2>2, <2>3 DEF Created
<1>4. ASSUME NEW w \in Workers, Desk!DeleteWrite(w) PROVE PhonesMove
  <2>1. PICK i, c : i = v7[w].who /\ c = [v1[i] EXCEPT !.deleted = TRUE]
    OBVIOUS
  <2>2. i \in 1 .. Len(v1) /\ v1[i] \in Customer
    BY <1>4, <1>who, <2>1 DEF Desk!DeleteWrite, Desk!At, Wants
  <2>3. v1' = [v1 EXCEPT ![i] = c]
    BY <1>4, <2>1 DEF Desk!DeleteWrite
  <2>4. c.phone = v1[i].phone /\ c.deleted
    BY <2>1, <2>2 DEF Customer
  <2> QED BY <2>2, <2>3, <2>4, OnePhone
<1>5. ASSUME NEW w \in Workers, Desk!PayCredit(w) PROVE PhonesMove
  <2>1. PICK i, c : i = v7[w].who /\ c = [v1[i] EXCEPT !.credit = Desk!NotBelow(@ - 1, 0)]
    OBVIOUS
  <2>2. i \in 1 .. Len(v1) /\ v1[i] \in Customer
    BY <1>5, <1>who, <2>1 DEF Desk!PayCredit, Desk!At, Wants
  <2>3. v1' = [v1 EXCEPT ![i] = c]
    BY <1>5, <2>1 DEF Desk!PayCredit
  <2>4. c.phone = v1[i].phone /\ c.deleted = v1[i].deleted
    BY <2>1, <2>2 DEF Customer
  <2> QED BY <2>2, <2>3, <2>4, OnePhone
<1>6. ASSUME NEW w \in Workers, Desk!RedeemWrite(w) PROVE PhonesMove
  <2>1. PICK i, u, b, c : /\ i = v7[w].who /\ u = v7[w].use /\ b = v1[i]
                          /\ c = [b EXCEPT !.points = @ - u, !.used = @ + u]
    OBVIOUS
  <2>2. i \in 1 .. Len(v1) /\ b \in Customer
    BY <1>6, <1>who, <2>1 DEF Desk!RedeemWrite, Desk!At, Wants
  <2>3. v1' = [v1 EXCEPT ![i] = c]
    <3>1. v1' = [v1 EXCEPT ![i].points = @ - u, ![i].used = @ + u]
      BY <1>6, <2>1 DEF Desk!RedeemWrite
    <3>2. v1 \in Seq(Customer)
      BY DEF DeskType, PeopleType
    <3> QED BY <2>1, <2>2, <3>1, <3>2
  <2>4. c.phone = b.phone /\ c.deleted = b.deleted
    BY <2>1, <2>2 DEF Customer
  <2> QED BY <2>1, <2>2, <2>3, <2>4, OnePhone
<1>7. ASSUME NEW w \in Workers, Desk!ReferMark(w) PROVE PhonesMove
  <2>1. PICK i, c : i = v7[w].who /\ c = [v1[i] EXCEPT !.referred = TRUE]
    OBVIOUS
  <2>2. i \in 1 .. Len(v1) /\ v1[i] \in Customer
    BY <1>7, <1>who, <2>1 DEF Desk!ReferMark, Desk!At, Wants
  <2>3. v1' = [v1 EXCEPT ![i] = c]
    BY <1>7, <2>1 DEF Desk!ReferMark
  <2>4. c.phone = v1[i].phone /\ c.deleted = v1[i].deleted
    BY <2>1, <2>2 DEF Customer
  <2> QED BY <2>2, <2>3, <2>4, OnePhone
<1>8. ASSUME NEW w \in Workers, Desk!ReferAward(w) PROVE PhonesMove
  <2>1. PICK both : both = {v7[w].who, v7[w].by}
    OBVIOUS
  <2>2. v1 \in Seq(Customer) /\ DOMAIN v1 = 1 .. Len(v1) /\ Len(v1) \in Nat
    BY DEF DeskType, PeopleType
  <2>3. v1' = [j \in 1 .. Len(v1) |-> IF j \in both THEN [v1[j] EXCEPT !.points = @ + 1] ELSE v1[j]]
    BY <1>8, <2>1, <2>2 DEF Desk!ReferAward, Desk!Ids
  <2>4. Len(v1') = Len(v1)
    <3>1. PICK i, by : Awarded(w, i, by)
      BY <1>8, ReferAwardIs
    <3> QED BY <3>1 DEF Awarded
  <2>5. ASSUME NEW j \in 1 .. Len(v1)
        PROVE  v1'[j].phone = v1[j].phone /\ v1'[j].deleted = v1[j].deleted
    <3>1. v1[j] \in Customer
      BY <2>2
    <3>2. v1'[j] = v1[j] \/ v1'[j] = [v1[j] EXCEPT !.points = @ + 1]
      BY <2>3
    <3> QED BY <3>1, <3>2 DEF Customer
  <2> QED BY <2>4, <2>5 DEF PhonesMove, PhonesStay
<1>9. ASSUME NEW w \in Workers,
             \/ \E p \in Callers : Desk!CreateRead(w, p)
             \/ \E i \in Desk!Ids : \/ Desk!DeleteRead(w, i) \/ Desk!RedeemRead(w, i)
                                    \/ \E k \in PaymentKeys : Desk!PayCheck(w, i, k)
                                    \/ \E j \in Desk!Ids : Desk!ReferRead(w, i, j)
             \/ \E n \in DOMAIN v2 : Desk!LayawayRead(w, n)
             \/ \E kind \in {"hold", "quote"} : Desk!HoldRead(w, kind)
      PROVE  PhonesMove
  <2>1. UNCHANGED v1
    BY <1>9 DEF Desk!CreateRead, Desk!DeleteRead, Desk!RedeemRead, Desk!PayCheck, Desk!ReferRead,
                Desk!LayawayRead, Desk!HoldRead, Desk!rows
  <2> QED BY <1>0, <2>1
<1>10. ASSUME NEW w \in Workers,
             \/ Desk!PayInsert(w) \/ Desk!PayDrawer(w) \/ Desk!RedeemRow(w)
             \/ Desk!HoldWrite(w) \/ Desk!LayawayWrite(w) \/ Desk!Die(w)
      PROVE  PhonesMove
  <2>1. UNCHANGED v1
    BY <1>10 DEF Desk!PayInsert, Desk!PayDrawer, Desk!RedeemRow, Desk!HoldWrite, Desk!LayawayWrite,
                 Desk!Die, Desk!rows
  <2> QED BY <1>0, <2>1
<1>11. ASSUME \/ \E n \in DOMAIN v2, st \in {"paid", "credit"} : Desk!EditSale(n, st)
              \/ (\E o \in v6 : Desk!Unpark(o)) \/ Desk!NextDay
       PROVE  PhonesMove
  BY <1>0, <1>11 DEF Desk!EditSale, Desk!Unpark, Desk!NextDay, Desk!rows
<1>12. ASSUME NEW w \in Workers,
             \/ Desk!CreateWrite(w) \/ Desk!DeleteWrite(w)
             \/ Desk!PayInsert(w) \/ Desk!PayCredit(w) \/ Desk!PayDrawer(w)
             \/ Desk!RedeemWrite(w) \/ Desk!RedeemRow(w) \/ Desk!ReferMark(w) \/ Desk!ReferAward(w)
             \/ Desk!HoldWrite(w) \/ Desk!LayawayWrite(w) \/ Desk!Die(w)
      PROVE  PhonesMove
  BY <1>3, <1>4, <1>5, <1>6, <1>7, <1>8, <1>10, <1>12
<1> QED BY <1>1, <1>2, <1>9, <1>11, <1>12 DEF Desk!Next

LEMMA TwinsKept ==
    ASSUME DeskType, PhonesMove, v12 \subseteq v12', TwinsOk
    PROVE  TwinsOk'
<1>1. v1 \in Seq(Customer) /\ Len(v1) \in Nat
  BY DEF DeskType, PeopleType
<1>2. SUFFICES ASSUME <<"twin", 0>> \notin v12',
                      NEW i \in 1 .. Len(v1'), NEW j \in 1 .. Len(v1'),
                      ~v1'[i].deleted, ~v1'[j].deleted, v1'[i].phone = v1'[j].phone
               PROVE  i = j
  BY DEF TwinsOk
<1>3. PhonesStay /\ <<"twin", 0>> \notin v12
  BY <1>2 DEF PhonesMove
<1>4. CASE i \in 1 .. Len(v1) /\ j \in 1 .. Len(v1)
  BY <1>2, <1>3, <1>4 DEF PhonesStay, TwinsOk
<1>5. CASE ~(i \in 1 .. Len(v1) /\ j \in 1 .. Len(v1))
  <2>1. /\ Len(v1') = Len(v1) + 1
        /\ \A k \in 1 .. Len(v1) : ~v1[k].deleted => v1[k].phone # v1'[Len(v1) + 1].phone
    BY <1>2, <1>5 DEF PhonesMove
  <2>2. /\ i = Len(v1) + 1 \/ i \in 1 .. Len(v1)
        /\ j = Len(v1) + 1 \/ j \in 1 .. Len(v1)
        /\ i = Len(v1) + 1 \/ j = Len(v1) + 1
    BY <1>1, <1>5, <2>1
  <2> QED BY <1>2, <1>3, <2>1, <2>2 DEF PhonesStay
<1> QED BY <1>4, <1>5

LEMMA MarksStay == ASSUME DeskStep PROVE v12 \subseteq v12' /\ (Len(v1) <= Len(v1') \/ v1' = v1)
<1>1. CASE Aside
  <2>1. PeopleType' /\ Len(v1') = Len(v1) /\ v12 \subseteq v12'
    BY <1>1 DEF Aside
  <2> QED BY <2>1 DEF PeopleType
<1>2. CASE \E i, d, t : Sold(i, d, t)
  BY <1>2 DEF Sold
<1>3. CASE \E n, t : Edited(n, t)
  BY <1>3 DEF Edited
<1>4. ASSUME NEW w \in Workers, \E j : Begun(w, j)
      PROVE  v12 \subseteq v12' /\ (Len(v1) <= Len(v1') \/ v1' = v1)
  BY <1>4 DEF Begun
<1>5. ASSUME NEW w \in Workers, \E j : Goneon(w, j)
      PROVE  v12 \subseteq v12' /\ (Len(v1) <= Len(v1') \/ v1' = v1)
  BY <1>5 DEF Goneon
<1>6. ASSUME NEW w \in Workers,
             \/ Created(w) \/ (\E i : Removed(w, i)) \/ (\E i, k : Inserted(w, i, k))
             \/ (\E i : Relieved(w, i)) \/ Received(w) \/ (\E i, use : Redeemed(w, i, use))
             \/ (\E i, use : RowWritten(w, i, use)) \/ (\E i : Vouched(w, i))
             \/ (\E i, by : Awarded(w, i, by)) \/ (\E o : Parked(w, o))
             \/ (\E n, t : LaidBy(w, n, t)) \/ Died(w)
      PROVE  \E j : Goneon(w, j)
  BY <1>6 DEF Created, Removed, Inserted, Relieved, Received, Redeemed, RowWritten, Vouched, Awarded,
              Parked, LaidBy, Died, Listed
<1> QED BY <1>1, <1>2, <1>3, <1>4, <1>5, <1>6 DEF DeskStep

(***************************************************************************)
(* Parked orders and quotations are numbered by how many there are: no two *)
(* have one number unless two were parked at once, or one was taken back.  *)
(***************************************************************************)
OrdersOk ==
    <<"held at once", 0>> \notin v12 =>
       /\ \A o, q \in v6 : o.kind = q.kind /\ o.ref = q.ref => o = q
       /\ \A o \in v6 : o.ref < Desk!NextRef(o.kind)
       /\ \A w \in Workers : v7[w].op = "hold" => v7[w].ref = Desk!NextRef(v7[w].kind)

OrdersQuiet ==
    /\ v12 \subseteq v12'
    /\ <<"held at once", 0>> \notin v12' => v6' = v6
    /\ \A w \in Workers : v7'[w].op = "hold" => v7'[w] = v7[w]

LEMMA OrdersSteps ==
    ASSUME DeskStep
    PROVE  \/ OrdersQuiet
           \/ \E w \in Workers : (\E j : Begun(w, j)) \/ (\E o : Parked(w, o))
<1>idle. Desk!idle.op # "hold"
  BY IdleOk
<1>1. CASE Aside
  BY <1>1 DEF OrdersQuiet, Aside
<1>2. CASE \E i, d, t : Sold(i, d, t)
  BY <1>2 DEF OrdersQuiet, Sold
<1>3. CASE \E n, t : Edited(n, t)
  BY <1>3 DEF OrdersQuiet, Edited
<1>4. ASSUME NEW w \in Workers, NEW j, Becomes(w, j), j.op # "hold", v12 \subseteq v12', v6' = v6
      PROVE  OrdersQuiet
  BY <1>4, NoneTaken DEF OrdersQuiet
<1>5. ASSUME NEW w \in Workers, Created(w) \/ Received(w) \/ Died(w) PROVE OrdersQuiet
  BY <1>4, <1>5, <1>idle DEF Created, Received, Died, Listed, Goneon
<1>6. ASSUME NEW w \in Workers, NEW i, Removed(w, i) PROVE OrdersQuiet
  BY <1>4, <1>6, <1>idle DEF Removed, Goneon
<1>7. ASSUME NEW w \in Workers, NEW i, NEW k, Inserted(w, i, k) PROVE OrdersQuiet
  <2>1. PICK j : j = [op |-> "credit", who |-> i]
    OBVIOUS
  <2>2. /\ j.op # "hold" /\ v12 \subseteq v12' /\ v6' = v6 /\ (Becomes(w, Desk!idle) \/ Becomes(w, j))
    BY <1>7, <2>1 DEF Inserted, Listed, Goneon
  <2> QED BY <1>4, <1>idle, <2>2
<1>8. ASSUME NEW w \in Workers, NEW i, Relieved(w, i) PROVE OrdersQuiet
  <2>1. PICK j : j = [op |-> "drawer", who |-> i]
    OBVIOUS
  <2>2. Becomes(w, j) /\ j.op # "hold" /\ v12 \subseteq v12' /\ v6' = v6
    BY <1>8, <2>1 DEF Relieved, Goneon
  <2> QED BY <1>4, <2>2
<1>9. ASSUME NEW w \in Workers, NEW i, NEW use, Redeemed(w, i, use) PROVE OrdersQuiet
  <2>1. PICK j : j = [op |-> "row", who |-> i, use |-> use]
    OBVIOUS
  <2>2. Becomes(w, j) /\ j.op # "hold" /\ v12 \subseteq v12' /\ v6' = v6
    BY <1>9, <2>1 DEF Redeemed, Goneon
  <2> QED BY <1>4, <2>2
<1>10. ASSUME NEW w \in Workers, NEW i, NEW use, RowWritten(w, i, use) PROVE OrdersQuiet
  BY <1>4, <1>10, <1>idle DEF RowWritten, Listed, Goneon
<1>11. ASSUME NEW w \in Workers, NEW i, Vouched(w, i) PROVE OrdersQuiet
  BY <1>4, <1>11 DEF Vouched, Goneon
<1>12. ASSUME NEW w \in Workers, NEW i, NEW by, Awarded(w, i, by) PROVE OrdersQuiet
  BY <1>4, <1>12, <1>idle DEF Awarded, Goneon
<1>13. ASSUME NEW w \in Workers, NEW n, NEW t, LaidBy(w, n, t) PROVE OrdersQuiet
  BY <1>4, <1>13, <1>idle DEF LaidBy, Listed, Goneon
<1> QED BY <1>1, <1>2, <1>3, <1>5, <1>6, <1>7, <1>8, <1>9, <1>10, <1>11, <1>12, <1>13 DEF DeskStep

LEMMA RefSame == ASSUME v6' = v6 PROVE \A kind : Desk!NextRef(kind)' = Desk!NextRef(kind)
BY DEF Desk!NextRef

LEMMA OrdersKept == ASSUME DeskType, DeskStep, OrdersOk PROVE OrdersOk'
<1>1. CASE OrdersQuiet
  BY <1>1, RefSame DEF OrdersQuiet, OrdersOk
<1>2. ASSUME NEW w \in Workers, NEW j, Begun(w, j) PROVE OrdersOk'
  <2>1. Becomes(w, j) /\ v6' = v6 /\ v12' = v12 /\ (j.op = "hold" => j.ref = Desk!NextRef(j.kind))
    BY <1>2 DEF Begun
  <2>2. ASSUME <<"held at once", 0>> \notin v12, NEW o \in Workers, v7'[o].op = "hold"
        PROVE  v7'[o].ref = Desk!NextRef(v7'[o].kind)
    <3>1. CASE o = w
      BY <2>1, <2>2, <3>1 DEF Becomes
    <3>2. CASE o # w
      BY <2>1, <2>2, <3>2 DEF Becomes, OrdersOk
    <3> QED BY <3>1, <3>2
  <2>3. \A kind : Desk!NextRef(kind)' = Desk!NextRef(kind)
    BY <2>1, RefSame
  <2>4. ASSUME <<"held at once", 0>> \notin v12
        PROVE  /\ \A o, q \in v6' : o.kind = q.kind /\ o.ref = q.ref => o = q
               /\ \A o \in v6' : o.ref < Desk!NextRef(o.kind)'
               /\ (\A o \in Workers : v7[o].op = "hold" => v7[o].ref = Desk!NextRef(v7[o].kind))'
    <3>1. /\ \A o, q \in v6' : o.kind = q.kind /\ o.ref = q.ref => o = q
          /\ \A o \in v6' : o.ref < Desk!NextRef(o.kind)
      BY <2>1, <2>4 DEF OrdersOk
    <3>2. \A o \in v6' : o.ref < Desk!NextRef(o.kind)'
      BY <2>3, <3>1
    <3>3. ASSUME NEW o \in Workers, v7'[o].op = "hold"
          PROVE  (v7[o].ref = Desk!NextRef(v7[o].kind))'
      BY <2>2, <2>3, <2>4, <3>3
    <3> QED BY <3>1, <3>2, <3>3
  <2> QED BY <2>1, <2>4 DEF OrdersOk
<1>3. ASSUME NEW w \in Workers, NEW o, Parked(w, o) PROVE OrdersOk'
  <2>1. SUFFICES ASSUME <<"held at once", 0>> \notin v12' PROVE OrdersOk'
    BY DEF OrdersOk
  <2>2. /\ v7[w].op = "hold" /\ o.kind = v7[w].kind /\ o.ref = v7[w].ref /\ o \in Order
        /\ v6' = v6 \cup {o} /\ Becomes(w, Desk!idle) /\ v12 \subseteq v12'
        /\ \A u \in Workers : u # w => v7[u].op # "hold"
    BY <1>3, <2>1 DEF Parked, Listed, Goneon
  <2>3. \A u \in Workers : v7'[u].op # "hold"
    BY <2>2, IdleOk DEF Becomes
  <2>4. /\ \A p, q \in v6 : p.kind = q.kind /\ p.ref = q.ref => p = q
        /\ \A p \in v6 : p.ref < Desk!NextRef(p.kind)
        /\ o.ref = Desk!NextRef(o.kind)
    BY <2>1, <2>2 DEF OrdersOk
  <2>5. PICK k : k = o.kind
    OBVIOUS
  <2>6. PICK n \in Nat : /\ n = Cardinality({p \in v6 : p.kind = k}) /\ Desk!NextRef(k) = n + 1
    BY RefType DEF DeskType
  <2>7. \A p \in v6 : p.ref \in Nat
    BY DEF DeskType, ListsType, Order
  <2>8. o \notin v6 /\ \A p \in v6 : p.kind = k => p.ref # o.ref
    BY <2>4, <2>5, <2>6, <2>7
  <2>9. Desk!NextRef(k)' = n + 2
    <3>1. PICK S, T : S = {p \in v6 : p.kind = k} /\ T = {p \in v6' : p.kind = k}
      OBVIOUS
    <3>2. T = S \cup {o} /\ o \notin S
      BY <2>2, <2>5, <2>8, <3>1
    <3>3. IsFiniteSet(S)
      BY <3>1, RefType DEF DeskType
    <3>4. Cardinality(T) = n + 1
      BY <2>6, <3>1, <3>2, <3>3, OneMore
    <3>5. Desk!NextRef(k)' = Cardinality(T) + 1
      BY <3>1, DeskCounts DEF Desk!NextRef
    <3> QED BY <2>6, <3>4, <3>5
  <2>10. \A kind : kind # k => Desk!NextRef(kind)' = Desk!NextRef(kind)
    <3>1. ASSUME NEW kind, kind # k PROVE Desk!NextRef(kind)' = Desk!NextRef(kind)
      <4>1. {p \in v6' : p.kind = kind} = {p \in v6 : p.kind = kind}
        BY <2>2, <2>5, <3>1
      <4> QED BY <4>1 DEF Desk!NextRef
    <3> QED BY <3>1
  <2>11. ASSUME NEW p \in v6' PROVE p.ref < Desk!NextRef(p.kind)'
    <3>1. CASE p.kind # k
      BY <2>2, <2>4, <2>5, <2>10, <2>11, <3>1
    <3>2. CASE p.kind = k /\ p \in v6
      <4>1. p.ref < n + 1 /\ p.ref \in Nat
        BY <2>4, <2>6, <2>7, <3>2
      <4> QED BY <2>6, <2>9, <3>2, <4>1
    <3>3. CASE p = o
      <4>1. p.ref = n + 1
        BY <2>4, <2>5, <2>6, <3>3
      <4> QED BY <2>5, <2>6, <2>9, <3>3, <4>1
    <3> QED BY <2>2, <2>11, <3>1, <3>2, <3>3
  <2>12. \A p, q \in v6' : p.kind = q.kind /\ p.ref = q.ref => p = q
    BY <2>2, <2>4, <2>5, <2>8
  <2> QED BY <2>3, <2>11, <2>12 DEF OrdersOk
<1> QED BY <1>1, <1>2, <1>3, OrdersSteps

(***************************************************************************)
(* Layaway: what is left is what was not given, unless two gave at once.   *)
(***************************************************************************)
LayawayOk(n) ==
    n \in 1 .. Len(v2) =>
       /\ v2[n].given = 0 => v2[n].left = 0
       /\ v2[n].given # 0 /\ <<"edited by hand", n>> \notin v12 =>
             (v2[n].status = "paid" <=> v2[n].left = 0)
       /\ <<"layaway at once", n>> \notin v12 =>
             /\ v2[n].given \in 1 .. LayawayDue => v2[n].left = LayawayDue - v2[n].given
             /\ \A w \in Workers : v7[w].op = "layaway" /\ v7[w].sale = n =>
                   v7[w].left = (IF v2[n].left > 0 THEN v2[n].left ELSE LayawayDue) - 1

LayawayQuiet ==
    /\ v12 \subseteq v12' /\ v2' = v2
    /\ \A w \in Workers : v7'[w].op = "layaway" => v7'[w] = v7[w]

LEMMA LayawaySteps ==
    ASSUME DeskStep
    PROVE  \/ LayawayQuiet
           \/ \E i, d, t : Sold(i, d, t)
           \/ \E n, t : Edited(n, t)
           \/ \E w \in Workers : (\E j : Begun(w, j)) \/ (\E n, t : LaidBy(w, n, t))
<1>idle. Desk!idle.op # "layaway"
  BY IdleOk
<1>1. CASE Aside
  BY <1>1 DEF LayawayQuiet, Aside
<1>4. ASSUME NEW w \in Workers, NEW j, Becomes(w, j), j.op # "layaway", v12 \subseteq v12', v2' = v2
      PROVE  LayawayQuiet
  BY <1>4, NoneTaken DEF LayawayQuiet
<1>5. ASSUME NEW w \in Workers, Created(w) \/ Received(w) \/ Died(w) PROVE LayawayQuiet
  BY <1>4, <1>5, <1>idle DEF Created, Received, Died, Listed, Goneon
<1>6. ASSUME NEW w \in Workers, NEW i, Removed(w, i) PROVE LayawayQuiet
  BY <1>4, <1>6, <1>idle DEF Removed, Goneon
<1>7. ASSUME NEW w \in Workers, NEW i, NEW k, Inserted(w, i, k) PROVE LayawayQuiet
  <2>1. PICK j : j = [op |-> "credit", who |-> i]
    OBVIOUS
  <2>2. j.op # "layaway" /\ v12 \subseteq v12' /\ v2' = v2 /\ (Becomes(w, Desk!idle) \/ Becomes(w, j))
    BY <1>7, <2>1 DEF Inserted, Listed, Goneon
  <2> QED BY <1>4, <1>idle, <2>2
<1>8. ASSUME NEW w \in Workers, NEW i, Relieved(w, i) PROVE LayawayQuiet
  <2>1. PICK j : j = [op |-> "drawer", who |-> i]
    OBVIOUS
  <2>2. Becomes(w, j) /\ j.op # "layaway" /\ v12 \subseteq v12' /\ v2' = v2
    BY <1>8, <2>1 DEF Relieved, Goneon
  <2> QED BY <1>4, <2>2
<1>9. ASSUME NEW w \in Workers, NEW i, NEW use, Redeemed(w, i, use) PROVE LayawayQuiet
  <2>1. PICK j : j = [op |-> "row", who |-> i, use |-> use]
    OBVIOUS
  <2>2. Becomes(w, j) /\ j.op # "layaway" /\ v12 \subseteq v12' /\ v2' = v2
    BY <1>9, <2>1 DEF Redeemed, Goneon
  <2> QED BY <1>4, <2>2
<1>10. ASSUME NEW w \in Workers, NEW i, NEW use, RowWritten(w, i, use) PROVE LayawayQuiet
  BY <1>4, <1>10, <1>idle DEF RowWritten, Listed, Goneon
<1>11. ASSUME NEW w \in Workers, NEW i, Vouched(w, i) PROVE LayawayQuiet
  BY <1>4, <1>11 DEF Vouched, Goneon
<1>12. ASSUME NEW w \in Workers, NEW i, NEW by, Awarded(w, i, by) PROVE LayawayQuiet
  BY <1>4, <1>12, <1>idle DEF Awarded, Goneon
<1>13. ASSUME NEW w \in Workers, NEW o, Parked(w, o) PROVE LayawayQuiet
  BY <1>4, <1>13, <1>idle DEF Parked, Listed, Goneon
<1> QED BY <1>1, <1>5, <1>6, <1>7, <1>8, <1>9, <1>10, <1>11, <1>12, <1>13 DEF DeskStep

LEMMA LayawayKept == ASSUME DeskType, DeskStep, NEW n, LayawayOk(n) PROVE LayawayOk(n)'
<1>0. v2 \in Seq(Ticket) /\ Len(v2) \in Nat /\ LayawayDue \in Nat
  BY DeskAssumption, Lengths DEF DeskType, TicketsType
<1>1. CASE LayawayQuiet
  BY <1>1 DEF LayawayQuiet, LayawayOk
<1>2. ASSUME NEW i, NEW d, NEW t, Sold(i, d, t) PROVE LayawayOk(n)'
  <2>1. /\ v2' = Append(v2, t) /\ t.left = 0 /\ t.given = 0 /\ v7' = v7 /\ v12 \subseteq v12'
    BY <1>2 DEF Sold
  <2>2. CASE n \in 1 .. Len(v2)
    <3>1. v2'[n] = v2[n]
      BY <1>0, <2>1, <2>2
    <3> QED BY <2>1, <2>2, <3>1 DEF LayawayOk
  <2>3. CASE n = Len(v2) + 1
    <3>1. v2'[n] = t
      BY <1>0, <2>1, <2>3
    <3>2. \A w \in Workers : ~(v7[w].op = "layaway" /\ v7[w].sale = n)
      BY <1>0, <2>3 DEF DeskType, JobsType, ErrandOk
    <3>3. v2'[n].given = 0 /\ v2'[n].left = 0 /\ 0 \notin 1 .. LayawayDue
      BY <1>0, <2>1, <3>1
    <3>4. \A w \in Workers : ~(v7'[w].op = "layaway" /\ v7'[w].sale = n)
      BY <2>1, <3>2
    <3> QED BY <3>3, <3>4 DEF LayawayOk
  <2>4. n \in 1 .. Len(v2') => n \in 1 .. Len(v2) \/ n = Len(v2) + 1
    BY <1>0, <2>1
  <2> QED BY <2>2, <2>3, <2>4 DEF LayawayOk
<1>3. ASSUME NEW m, NEW t, Edited(m, t) PROVE LayawayOk(n)'
  <2>1. /\ m \in 1 .. Len(v2) /\ t.given = v2[m].given /\ t.left = v2[m].left
        /\ v2' = [v2 EXCEPT ![m] = t] /\ v7' = v7 /\ v12 \subseteq v12'
        /\ <<"edited by hand", m>> \in v12'
    BY <1>3 DEF Edited
  <2>2. Len(v2') = Len(v2) /\ v2'[m] = t /\ \A k \in 1 .. Len(v2) : k # m => v2'[k] = v2[k]
    <3>1. m \in 1 .. Len(v2) /\ v2' = [v2 EXCEPT ![m] = t]
      BY <2>1
    <3> QED BY <1>0, <3>1
  <2>3. CASE n = m
    BY <2>1, <2>2, <2>3 DEF LayawayOk
  <2>4. CASE n # m
    BY <2>1, <2>2, <2>4 DEF LayawayOk
  <2> QED BY <2>3, <2>4
<1>4. ASSUME NEW w \in Workers, NEW j, Begun(w, j) PROVE LayawayOk(n)'
  <2>1. /\ Becomes(w, j) /\ v2' = v2 /\ v12' = v12
        /\ j.op = "layaway" =>
              j.left = (IF v2[j.sale].left > 0 THEN v2[j.sale].left ELSE LayawayDue) - 1
    BY <1>4 DEF Begun
  <2>2. ASSUME n \in 1 .. Len(v2), <<"layaway at once", n>> \notin v12, NEW o \in Workers,
               v7'[o].op = "layaway", v7'[o].sale = n
        PROVE  v7'[o].left = (IF v2[n].left > 0 THEN v2[n].left ELSE LayawayDue) - 1
    <3>1. CASE o = w
      BY <2>1, <2>2, <3>1 DEF Becomes
    <3>2. CASE o # w
      BY <2>1, <2>2, <3>2 DEF Becomes, LayawayOk
    <3> QED BY <3>1, <3>2
  <2> QED BY <2>1, <2>2 DEF LayawayOk
<1>5. ASSUME NEW w \in Workers, NEW m, NEW t, LaidBy(w, m, t) PROVE LayawayOk(n)'
  <2>1. /\ v7[w].op = "layaway" /\ m = v7[w].sale /\ m \in 1 .. Len(v2) /\ t \in Ticket
        /\ t.given = v2[m].given + 1
        /\ t.left = (IF v7[w].left < 0 THEN 0 ELSE v7[w].left)
        /\ t.status = (IF v7[w].left <= 0 THEN "paid" ELSE "layaway")
        /\ v2' = [v2 EXCEPT ![m] = t] /\ Becomes(w, Desk!idle) /\ v12 \subseteq v12'
        /\ \/ <<"layaway at once", m>> \in v12'
           \/ \A o \in Workers : o # w => ~(v7[o].op = "layaway" /\ v7[o].sale = m)
    BY <1>5 DEF LaidBy, Listed, Goneon
  <2>2. Len(v2') = Len(v2) /\ v2'[m] = t /\ \A k \in 1 .. Len(v2) : k # m => v2'[k] = v2[k]
    <3>1. m \in 1 .. Len(v2) /\ v2' = [v2 EXCEPT ![m] = t]
      BY <2>1
    <3> QED BY <1>0, <3>1
  <2>3. \A o \in Workers : v7'[o].op = "layaway" => v7'[o] = v7[o] /\ o # w
    BY <2>1, IdleOk DEF Becomes
  <2>4. CASE n # m
    BY <2>1, <2>2, <2>3, <2>4 DEF LayawayOk
  <2>5. CASE n = m
    <3>1. PICK g, left \in Nat, l \in Int : g = v2[m].given /\ left = v2[m].left /\ l = v7[w].left
      <4>1. v2[m] \in Ticket
        <5>1. m \in 1 .. Len(v2)
          BY <2>1
        <5> QED BY <1>0, <5>1
      <4>2. v2[m].given \in Nat /\ v2[m].left \in Nat
        BY <4>1 DEF Ticket
      <4>3. v7[w].left \in Int
        BY <2>1 DEF DeskType, JobsType, ErrandOk
      <4> QED BY <4>2, <4>3
    <3>2. PICK T \in Nat : T = t.left
      BY <2>1 DEF Ticket
    <3>3. T = (IF l < 0 THEN 0 ELSE l) /\ t.given = g + 1 /\ (t.status = "paid" <=> l <= 0)
      BY <2>1, <3>1, <3>2
    <3>4. t.given # 0 /\ (t.status = "paid" <=> T = 0)
      BY <3>1, <3>2, <3>3
    <3>5. ASSUME <<"layaway at once", m>> \notin v12'
          PROVE  /\ g + 1 \in 1 .. LayawayDue => T = LayawayDue - (g + 1)
                 /\ \A o \in Workers : ~(v7'[o].op = "layaway" /\ v7'[o].sale = m)
      <4>1. /\ g = 0 => left = 0
            /\ g \in 1 .. LayawayDue => left = LayawayDue - g
            /\ l = (IF left > 0 THEN left ELSE LayawayDue) - 1
        BY <2>1, <2>5, <3>1, <3>5 DEF LayawayOk
      <4>2. g + 1 \in 1 .. LayawayDue => T = LayawayDue - (g + 1)
        <5>1. PICK D \in Nat : D = LayawayDue
          BY <1>0
        <5>2. T = (IF l < 0 THEN 0 ELSE l)
          BY <3>3
        <5>3. CASE g = 0
          <6>1. l = D - 1
            BY <4>1, <5>1, <5>3
          <6> QED BY <5>1, <5>2, <5>3, <6>1
        <5>4. CASE g # 0
          <6>1. g + 1 \in 1 .. D => left = D - g /\ left > 0 /\ l = left - 1
            BY <3>1, <4>1, <5>1, <5>4
          <6> QED BY <5>1, <5>2, <6>1
        <5> QED BY <5>3, <5>4
      <4>3. \A o \in Workers : ~(v7'[o].op = "layaway" /\ v7'[o].sale = m)
        BY <2>1, <2>3, <3>5
      <4> QED BY <4>2, <4>3
    <3> QED BY <2>2, <2>5, <3>2, <3>3, <3>4, <3>5 DEF LayawayOk
  <2> QED BY <2>4, <2>5
<1> QED BY <1>1, <1>2, <1>3, <1>4, <1>5, LayawaySteps

(***************************************************************************)
(* A referral is paid once: two points for every customer referred, but    *)
(* for those on the way.                                                   *)
(***************************************************************************)
Friends == {i \in Everyone : Referred(i)}
Awarding == {w \in Workers : v7[w].op = "award"}
NoneTwice == \A i \in 1 .. Len(v1) : <<"referred at once", i>> \notin v12 /\ <<"cut", i>> \notin v12

ReferralsOk ==
    NoneTwice =>
       SumFunctionOnSet(v10, Everyone) = 2 * (Cardinality(Friends) - Cardinality(Awarding))

ReferralsQuiet == (\A j : Referred(j)' = Referred(j)) /\ v10' = v10 /\ Steady("award")

LEMMA ReferralsType ==
    ASSUME DeskType
    PROVE  /\ IsFiniteSet(Everyone) /\ IsFiniteSet(Friends) /\ IsFiniteSet(Awarding)
           /\ Cardinality(Friends) \in Nat /\ Cardinality(Awarding) \in Nat
           /\ \A i \in Everyone : v10[i] \in Int
           /\ SumFunctionOnSet(v10, Everyone) \in Int
<1>1. IsFiniteSet(Everyone) /\ IsFiniteSet(Workers)
  BY MaxCustomersNat, FS_Interval, PartsAssumption DEF Everyone
<1>2. Friends \in SUBSET Everyone /\ Awarding \in SUBSET Workers
  BY DEF Friends, Awarding
<1>3. IsFiniteSet(Friends) /\ IsFiniteSet(Awarding)
  BY <1>1, <1>2, FS_Subset
<1>4. \A i \in Everyone : v10[i] \in Int
  BY DEF DeskType, ListsType
<1>5. SumFunctionOnSet(v10, Everyone) \in Int
  BY <1>1, <1>4, SumType
<1> QED BY <1>1, <1>3, <1>4, <1>5, FS_CardinalityType

LEMMA ReferralsSteps ==
    ASSUME DeskStep
    PROVE  \/ ReferralsQuiet
           \/ \E w \in Workers : \/ (\E i : Vouched(w, i)) \/ (\E i, by : Awarded(w, i, by))
                                 \/ Died(w)
<1>idle. Desk!idle.op # "award"
  BY IdleOk
<1>1. CASE Aside
  BY <1>1 DEF ReferralsQuiet, Aside, SameBooks, Steady
<1>2. ASSUME NEW i, NEW d, NEW t, Sold(i, d, t) PROVE ReferralsQuiet
  BY <1>2 DEF ReferralsQuiet, Sold, Steady
<1>3. ASSUME NEW n, NEW t, Edited(n, t) PROVE ReferralsQuiet
  BY <1>3 DEF ReferralsQuiet, Edited, Steady, Referred
<1>4. ASSUME NEW w \in Workers, NEW j, Becomes(w, j), v7[w].op # "award", j.op # "award", v10' = v10,
             \A k : Referred(k)' = Referred(k)
      PROVE  ReferralsQuiet
  BY <1>4 DEF ReferralsQuiet, Steady
<1>5. ASSUME NEW w \in Workers, NEW j, Begun(w, j) PROVE ReferralsQuiet
  BY <1>5 DEF ReferralsQuiet, Begun, Steady, Referred
<1>6. ASSUME NEW w \in Workers, Created(w) \/ Received(w) PROVE ReferralsQuiet
  BY <1>4, <1>6, <1>idle DEF Created, Received, Listed, Goneon, SameBooks
<1>7. ASSUME NEW w \in Workers, NEW i, Removed(w, i) PROVE ReferralsQuiet
  BY <1>4, <1>7, <1>idle DEF Removed, Goneon
<1>8. ASSUME NEW w \in Workers, NEW i, NEW k, Inserted(w, i, k) PROVE ReferralsQuiet
  <2>1. PICK j : j = [op |-> "credit", who |-> i]
    OBVIOUS
  <2>2. /\ v7[w].op # "award" /\ j.op # "award" /\ v10' = v10
        /\ (\A m : Referred(m)' = Referred(m)) /\ (Becomes(w, Desk!idle) \/ Becomes(w, j))
    BY <1>8, <2>1 DEF Inserted, Listed, Goneon, SameBooks
  <2> QED BY <1>4, <1>idle, <2>2
<1>9. ASSUME NEW w \in Workers, NEW i, Relieved(w, i) PROVE ReferralsQuiet
  <2>1. PICK j : j = [op |-> "drawer", who |-> i]
    OBVIOUS
  <2>2. /\ Becomes(w, j) /\ v7[w].op # "award" /\ j.op # "award" /\ v10' = v10
        /\ (\A m : Referred(m)' = Referred(m))
    BY <1>9, <2>1 DEF Relieved, Goneon
  <2> QED BY <1>4, <2>2
<1>10. ASSUME NEW w \in Workers, NEW i, NEW use, Redeemed(w, i, use) PROVE ReferralsQuiet
  <2>1. PICK j : j = [op |-> "row", who |-> i, use |-> use]
    OBVIOUS
  <2>2. /\ Becomes(w, j) /\ v7[w].op # "award" /\ j.op # "award" /\ v10' = v10
        /\ (\A m : Referred(m)' = Referred(m))
    BY <1>10, <2>1 DEF Redeemed, Goneon
  <2> QED BY <1>4, <2>2
<1>11. ASSUME NEW w \in Workers, NEW i, NEW use, RowWritten(w, i, use) PROVE ReferralsQuiet
  BY <1>4, <1>11, <1>idle DEF RowWritten, Listed, Goneon, SameBooks
<1>12. ASSUME NEW w \in Workers, NEW o, Parked(w, o) PROVE ReferralsQuiet
  BY <1>4, <1>12, <1>idle DEF Parked, Listed, Goneon, SameBooks
<1>13. ASSUME NEW w \in Workers, NEW n, NEW t, LaidBy(w, n, t) PROVE ReferralsQuiet
  BY <1>4, <1>13, <1>idle DEF LaidBy, Listed, Goneon, SameBooks
<1> QED BY <1>1, <1>2, <1>3, <1>5, <1>6, <1>7, <1>8, <1>9, <1>10, <1>11, <1>12, <1>13 DEF DeskStep

\* one who is there is known by a number of a customer
LEMMA Known ==
    ASSUME DeskType, NEW w \in Workers, v7[w].op \in Wants
    PROVE  v7[w].who \in 1 .. Len(v1)
BY DEF DeskType, JobsType, ErrandOk

LEMMA ReferralsKept == ASSUME DeskType, DeskStep, ReferralsOk PROVE ReferralsOk'
<1>0. PICK s, f, a \in Int : /\ s = SumFunctionOnSet(v10, Everyone) /\ f = Cardinality(Friends)
                             /\ a = Cardinality(Awarding)
  BY ReferralsType
<1>1. NoneTwice' => NoneTwice /\ s = 2 * (f - a)
  <2>1. v12 \subseteq v12' /\ \A i \in 1 .. Len(v1) : i \in 1 .. Len(v1')
    <3>1. v12 \subseteq v12' /\ (Len(v1) <= Len(v1') \/ v1' = v1)
      BY MarksStay
    <3>2. DeskType' /\ Len(v1) \in Nat /\ (DeskType' => Len(v1') \in Nat)
      BY DeskTypeKept, Lengths DEF DeskType, PeopleType
    <3> QED BY <3>1, <3>2
  <2>2. NoneTwice' => NoneTwice
    BY <2>1 DEF NoneTwice
  <2> QED BY <1>0, <2>2 DEF ReferralsOk
<1>2. CASE ReferralsQuiet
  <2>1. Friends' = Friends
    BY <1>2 DEF ReferralsQuiet, Friends
  <2>2. Awarding' = Awarding
    <3>1. \A w \in Workers : v7[w].op = "award" \/ v7'[w].op = "award" => v7'[w] = v7[w]
      BY <1>2, SteadyMeans DEF ReferralsQuiet
    <3> QED BY <3>1 DEF Awarding
  <2> QED BY <1>0, <1>1, <1>2, <2>1, <2>2 DEF ReferralsQuiet, ReferralsOk
<1>3. ASSUME NEW w \in Workers, NEW i, Vouched(w, i) PROVE ReferralsOk'
  <2>1. SUFFICES ASSUME NoneTwice' PROVE ReferralsOk'
    BY DEF ReferralsOk
  <2>2. PICK j : j.op = "award" /\ Becomes(w, j)
    BY <1>3 DEF Vouched, Goneon
  <2>3. /\ v7[w].op = "refer" /\ i = v7[w].who /\ Referred(i)'
        /\ \A k : k # i => Referred(k)' = Referred(k)
        /\ <<"referred at once", i>> \in v12' \/ ~Referred(i)
        /\ Len(v1') = Len(v1) /\ v10' = v10
    BY <1>3 DEF Vouched
  <2>4. i \in 1 .. Len(v1) /\ i \in Everyone
    BY <2>3, Known, BooksAt DEF Wants, DeskType
  <2>5. ~Referred(i)
    BY <2>1, <2>3, <2>4 DEF NoneTwice
  <2>6. Friends' = Friends \cup {i} /\ i \notin Friends
    BY <2>3, <2>4, <2>5 DEF Friends
  <2>7. Awarding' = Awarding \cup {w} /\ w \notin Awarding
    BY <2>2, <2>3 DEF Awarding, Becomes
  <2>8. Cardinality(Friends') = f + 1 /\ Cardinality(Awarding') = a + 1
    BY <1>0, <2>6, <2>7, ReferralsType, OneMore
  <2>9. s = 2 * ((f + 1) - (a + 1))
    BY <1>0, <1>1, <2>1
  <2> QED BY <1>0, <2>3, <2>8, <2>9 DEF ReferralsOk
<1>4. ASSUME NEW w \in Workers, NEW i, NEW by, Awarded(w, i, by) PROVE ReferralsOk'
  <2>1. /\ v7[w].op = "award" /\ Becomes(w, Desk!idle) /\ \A k : Referred(k)' = Referred(k)
        /\ i \in Everyone /\ by \in Everyone /\ i # by
        /\ v10'[i] = v10[i] + 1 /\ v10'[by] = v10[by] + 1
        /\ \A k \in Everyone : k \notin {i, by} => v10'[k] = v10[k]
        /\ v10' \in [Everyone -> Nat] /\ v10 \in [Everyone -> Nat]
    BY <1>4 DEF Awarded, Goneon, DeskType, ListsType
  <2>2. Friends' = Friends
    BY <2>1 DEF Friends
  <2>3. PICK S, T : S = Awarding /\ T = Awarding'
    OBVIOUS
  <2>4. T = S \ {w} /\ w \in S
    BY <2>1, <2>3, IdleOk DEF Awarding, Becomes
  <2>5. a = Cardinality(T) + 1 /\ Cardinality(T) \in Nat
    <3>1. IsFiniteSet(S)
      BY <2>3, ReferralsType
    <3>2. IsFiniteSet(T) /\ Cardinality(S) = Cardinality(T) + 1
      BY <2>4, <3>1, OneLess
    <3> QED BY <1>0, <2>3, <3>2, FS_CardinalityType
  <2>6. SumFunctionOnSet(v10', Everyone) = s + 2
    <3>1. PICK F, G, H : F = v10 /\ H = v10' /\ G = [F EXCEPT ![i] = F[i] + 1]
      OBVIOUS
    <3>2. F \in [Everyone -> Int] /\ G \in [Everyone -> Int] /\ H \in [Everyone -> Int]
      BY <2>1, <3>1
    <3>3. /\ G[i] = F[i] + 1 /\ \A k \in Everyone : k # i => G[k] = F[k]
      BY <2>1, <3>1, <3>2
    <3>4. /\ H[by] = G[by] + 1 /\ \A k \in Everyone : k # by => H[k] = G[k]
      BY <2>1, <3>1, <3>3
    <3>5. SumFunctionOnSet(G, Everyone) = SumFunctionOnSet(F, Everyone) - F[i] + G[i]
      BY <2>1, <3>2, <3>3, ReferralsType, SumOneChanged
    <3>6. SumFunctionOnSet(H, Everyone) = SumFunctionOnSet(G, Everyone) - G[by] + H[by]
      BY <2>1, <3>2, <3>4, ReferralsType, SumOneChanged
    <3>7. F[i] \in Int /\ G[by] \in Int
      BY <2>1, <3>2
    <3>8. SumFunctionOnSet(G, Everyone) = s + 1
      BY <1>0, <3>1, <3>3, <3>5, <3>7
    <3>9. SumFunctionOnSet(H, Everyone) = s + 2
      BY <1>0, <3>4, <3>6, <3>7, <3>8
    <3> QED BY <3>1, <3>9
  <2>7. PICK c \in Int : c = Cardinality(Awarding')
    BY <2>3, <2>5
  <2>8. s = 2 * (f - a) => s + 2 = 2 * (f - c)
    BY <1>0, <2>3, <2>5, <2>7
  <2> QED BY <1>0, <1>1, <2>2, <2>6, <2>7, <2>8 DEF ReferralsOk
<1>5. ASSUME NEW w \in Workers, Died(w) PROVE ReferralsOk'
  <2>1. /\ Becomes(w, Desk!idle) /\ v1' = v1 /\ v10' = v10
        /\ (v7[w].op = "award" => <<"cut", v7[w].who>> \in v12')
        /\ (\A k : Referred(k)' = Referred(k))
    BY <1>5 DEF Died, Listed, Goneon, SameBooks
  <2>2. CASE v7[w].op = "award"
    <3>1. v7[w].who \in 1 .. Len(v1)
      BY <2>2, Known DEF Wants
    <3>2. ~NoneTwice'
      BY <2>1, <2>2, <3>1 DEF NoneTwice
    <3> QED BY <3>2 DEF ReferralsOk
  <2>3. CASE v7[w].op # "award"
    <3>1. ReferralsQuiet
      BY <2>1, <2>3, IdleOk DEF ReferralsQuiet, Steady
    <3> QED BY <1>2, <3>1
  <2> QED BY <2>2, <2>3
<1> QED BY <1>2, <1>3, <1>4, <1>5, ReferralsSteps

LEMMA OneTwo == IsFiniteSet({1, 2}) /\ {1, 2} \in SUBSET Nat
<1>1. IsFiniteSet({1}) /\ {1, 2} = {1} \cup {2}
  BY FS_Singleton
<1> QED BY <1>1, FS_AddElement
LEMMA RangesGrow == ASSUME NEW m \in Nat, NEW n \in Nat, m <= n PROVE 1 .. m \in SUBSET (1 .. n)
OBVIOUS
LEMMA LeftNothing == \A a, b \in Nat : 0 + 0 = b + a => a = 0
OBVIOUS
LEMMA AddNothing == \A a \in Int : a + 0 = a
OBVIOUS
LEMMA NotBelow == \A p \in Int : p >= 0 => ~(p < 0)
OBVIOUS
LEMMA NoneGiven == 0 \notin 1 .. LayawayDue
BY DeskAssumption
LEMMA IdsAre == ASSUME DeskType PROVE Desk!Ids = 1 .. Len(v1) /\ Len(v1) \in Nat /\ Len(v1) <= MaxCustomers
  BY DEF Desk!Ids, DeskType, PeopleType
LEMMA NoneOver == \A o \in Nat : o > 0 => o # 0
OBVIOUS
LEMMA RangeIsNat == \A n \in Nat : \A s \in 1 .. n : s \in Nat
OBVIOUS

(***************************************************************************)
(* The desk's books are kept by every step.                                *)
(***************************************************************************)
AccountOk(i) == CreditOk(i) /\ PointsOk(i) /\ UsedOk(i) /\ RemovedOk(i)

DeskBooks ==
    /\ DeskType /\ KeysOk /\ TwinsOk /\ OrdersOk /\ ReferralsOk
    /\ \A i \in Everyone : AccountOk(i)
    /\ \A n \in Nat : LayawayOk(n)

LEMMA DeskBooksKept == ASSUME DeskBooks, Desk!Next PROVE DeskBooks'
<1>1. DeskType /\ DeskStep
  BY DeskSteps DEF DeskBooks
<1>2. DeskType' /\ KeysOk' /\ OrdersOk' /\ ReferralsOk'
  BY <1>1, DeskTypeKept, KeysKept, OrdersKept, ReferralsKept DEF DeskBooks
<1>3. TwinsOk'
  BY <1>1, PhonesMoved, MarksStay, TwinsKept DEF DeskBooks
<1>4. ASSUME NEW i \in Everyone PROVE AccountOk(i)'
  <2>1. AccountOk(i)
    BY DEF DeskBooks
  <2>2. CreditOk(i)' /\ PointsOk(i)'
    BY <1>1, <2>1, CreditKept, PointsKept DEF AccountOk
  <2>3. UsedOk(i)' /\ RemovedOk(i)'
    BY <1>1, <2>1, UsedKept, RemovedKept DEF AccountOk
  <2> QED BY <2>2, <2>3 DEF AccountOk
<1>5. ASSUME NEW n \in Nat PROVE LayawayOk(n)'
  BY <1>1, LayawayKept DEF DeskBooks
<1> QED BY <1>2, <1>3, <1>4, <1>5 DEF DeskBooks

LEMMA DeskBooksSame ==
    ASSUME DeskBooks, UNCHANGED <<v1, v2, v3, v4, v5, v6, v7, v8, v9, v10, v11, v12>>
    PROVE  DeskBooks'
<1>1. DeskType'
  BY DEF DeskBooks, DeskType, PeopleType, TicketsType, JobsType, ListsType
<1>2. \A i : /\ Balance(i)' = Balance(i) /\ Points(i)' = Points(i) /\ Used(i)' = Used(i)
             /\ Referred(i)' = Referred(i) /\ Gone(i)' = Gone(i)
             /\ Lots(i)' = Lots(i) /\ Debts(i)' = Debts(i) /\ Receipts(i)' = Receipts(i)
             /\ \A op : AtWork(op, i)' = AtWork(op, i)
             /\ InRows(i)' = InRows(i) /\ StillToCome(i)' = StillToCome(i)
  <2>1. ASSUME NEW i
        PROVE  /\ Balance(i)' = Balance(i) /\ Points(i)' = Points(i) /\ Used(i)' = Used(i)
               /\ Referred(i)' = Referred(i) /\ Gone(i)' = Gone(i)
    BY DEF Balance, Points, Used, Referred, Gone
  <2>2. ASSUME NEW i
        PROVE  /\ Lots(i)' = Lots(i) /\ Debts(i)' = Debts(i) /\ Receipts(i)' = Receipts(i)
               /\ \A op : AtWork(op, i)' = AtWork(op, i)
    BY DEF Lots, Debts, Receipts, AtWork
  <2>3. ASSUME NEW i PROVE InRows(i)' = InRows(i) /\ StillToCome(i)' = StillToCome(i)
    BY DEF InRows, StillToCome, RowUse, UseToCome
  <2> QED BY <2>1, <2>2, <2>3
<1>3. KeysOk' /\ TwinsOk'
  BY DEF DeskBooks, KeysOk, TwinsOk
<1>4. OrdersOk'
  BY RefSame DEF DeskBooks, OrdersOk
<1>5. ReferralsOk'
  <2>1. Friends' = Friends /\ Awarding' = Awarding /\ NoneTwice' = NoneTwice
    BY DEF Friends, Referred, Awarding, NoneTwice
  <2> QED BY <2>1 DEF DeskBooks, ReferralsOk
<1>6. ASSUME NEW i \in Everyone PROVE AccountOk(i)'
  <2>1. AccountOk(i)
    BY DEF DeskBooks
  <2>2. CreditOk(i)' /\ PointsOk(i)'
    BY <1>2, <2>1 DEF AccountOk, CreditOk, PointsOk
  <2>3. UsedOk(i)'
    BY <1>2, <2>1 DEF AccountOk, UsedOk
  <2>4. RemovedOk(i)'
    BY <1>2, <2>1 DEF AccountOk, RemovedOk, Leaving
  <2> QED BY <2>2, <2>3, <2>4 DEF AccountOk
<1>7. ASSUME NEW n \in Nat PROVE LayawayOk(n)'
  BY DEF DeskBooks, LayawayOk
<1> QED BY <1>1, <1>3, <1>4, <1>5, <1>6, <1>7 DEF DeskBooks

LEMMA DeskBooksStart == ASSUME Desk!Init PROVE DeskBooks
<1>1. /\ v1 = <<>> /\ v2 = <<>> /\ v3 = <<>> /\ v5 = <<>> /\ v6 = {} /\ v8 = 1 /\ v9 = 0
      /\ v7 = [w \in Workers |-> Desk!idle] /\ v10 = [i \in Everyone |-> 0]
      /\ v11 = [i \in Everyone |-> 0] /\ v12 = {}
  BY DEF Desk!Init, Everyone
<1>2. 1 .. Len(v1) = {} /\ 1 .. Len(v2) = {} /\ 1 .. Len(v3) = {} /\ 1 .. Len(v5) = {}
  BY <1>1
<1>3. \A w \in Workers : v7[w] = Desk!idle /\ v7[w].op = "none"
  BY <1>1, IdleOk
<1>4. DeskType
  <2>1. PeopleType /\ TicketsType
    BY <1>1, <1>2, MaxCustomersNat DEF PeopleType, TicketsType
  <2>2. JobsType
    BY <1>1, <1>3, IdleOk DEF JobsType
  <2>3. ListsType
    BY <1>1, FS_EmptySet DEF ListsType
  <2> QED BY <2>1, <2>2, <2>3 DEF DeskType
<1>5. KeysOk /\ TwinsOk
  BY <1>2 DEF KeysOk, TwinsOk
<1>6. OrdersOk
  BY <1>1, <1>3 DEF OrdersOk
<1>7. Cardinality({}) = 0 /\ IsFiniteSet({})
  BY FS_EmptySet
<1>8. \A i : /\ Balance(i) = 0 /\ Points(i) = 0 /\ Used(i) = 0 /\ ~Referred(i) /\ ~Gone(i)
             /\ Lots(i) = {} /\ Debts(i) = {} /\ Receipts(i) = {}
             /\ AtWork("credit", i) = {}
  BY <1>2, <1>3 DEF Balance, Points, Used, Referred, Gone, Lots, Debts, Receipts, AtWork
<1>9. ReferralsOk
  <2>1. Friends = {} /\ Awarding = {}
    BY <1>3, <1>8 DEF Friends, Awarding
  <2>2. SumFunctionOnSet(v10, Everyone) = 0
    <3>1. IsFiniteSet(Everyone) /\ \A i \in Everyone : v10[i] = 0
      BY <1>1, <1>4, ReferralsType
    <3> QED BY <3>1, SumZero
  <2> QED BY <1>7, <2>1, <2>2 DEF ReferralsOk
<1>10. ASSUME NEW i \in Everyone PROVE AccountOk(i)
  <2>1. v10[i] = 0 /\ v11[i] = 0
    BY <1>1
  <2>counts. /\ Cardinality(Lots(i)) = 0 /\ Cardinality(Debts(i)) = 0
             /\ Cardinality(Receipts(i)) = 0 /\ Cardinality(AtWork("credit", i)) = 0
    BY <1>7, <1>8
  <2>none. Balance(i) = 0 /\ Points(i) = 0 /\ Used(i) = 0
    BY <1>8
  <2>2. CreditOk(i)
    BY <1>2, <2>counts, <2>none, <2>1 DEF CreditOk
  <2>3. PointsOk(i)
    <3>1. 0 + 0 = 0 /\ 0 >= 0
      OBVIOUS
    <3>2. \A w \in Workers : v7[w].op # "redeem"
      BY <1>3
    <3>3. Points(i) + Used(i) = Cardinality(Lots(i)) + v10[i] /\ Points(i) >= 0
      BY <2>counts, <2>none, <2>1, <3>1, Zenon
    <3> QED BY <3>2, <3>3, Zenon DEF PointsOk
  <2>4. InRows(i) = 0
    BY <1>2, SumEmpty DEF InRows
  <2>5. StillToCome(i) = 0
    <3>1. PICK F : F = UseToCome(i)
      OBVIOUS
    <3>2. \A w \in Workers : F[w] = 0
      BY <1>3, <3>1 DEF UseToCome
    <3> QED BY <3>1, <3>2, PartsAssumption, SumZero DEF StillToCome
  <2>6. UsedOk(i)
    BY <1>8, <2>4, <2>5 DEF UsedOk
  <2>7. RemovedOk(i)
    BY <1>8 DEF RemovedOk
  <2> QED BY <2>2, <2>3, <2>6, <2>7 DEF AccountOk
<1>11. \A n \in Nat : LayawayOk(n)
  BY <1>2 DEF LayawayOk
<1> QED BY <1>4, <1>5, <1>6, <1>9, <1>10, <1>11 DEF DeskBooks

(***************************************************************************)
(* What the books say.                                                     *)
(***************************************************************************)
LEMMA DeskCountsMean ==
    ASSUME DeskType, NEW i
    PROVE  /\ Desk!CreditSold(i) = Cardinality(Debts(i))
           /\ Desk!PaidBy(i) = Cardinality(Receipts(i))
           /\ Desk!Statement(i) = Cardinality(Lots(i)) - Cardinality(Receipts(i))
           /\ Desk!InWork({"credit"}, i) = Cardinality(AtWork("credit", i))
<1>1. DOMAIN v2 = 1 .. Len(v2) /\ DOMAIN v3 = 1 .. Len(v3)
  BY DEF DeskType, TicketsType, ListsType
<1>2. Desk!CreditSold(i) = Cardinality(Debts(i))
  BY <1>1, DeskCounts DEF Desk!CreditSold, Desk!Count, Debts
<1>3. Desk!PaidBy(i) = Cardinality(Receipts(i))
  BY <1>1, DeskCounts DEF Desk!PaidBy, Desk!Count, Receipts
<1>4. Desk!Statement(i) = Cardinality(Lots(i)) - Cardinality(Receipts(i))
  BY <1>1, <1>3, DeskCounts DEF Desk!Statement, Desk!Count, Lots
<1>5. Desk!InWork({"credit"}, i) = Cardinality(AtWork("credit", i))
  <2>1. AtWork("credit", i) = {w \in Workers : v7[w].op \in {"credit"} /\ v7[w].who = i}
    BY DEF AtWork
  <2> QED BY <2>1, DeskCounts DEF Desk!InWork
<1> QED BY <1>2, <1>3, <1>4, <1>5

\* a sale is on credit, paid, or laid by
LEMMA LotsSplit ==
    ASSUME DeskType, NEW i, \A n \in 1 .. Len(v2) : v2[n].who = i => v2[n].status # "layaway",
           NEW P, P = {n \in 1 .. Len(v2) : v2[n].who = i /\ v2[n].status = "paid"}
    PROVE  /\ Cardinality(Lots(i)) = Cardinality(Debts(i)) + Cardinality(P)
           /\ Cardinality(P) \in Nat
<1>1. \A n \in 1 .. Len(v2) : v2[n].status \in {"paid", "credit", "layaway"}
  <2>1. \A n \in 1 .. Len(v2) : v2[n] \in Ticket
    BY DEF DeskType, TicketsType
  <2> QED BY <2>1 DEF Ticket
<1>2. Lots(i) = Debts(i) \cup P /\ Debts(i) \cap P = {}
  BY <1>1 DEF Lots, Debts
<1>3. IsFiniteSet(Debts(i)) /\ IsFiniteSet(P)
  <2>1. IsFiniteSet(Lots(i)) /\ P \in SUBSET Lots(i)
    BY <1>2, CountsType
  <2> QED BY <2>1, CountsType, FS_Subset
<1>4. PICK L, D : L = Lots(i) /\ D = Debts(i)
  OBVIOUS
<1>5. /\ Cardinality(D \cup P) = Cardinality(D) + Cardinality(P) - Cardinality(D \cap P)
      /\ Cardinality(D \cap P) = 0 /\ Cardinality(D) \in Nat /\ Cardinality(P) \in Nat
  BY <1>2, <1>3, <1>4, FS_Union, FS_EmptySet, FS_CardinalityType
<1> QED BY <1>2, <1>4, <1>5

CreditMeans(i) ==
    /\ v1[i].credit = Desk!CreditSold(i) - (Desk!PaidBy(i) - Desk!InWork({"credit"}, i)) + v11[i]
    /\ v1[i].credit > 0 /\ ~v1[i].deleted => i \in Desk!Ageing /\ Desk!Oldest(i) <= v8
    /\ Desk!Statement(i) + v11[i] + Desk!InWork({"credit"}, i)
          = v1[i].credit + Desk!Count(v2, LAMBDA s : s.who = i /\ s.status = "paid")

LEMMA CreditIsMeant ==
    ASSUME DeskType, NEW i \in 1 .. Len(v1), CreditOk(i),
           <<"cut", i>> \notin v12, <<"edited", i>> \notin v12
    PROVE  CreditMeans(i)
<1>1. /\ v1[i] \in Customer /\ i \in Everyone /\ v1[i].credit = Balance(i) /\ v1[i].deleted = Gone(i)
  BY BooksAt DEF DeskType
<1>2. PICK c, d, r, b, l, u \in Nat :
         /\ c = Balance(i) /\ d = Cardinality(Debts(i)) /\ r = Cardinality(Receipts(i))
         /\ b = Cardinality(AtWork("credit", i)) /\ l = Cardinality(Lots(i)) /\ u = v11[i]
  <2>1. Balance(i) \in Nat /\ v11[i] \in Nat
    BY <1>1, BooksType DEF DeskType, ListsType
  <2> QED BY <2>1, CountsType
<1>3. /\ u + b <= r /\ c = d + u - (r - b)
      /\ \A n \in 1 .. Len(v2) : v2[n].who = i => v2[n].status # "layaway"
  BY <1>2 DEF CreditOk
<1>4. /\ Desk!CreditSold(i) = d /\ Desk!PaidBy(i) = r /\ Desk!Statement(i) = l - r
      /\ Desk!InWork({"credit"}, i) = b
  BY <1>2, DeskCountsMean
<1>5. DOMAIN v1 = 1 .. Len(v1) /\ DOMAIN v2 = 1 .. Len(v2)
  BY DEF DeskType, PeopleType, TicketsType
<1>6. PICK P : P = {n \in 1 .. Len(v2) : v2[n].who = i /\ v2[n].status = "paid"}
  OBVIOUS
<1>7. PICK p \in Nat : p = Cardinality(P) /\ l = d + p
  <2>1. \A n \in 1 .. Len(v2) : v2[n].who = i => v2[n].status # "layaway"
    BY <1>3
  <2>2. Cardinality(Lots(i)) = Cardinality(Debts(i)) + Cardinality(P) /\ Cardinality(P) \in Nat
    BY <1>6, <2>1, LotsSplit
  <2> QED BY <1>2, <2>2
<1>8. Desk!Count(v2, LAMBDA s : s.who = i /\ s.status = "paid") = p
  BY <1>5, <1>6, <1>7, DeskCounts DEF Desk!Count
<1>9. (l - r) + u + b = c + p
  <2>1. l = d + p /\ c = d + u - (r - b)
    BY <1>3, <1>7
  <2>2. d \in Int /\ u \in Int /\ r \in Int /\ b \in Int /\ p \in Int
    OBVIOUS
  <2> QED BY <2>1, <2>2
<1>10. c = d - (r - b) + u
  BY <1>2, <1>3
<1>11. ASSUME c > 0, ~Gone(i) PROVE i \in Desk!Ageing /\ Desk!Oldest(i) <= v8
  <2>1. d > 0
    BY <1>2, <1>3, <1>11
  <2>2. i \in Desk!Ageing
    BY <1>1, <1>2, <1>4, <1>5, <1>11, <2>1 DEF Desk!Ageing, Desk!Live, Desk!Ids
  <2>3. PICK D : D = {v2[n].day : n \in {n \in DOMAIN v2 : v2[n].who = i /\ v2[n].status = "credit"}}
    OBVIOUS
  <2>4. Debts(i) # {}
    <3>1. SUFFICES ASSUME Debts(i) = {} PROVE FALSE
      OBVIOUS
    <3>2. d = 0
      BY <1>2, <3>1, FS_EmptySet
    <3> QED BY <2>1, <3>2
  <2>5. PICK n \in 1 .. Len(v2) : v2[n].who = i /\ v2[n].status = "credit"
    BY <2>4 DEF Debts
  <2>6. /\ D # {} /\ v2[n].day \in D /\ D \in SUBSET {1, 2} /\ \A x \in D : x <= v8
    <3>1. \A m \in 1 .. Len(v2) : v2[m].day \in {1, 2} /\ v2[m].day <= v8
      <4>1. \A m \in 1 .. Len(v2) : v2[m] \in Ticket
        BY DEF DeskType, TicketsType
      <4>2. \A m \in 1 .. Len(v2) : v2[m].day <= v8
        BY DEF DeskType, TicketsType
      <4> QED BY <4>1, <4>2 DEF Ticket
    <3> QED BY <1>5, <2>3, <2>5, <3>1
  <2>7. IsFiniteSet(D) /\ D \in SUBSET Nat
    BY <2>6, OneTwo, FS_Subset, Zenon
  <2>8. Desk!Min(D) \in D
    BY <2>6, <2>7, MinIs
  <2>9. Desk!Oldest(i) = Desk!Min(D)
    BY <2>3 DEF Desk!Oldest
  <2> QED BY <2>2, <2>6, <2>8, <2>9
<1> QED BY <1>1, <1>2, <1>4, <1>8, <1>9, <1>10, <1>11 DEF CreditMeans

LEMMA KeysMean == ASSUME DeskType, KeysOk, NEW k PROVE Desk!Count(v3, LAMBDA p : p.key = k) <= 1
<1>1. DOMAIN v3 = 1 .. Len(v3) /\ Len(v3) \in Nat
  BY DEF DeskType, ListsType
<1>2. PICK S : S = {n \in 1 .. Len(v3) : v3[n].key = k}
  OBVIOUS
<1>3. \A m, n \in S : m = n
  BY <1>2 DEF KeysOk
<1>4. Cardinality(S) <= 1
  <2>1. CASE S = {}
    BY <2>1, FS_EmptySet
  <2>2. CASE S # {}
    <3>1. PICK n : S = {n}
      BY <1>3, <2>2
    <3>2. Cardinality(S) = 1
      BY <3>1, FS_Singleton
    <3> QED BY <3>2
  <2> QED BY <2>1, <2>2
<1> QED BY <1>1, <1>2, <1>4, DeskCounts DEF Desk!Count

AccountMeans(i) ==
    /\ {<<"cut", i>>, <<"edited", i>>} \cap v12 = {} => CreditMeans(i)
    /\ v1[i].points + v1[i].used = Desk!Count(v2, LAMBDA s : s.who = i) + v10[i]
    /\ v1[i].points < 0 => <<"redeemed at once", i>> \in v12
    /\ <<"cut", i>> \notin v12 => v1[i].used = Desk!UsedInRows(i) + Desk!RowsToCome(i)
    /\ v1[i].deleted /\ v1[i].credit > 0 => <<"sold to removed", i>> \in v12

LEMMA AccountIsMeant ==
    ASSUME DeskType, NEW i \in 1 .. Len(v1), AccountOk(i)
    PROVE  AccountMeans(i)
<1>1. /\ v1[i].credit = Balance(i) /\ v1[i].points = Points(i) /\ v1[i].used = Used(i)
      /\ v1[i].deleted = Gone(i) /\ Balance(i) \in Nat /\ Points(i) \in Int
  BY BooksAt, BooksType DEF DeskType
<1>2. DOMAIN v2 = 1 .. Len(v2)
  BY DEF DeskType, TicketsType
<1>3. {<<"cut", i>>, <<"edited", i>>} \cap v12 = {} => CreditMeans(i)
  BY CreditIsMeant DEF AccountOk
<1>4. v1[i].points + v1[i].used = Desk!Count(v2, LAMBDA s : s.who = i) + v10[i]
  <2>1. Desk!Count(v2, LAMBDA s : s.who = i) = Cardinality(Lots(i))
    BY <1>2, DeskCounts DEF Desk!Count, Lots
  <2> QED BY <1>1, <2>1 DEF AccountOk, PointsOk
<1>5. v1[i].points < 0 => <<"redeemed at once", i>> \in v12
  <2>1. <<"redeemed at once", i>> \notin v12 => Points(i) >= 0
    BY DEF AccountOk, PointsOk
  <2> QED BY <1>1, <2>1, NotBelow, Zenon
<1>6. <<"cut", i>> \notin v12 => v1[i].used = Desk!UsedInRows(i) + Desk!RowsToCome(i)
  BY <1>1, RowsMean DEF AccountOk, UsedOk
<1>7. v1[i].deleted /\ v1[i].credit > 0 => <<"sold to removed", i>> \in v12
  <2>1. Gone(i) => <<"sold to removed", i>> \in v12 \/ Balance(i) = 0
    BY DEF AccountOk, RemovedOk
  <2> QED BY <1>1, <2>1, NoneOver, Zenon
<1> QED BY <1>3, <1>4, <1>5, <1>6, <1>7 DEF AccountMeans

LEMMA ReferralsMean ==
    ASSUME DeskType, ReferralsOk, \A i \in Everyone : PointsOk(i),
           \A i \in Desk!Ids : {<<"referred at once", i>>, <<"cut", i>>} \cap v12 = {}
    PROVE  Desk!SumFunctionOnSet(v10, Desk!Ids)
              = 2 * (Desk!Cardinality({i \in Desk!Ids : v1[i].referred})
                     - Desk!Cardinality({w \in Workers : Desk!At(w, "award")}))
<1>1. Desk!Ids = 1 .. Len(v1) /\ Len(v1) \in Nat /\ Len(v1) <= MaxCustomers
  BY IdsAre
<1>2. PICK I, R : I = 1 .. Len(v1) /\ R = Everyone \ I
  OBVIOUS
<1>3. /\ Everyone = I \cup R /\ I \cap R = {} /\ IsFiniteSet(I) /\ IsFiniteSet(R)
      /\ \A i \in Everyone : v10[i] \in Int
  <2>1. I \in SUBSET Everyone
    BY <1>1, <1>2, MaxCustomersNat, RangesGrow, Zenon DEF Everyone
  <2>2. R \in SUBSET Everyone /\ Everyone = I \cup R /\ I \cap R = {}
    BY <1>2, <2>1
  <2>3. IsFiniteSet(Everyone) /\ \A i \in Everyone : v10[i] \in Int
    BY ReferralsType
  <2> QED BY <2>1, <2>2, <2>3, FS_Subset
<1>4. \A i \in R : v10[i] = 0
  <2>1. SUFFICES ASSUME NEW i \in R PROVE v10[i] = 0
    OBVIOUS
  <2>2. Points(i) = 0 /\ Used(i) = 0
    BY <1>2 DEF Points, Used
  <2>3. v10[i] \in Nat /\ Cardinality(Lots(i)) \in Nat
    BY <1>2, CountsType DEF DeskType, ListsType
  <2>4. 0 + 0 = Cardinality(Lots(i)) + v10[i]
    BY <1>2, <2>2 DEF PointsOk
  <2> QED BY <2>3, <2>4, LeftNothing, Zenon
<1>5. SumFunctionOnSet(v10, Everyone) = SumFunctionOnSet(v10, I)
  <2>1. SumFunctionOnSet(v10, R) = 0
    BY <1>3, <1>4, SumZero
  <2>2. SumFunctionOnSet(v10, I) \in Int
    BY <1>3, SumType
  <2>3. SumFunctionOnSet(v10, I \cup R) = SumFunctionOnSet(v10, I) + SumFunctionOnSet(v10, R)
    <3>1. \A i \in I : v10[i] \in Int
      BY <1>3
    <3>2. \A i \in R : v10[i] \in Int
      BY <1>3
    <3> QED BY <1>3, <3>1, <3>2, SumUnion
  <2> QED BY <1>3, <2>1, <2>2, <2>3, AddNothing, Zenon
<1>6. NoneTwice
  BY <1>1 DEF NoneTwice
<1>7. Friends = {i \in Desk!Ids : v1[i].referred}
  <2>1. \A i \in 1 .. Len(v1) : i \in Everyone /\ v1[i].referred = Referred(i)
    BY BooksAt DEF DeskType
  <2> QED BY <1>1, <2>1 DEF Friends, Referred
<1>8. Awarding = {w \in Workers : Desk!At(w, "award")}
  BY DEF Awarding, Desk!At
<1>9. SumFunctionOnSet(v10, Everyone) = 2 * (Cardinality(Friends) - Cardinality(Awarding))
  BY <1>6 DEF ReferralsOk
<1> QED BY <1>1, <1>2, <1>5, <1>7, <1>8, <1>9, DeskCounts, DeskSums

LEMMA DeskBooksMean == ASSUME DeskBooks PROVE Desk!DeskKeepsBooks
<1>1. DeskType
  BY DEF DeskBooks
<1>2. Desk!Ids = 1 .. Len(v1) /\ DOMAIN v2 = 1 .. Len(v2)
  BY <1>1 DEF DeskType, PeopleType, TicketsType, Desk!Ids
<1>3. \A k \in PaymentKeys : Desk!Count(v3, LAMBDA p : p.key = k) <= 1
  BY <1>1, KeysMean DEF DeskBooks
<1>4. \A i \in Desk!Ids : AccountMeans(i)
  <2>1. ASSUME NEW i \in Desk!Ids PROVE AccountMeans(i)
    <3>1. i \in 1 .. Len(v1) /\ i \in Everyone
      BY <1>1, <1>2, BooksAt DEF DeskType
    <3> QED BY <1>1, <3>1, AccountIsMeant DEF DeskBooks
  <2> QED BY <2>1
<1>5. <<"twin", 0>> \notin v12 =>
         \A i, j \in Desk!Live : v1[i].phone = v1[j].phone => i = j
  BY <1>2 DEF DeskBooks, TwinsOk, Desk!Live
<1>6. (\A i \in Desk!Ids : {<<"referred at once", i>>, <<"cut", i>>} \cap v12 = {}) =>
         Desk!SumFunctionOnSet(v10, Desk!Ids)
            = 2 * (Desk!Cardinality({i \in Desk!Ids : v1[i].referred})
                   - Desk!Cardinality({w \in Workers : Desk!At(w, "award")}))
  <2>1. ReferralsOk /\ \A i \in Everyone : PointsOk(i)
    BY DEF DeskBooks, AccountOk
  <2> QED BY <1>1, <2>1, ReferralsMean
<1>7. \A s \in DOMAIN v2 :
         v2[s].given \in 1 .. LayawayDue /\ <<"layaway at once", s>> \notin v12 =>
            /\ v2[s].left = LayawayDue - v2[s].given
            /\ <<"edited by hand", s>> \notin v12 => (v2[s].status = "paid" <=> v2[s].left = 0)
  <2>1. SUFFICES ASSUME NEW s \in 1 .. Len(v2), v2[s].given \in 1 .. LayawayDue,
                        <<"layaway at once", s>> \notin v12
                 PROVE  /\ v2[s].left = LayawayDue - v2[s].given
                        /\ <<"edited by hand", s>> \notin v12 =>
                              (v2[s].status = "paid" <=> v2[s].left = 0)
    BY <1>2
  <2>2. LayawayOk(s) /\ v2[s].given # 0
    <3>1. s \in Nat /\ v2[s].given # 0
      <4>1. Len(v2) \in Nat
        BY <1>1, Lengths
      <4> QED BY <2>1, <4>1, NoneGiven, RangeIsNat, Zenon
    <3> QED BY <3>1 DEF DeskBooks
  <2> QED BY <2>1, <2>2 DEF LayawayOk
<1>8. <<"held at once", 0>> \notin v12 => \A o, q \in v6 : o.kind = q.kind /\ o.ref = q.ref => o = q
  BY DEF DeskBooks, OrdersOk
<1>9. ASSUME NEW i \in Desk!Ids
      PROVE  LET p == v1[i] IN
               /\ {<<"cut", i>>, <<"edited", i>>} \cap v12 = {} =>
                  /\ p.credit = Desk!CreditSold(i) - (Desk!PaidBy(i) - Desk!InWork({"credit"}, i)) + v11[i]
                  /\ p.credit > 0 /\ ~p.deleted => i \in Desk!Ageing /\ Desk!Oldest(i) <= v8
                  /\ Desk!Statement(i) + v11[i] + Desk!InWork({"credit"}, i)
                        = p.credit + Desk!Count(v2, LAMBDA s : s.who = i /\ s.status = "paid")
               /\ p.points + p.used = Desk!Count(v2, LAMBDA s : s.who = i) + v10[i]
               /\ p.points < 0 => <<"redeemed at once", i>> \in v12
               /\ <<"cut", i>> \notin v12 => p.used = Desk!UsedInRows(i) + Desk!RowsToCome(i)
  BY <1>4, <1>9 DEF AccountMeans, CreditMeans
<1>10. \A i \in Desk!Ids : v1[i].deleted /\ v1[i].credit > 0 => <<"sold to removed", i>> \in v12
  BY <1>4 DEF AccountMeans
<1> QED BY <1>3, <1>5, <1>6, <1>7, <1>8, <1>9, <1>10, Zenon DEF Desk!DeskKeepsBooks

====
