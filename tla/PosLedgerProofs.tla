---- MODULE PosLedgerProofs ----
(***************************************************************************)
(* What PosLedger guarantees for any number of customers, requests, edits  *)
(* and payment attempts, whatever the amounts.                             *)
(***************************************************************************)
EXTENDS PosLedger, SumTheorems, SequenceTheorems

(***************************************************************************)
(* The rows an action writes have their types.  A request never uses more  *)
(* points than the customer has.                                           *)
(***************************************************************************)
RedeemRow == [cust : Customers, sale : Nat, pts : Nat, reversed : BOOLEAN]
DrawerRow == [type : {"sale", "refund", "payment_in"}, amount : Int, ref : DOMAIN sales \cup Keys]

Base == TypeOK /\ BalancesNonNegative

LEMMA DivNat == \A n \in Nat, d \in Nat \ {0} : n \div d \in Nat
  OBVIOUS

LEMMA PointsType ==
  ASSUME Base, NEW p \in Payloads
  PROVE  /\ Points(p) \in Nat
         /\ p.cust = NoCust => Points(p) = 0
         /\ p.cust # NoCust => Points(p) <= cust[p.cust].points
  BY PosAssumption DEF Base, TypeOK, BalancesNonNegative, Points, Least

LEMMA NewSaleType ==
  ASSUME Base, NEW p \in Payloads
  PROVE  NewSale(p) \in SaleRow
  <1>1. Points(p) \in Nat /\ {p.net, p.cash, p.other, p.pts, p.qty} \subseteq Nat
    BY PointsType, PosAssumption
  <1>2. Total(p) \in Nat /\ Paid(p) \in Nat
    BY <1>1 DEF Total, Paid, Positive
  <1>3. Status(p) \in Statuses
    BY DEF Status, Statuses
  <1>4. p.cust \in Customers \cup {NoCust} /\ p.method \in Methods
    BY PosAssumption
  <1> QED
    BY <1>1, <1>2, <1>3, <1>4 DEF NewSale, SaleRow

LEMMA AmountsType ==
  ASSUME NEW s \in SaleRow
  PROVE  Owes(s) \in Nat /\ Spends(s) \in Nat /\ Awards(s) \in Nat /\ DrawerCash(s) \in Nat
  <1>1. Awards(s) \in Nat
    BY PosAssumption, DivNat DEF SaleRow, Awards
  <1> QED
    BY <1>1 DEF SaleRow, Owes, Spends, DrawerCash, Positive

(***************************************************************************)
(* Growing a table keeps its rows and the ids that point into it.          *)
(***************************************************************************)
CustRow == [row : {"none", "live", "deleted"}, points : Int,
            credit : Int, spent : Int, redeemed : Int]

LEMMA SaleAppended ==
  ASSUME TypeOK, NEW s \in SaleRow, sales' = Append(sales, s)
  PROVE  /\ sales' \in Seq(SaleRow)
         /\ Len(sales) \in Nat
         /\ Len(sales') = Len(sales) + 1
         /\ DOMAIN sales = 1 .. Len(sales)
         /\ DOMAIN sales' = DOMAIN sales \cup {Len(sales) + 1}
         /\ Len(sales) + 1 \notin DOMAIN sales
         /\ sales'[Len(sales) + 1] = s
         /\ \A id \in DOMAIN sales : sales'[id] = sales[id]
  BY DEF TypeOK

LEMMA SaleChanged ==
  ASSUME TypeOK, NEW id \in DOMAIN sales, NEW r \in SaleRow,
         sales' = [sales EXCEPT ![id] = r]
  PROVE  /\ sales' \in Seq(SaleRow)
         /\ DOMAIN sales' = DOMAIN sales
         /\ Len(sales') = Len(sales)
         /\ sales'[id] = r
         /\ \A k \in DOMAIN sales : k # id => sales'[k] = sales[k]
  BY ExceptSeq, LenProperties DEF TypeOK

LEMMA RowsAppended ==
  ASSUME NEW R, NEW t \in Seq(R), NEW r \in R
  PROVE  /\ Append(t, r) \in Seq(R)
         /\ t \o <<r>> = Append(t, r)
         /\ DOMAIN t = 1 .. Len(t) /\ Len(t) \in Nat
         /\ DOMAIN Append(t, r) = DOMAIN t \cup {Len(t) + 1}
         /\ Append(t, r)[Len(t) + 1] = r
         /\ \A i \in DOMAIN t : Append(t, r)[i] = t[i]
  <1>1. t \o <<r>> = Append(t, r)
    <2>1. <<r>> \in Seq(R) /\ Len(<<r>>) = 1 /\ <<r>>[1] = r
      OBVIOUS
    <2>2. Append(t, r) \in Seq(R) /\ Len(Append(t, r)) = Len(t) + 1
      OBVIOUS
    <2>3. t \o <<r>> \in Seq(R) /\ Len(t \o <<r>>) = Len(t) + 1
      BY <2>1, ConcatProperties
    <2>4. \A i \in 1 .. Len(t) + 1 : (t \o <<r>>)[i] = Append(t, r)[i]
      BY <2>1, ConcatProperties
    <2> QED
      BY <2>2, <2>3, <2>4, SeqEqual
  <1> QED
    BY <1>1

LEMMA RowsMapped ==
  ASSUME NEW R, NEW t, NEW Q, t \in Seq(Q), NEW u, DOMAIN u = DOMAIN t,
         u = [i \in DOMAIN t |-> u[i]], \A i \in DOMAIN t : u[i] \in R
  PROVE  u \in Seq(R) /\ Len(u) = Len(t)
  <1>1. DOMAIN t = 1 .. Len(t) /\ Len(t) \in Nat
    OBVIOUS
  <1>2. u \in [1 .. Len(t) -> R]
    BY <1>1
  <1> QED
    BY <1>1, <1>2, SeqDef

(***************************************************************************)
(* Types and floors.  Points are taken only as far as they go, and every   *)
(* reversal and payment stops at zero; the two are one invariant, since a  *)
(* negative balance would make a negative redemption.                      *)
(***************************************************************************)
RowRefs == [cust : Customers, sale : 0 .. Len(sales), pts : Nat, reversed : BOOLEAN]

Floors == [row : {"none", "live", "deleted"}, points : Nat,
           credit : Nat, spent : Nat, redeemed : Nat]

BaseRows ==
    /\ sales \in Seq(SaleRow)
    /\ stock \in Int
    /\ cust \in [Customers -> Floors]
    /\ redeem \in Seq(RowRefs)
    /\ drawer \in Seq(DrawerRow)
    /\ payRows \subseteq Keys
    /\ pay \in [PayAttempts -> {"idle", "checked", "inserted", "settled", "acked", "lost"}]
    /\ orphaned \subseteq Customers

LEMMA BaseParts == Base <=> BaseRows
  <1>1. (cust \in [Customers -> CustRow] /\ BalancesNonNegative) <=> cust \in [Customers -> Floors]
    BY DEF CustRow, Floors, BalancesNonNegative
  <1> QED
    BY <1>1 DEF Base, BaseRows, TypeOK, CustRow, RowRefs, DrawerRow

LEMMA BasePartsNext == Base' <=> BaseRows'
  BY BaseParts, PTL

LEMMA LinkedType ==
  ASSUME NEW n \in Nat, NEW c \in Customers,
         NEW rows \in Seq([cust : Customers, sale : 0 .. n, pts : Nat, reversed : BOOLEAN])
  PROVE  Linked(rows, c, n + 1)
           \in Seq([cust : Customers, sale : 0 .. n + 1, pts : Nat, reversed : BOOLEAN])
  <1> DEFINE R(m) == [cust : Customers, sale : 0 .. m, pts : Nat, reversed : BOOLEAN]
             u == Linked(rows, c, n + 1)
  <1>1. \A i \in DOMAIN rows : rows[i] \in R(n)
    BY ElementOfSeq, LenProperties
  <1>2. DOMAIN u = DOMAIN rows /\ u = [i \in DOMAIN rows |-> u[i]]
    BY DEF Linked
  <1>3. ASSUME NEW i \in DOMAIN rows PROVE u[i] \in R(n + 1)
    <2>1. rows[i] \in R(n)
      BY <1>1
    <2>2. u[i] = rows[i] \/ u[i] = [rows[i] EXCEPT !.sale = n + 1]
      BY DEF Linked
    <2>3. rows[i].cust \in Customers /\ rows[i].sale \in 0 .. n + 1 /\ n + 1 \in 0 .. n + 1
            /\ rows[i].pts \in Nat /\ rows[i].reversed \in BOOLEAN
      BY <2>1
    <2> HIDE DEF u
    <2>4. rows[i] = [cust |-> rows[i].cust, sale |-> rows[i].sale,
                     pts |-> rows[i].pts, reversed |-> rows[i].reversed]
      BY <2>1
    <2>5. [rows[i] EXCEPT !.sale = n + 1] = [cust |-> rows[i].cust, sale |-> n + 1,
                     pts |-> rows[i].pts, reversed |-> rows[i].reversed]
      BY <2>1
    <2>6. CASE u[i] = rows[i]
      BY <2>3, <2>4, <2>6
    <2>7. CASE u[i] = [rows[i] EXCEPT !.sale = n + 1]
      BY <2>3, <2>5, <2>7
    <2> QED
      BY <2>2, <2>6, <2>7
  <1> HIDE DEF u, R
  <1>4. u \in Seq(R(n + 1))
    BY <1>2, <1>3, RowsMapped
  <1> QED
    BY <1>4 DEF u, R

LEMMA RedeemedType ==
  ASSUME NEW f \in [Customers -> Floors], NEW c \in Customers,
         NEW n \in Nat, n <= f[c].points
  PROVE  [f EXCEPT ![c].row = IF @ = "none" THEN "live" ELSE @,
                   ![c].points = @ - n,
                   ![c].redeemed = @ + n] \in [Customers -> Floors]
  <1>1. f[c] \in Floors
    OBVIOUS
  <1>2. f[c].points - n \in Nat /\ f[c].redeemed + n \in Nat
    BY <1>1 DEF Floors
  <1> QED
    BY <1>1, <1>2 DEF Floors

LEMMA CreateSaleBase ==
  ASSUME Base, NEW p \in Payloads, NEW pin \in BOOLEAN, CreateSale(p, pin)
  PROVE  Base'
  <1> DEFINE s == NewSale(p)
             id == Len(sales) + 1
             rows == redeem \o RedemptionRow(p.cust, 0, s.used)
  <1>1. s \in SaleRow
    BY NewSaleType
  <1>2. /\ sales' = Append(sales, s) /\ stock' = stock - s.qty
        /\ UNCHANGED <<payRows, pay, orphaned>>
    BY DEF CreateSale, NewSale
  <1>3. /\ sales' \in Seq(SaleRow) /\ Len(sales) \in Nat /\ Len(sales') = Len(sales) + 1
        /\ DOMAIN sales' = DOMAIN sales \cup {id}
    BY <1>1, <1>2, SaleAppended DEF Base
  <1>4. s.used = Points(p) /\ Points(p) \in Nat
    BY PointsType DEF NewSale
  <1>5. cust' \in [Customers -> Floors]
    <2>1. Owes(s) \in Nat /\ Spends(s) \in Nat /\ Awards(s) \in Nat
      BY <1>1, AmountsType
    <2>2. cust \in [Customers -> Floors]
      BY BaseParts DEF BaseRows
    <2>3. CASE p.cust = NoCust
      BY <2>2, <2>3 DEF CreateSale
    <2>4. CASE p.cust # NoCust
      <3>1. p.cust \in Customers /\ Points(p) <= cust[p.cust].points
        BY <2>4, PosAssumption, PointsType
      <3>2. cust' = [Redeemed(p) EXCEPT ![p.cust].credit = @ + Owes(s),
                                        ![p.cust].spent = @ + Spends(s),
                                        ![p.cust].points = @ + Awards(s)]
        BY <2>4 DEF CreateSale
      <3>3. Redeemed(p) \in [Customers -> Floors]
        BY <1>4, <2>2, <3>1, RedeemedType DEF Redeemed
      <3> HIDE DEF s
      <3> QED
        BY <2>1, <3>1, <3>2, <3>3 DEF Floors
    <2> QED
      BY <2>3, <2>4
  <1>6. redeem' \in Seq(RowRefs')
    <2>1. redeem \in Seq(RowRefs) /\ RowRefs \subseteq RowRefs'
      BY <1>3, BaseParts DEF BaseRows, RowRefs
    <2>2. CASE s.used > 0
      <3>1. p.cust \in Customers
        BY <1>4, <2>2, PosAssumption, PointsType
      <3>2. RedemptionRow(p.cust, 0, s.used)
              = <<[cust |-> p.cust, sale |-> 0, pts |-> s.used, reversed |-> FALSE]>>
        BY <2>2 DEF RedemptionRow
      <3>3. [cust |-> p.cust, sale |-> 0, pts |-> s.used, reversed |-> FALSE] \in RowRefs
        BY <1>3, <1>4, <3>1 DEF RowRefs
      <3>4. rows \in Seq(RowRefs)
        <4> DEFINE r == [cust |-> p.cust, sale |-> 0, pts |-> s.used, reversed |-> FALSE]
        <4>1. rows = redeem \o <<r>>
          BY <3>2
        <4>2. r \in RowRefs
          BY <3>3
        <4> HIDE DEF r, s, rows
        <4>3. redeem \o <<r>> \in Seq(RowRefs)
          BY <2>1, <4>2, RowsAppended
        <4> QED
          BY <4>1, <4>3
      <3>5. redeem' = Linked(rows, p.cust, Len(sales) + 1)
        BY <2>2 DEF CreateSale
      <3> HIDE DEF rows
      <3> QED
        BY <1>3, <3>1, <3>4, <3>5, LinkedType DEF RowRefs
    <2>3. CASE ~(s.used > 0)
      <3>1. redeem' = redeem
        BY <2>3 DEF CreateSale
      <3> QED
        BY <2>1, <3>1, SeqMonotonic
    <2> QED
      BY <2>2, <2>3
  <1>7. drawer' \in Seq(DrawerRow')
    <2>1. drawer \in Seq(DrawerRow) /\ DrawerRow \subseteq DrawerRow'
      BY <1>3, BaseParts DEF BaseRows, DrawerRow
    <2>2. drawer \in Seq(DrawerRow')
      BY <2>1, SeqMonotonic
    <2>3. DrawerCash(s) \in Nat
      BY <1>1, AmountsType
    <2>4. [type |-> "sale", amount |-> DrawerCash(s), ref |-> id] \in DrawerRow'
      BY <1>3, <2>3 DEF DrawerRow
    <2>5. drawer' = drawer
            \/ drawer' = Append(drawer, [type |-> "sale", amount |-> DrawerCash(s), ref |-> id])
      BY DEF CreateSale
    <2> QED
      BY <2>2, <2>4, <2>5
  <1>8. stock' \in Int
    BY <1>1, <1>2, BaseParts DEF BaseRows, SaleRow
  <1> QED
    BY <1>2, <1>3, <1>5, <1>6, <1>7, <1>8, BaseParts, BasePartsNext DEF BaseRows

LEMMA BlockSaleBase ==
  ASSUME Base, NEW p \in Payloads, NEW pin \in BOOLEAN, BlockSale(p, pin)
  PROVE  Base'
  <1>1. /\ p.cust \in Customers /\ Points(p) \in Nat /\ Points(p) <= cust[p.cust].points
    BY PosAssumption, PointsType DEF BlockSale
  <1>2. /\ cust' = Redeemed(p)
        /\ redeem' = redeem \o RedemptionRow(p.cust, 0, Points(p))
        /\ orphaned' \in {orphaned, orphaned \cup {p.cust}}
        /\ UNCHANGED <<sales, stock, drawer, payRows, pay>>
    BY DEF BlockSale
  <1>3. cust' \in [Customers -> Floors]
    BY <1>1, <1>2, BaseParts, RedeemedType DEF BaseRows, Redeemed
  <1>4. redeem' \in Seq(RowRefs)
    <2> DEFINE r == [cust |-> p.cust, sale |-> 0, pts |-> Points(p), reversed |-> FALSE]
    <2>1. redeem \in Seq(RowRefs) /\ Len(sales) \in Nat
      BY BaseParts DEF BaseRows
    <2>2. r \in RowRefs
      BY <1>1, <2>1 DEF RowRefs
    <2>3. redeem' = redeem \o <<>> \/ redeem' = redeem \o <<r>>
      BY <1>2 DEF RedemptionRow
    <2> HIDE DEF r
    <2> QED
      BY <2>1, <2>2, <2>3, RowsAppended, ConcatEmptySeq
  <1> QED
    BY <1>1, <1>2, <1>3, <1>4, BaseParts, BasePartsNext DEF BaseRows, RowRefs, DrawerRow

LEMMA PositiveType == \A n \in Int : Positive(n) \in Nat /\ Positive(n) >= n
  BY DEF Positive

LEMMA RestoredType ==
  ASSUME cust \in [Customers -> Floors], NEW s \in SaleRow, s.cust \in Customers
  PROVE  Restored(s) \in [Customers -> Floors]
  <1> DEFINE c == s.cust
             r == cust[c]
  <1>1. Owes(s) \in Nat /\ Spends(s) \in Nat /\ Awards(s) \in Nat /\ s.used \in Nat
    BY AmountsType DEF SaleRow
  <1>2. r \in Floors /\ r.credit \in Nat /\ r.spent \in Nat /\ r.points \in Nat /\ r.redeemed \in Nat
    BY DEF Floors
  <1>3. /\ Positive(r.credit - Owes(s)) \in Nat /\ Positive(r.spent - Spends(s)) \in Nat
        /\ Positive(r.points - Awards(s)) + s.used \in Nat /\ Positive(r.redeemed - s.used) \in Nat
    BY <1>1, <1>2, PositiveType
  <1>4. Restored(s)[c] = [r EXCEPT !.credit = Positive(r.credit - Owes(s)),
                                   !.spent = Positive(r.spent - Spends(s)),
                                   !.points = Positive(r.points - Awards(s)) + s.used,
                                   !.redeemed = Positive(r.redeemed - s.used)]
    BY <1>2 DEF Restored, Floors
  <1>5. Restored(s)[c] \in Floors
    BY <1>2, <1>3, <1>4 DEF Floors
  <1>6. \A k \in Customers : k # c => Restored(s)[k] = cust[k]
    BY DEF Restored
  <1>7. Restored(s) = [k \in Customers |-> Restored(s)[k]]
    BY DEF Restored
  <1> QED
    BY <1>5, <1>6, <1>7

LEMMA ReverseBase ==
  ASSUME Base, NEW id \in DOMAIN sales, Reverse(id)
  PROVE  Base'
  <1> DEFINE s == sales[id]
             r == [s EXCEPT !.status = "refunded",
                            !.commission = IF @ = "due" THEN "reversed" ELSE @]
  <1>0. BaseRows
    BY BaseParts
  <1>1. s \in SaleRow
    BY <1>0 DEF BaseRows
  <1>2. r \in SaleRow
    BY <1>1 DEF SaleRow, Statuses
  <1>3. sales' = [sales EXCEPT ![id] = r]
    BY DEF Reverse
  <1>4. sales' \in Seq(SaleRow) /\ DOMAIN sales' = DOMAIN sales /\ Len(sales') = Len(sales)
    <2> HIDE DEF r
    <2> QED
      BY <1>2, <1>3, SaleChanged DEF Base
  <1>5. RowRefs' = RowRefs /\ DrawerRow' = DrawerRow
    BY <1>4 DEF RowRefs, DrawerRow
  <1>6. cust' \in [Customers -> Floors]
    <2>1. cust' = cust \/ (s.cust \in Customers /\ cust' = Restored(s))
      BY <1>1 DEF Reverse, SaleRow
    <2> HIDE DEF s
    <2> QED
      BY <1>0, <1>1, <2>1, RestoredType DEF BaseRows
  <1>7. redeem' \in Seq(RowRefs)
    <2>1. \A i \in DOMAIN redeem : redeem[i] \in RowRefs
      BY <1>0, ElementOfSeq, LenProperties DEF BaseRows
    <2>2. \A i \in DOMAIN redeem : [redeem[i] EXCEPT !.reversed = TRUE] \in RowRefs
      BY <2>1 DEF RowRefs
    <2>3. CASE redeem' = redeem
      BY <1>0, <2>3 DEF BaseRows
    <2>4. CASE redeem' = [i \in DOMAIN redeem |->
                            IF redeem[i].sale = id THEN [redeem[i] EXCEPT !.reversed = TRUE]
                            ELSE redeem[i]]
      <3>1. \A i \in DOMAIN redeem : redeem'[i] \in RowRefs
        BY <2>1, <2>2, <2>4
      <3>2. DOMAIN redeem' = DOMAIN redeem /\ redeem' = [i \in DOMAIN redeem |-> redeem'[i]]
        BY <2>4
      <3> QED
        BY <1>0, <3>1, <3>2, RowsMapped DEF BaseRows
    <2> QED
      BY <2>3, <2>4 DEF Reverse
  <1>8. drawer' \in Seq(DrawerRow)
    <2> DEFINE d == [type |-> "refund", amount |-> -DrawerCash(s), ref |-> id]
    <2>1. drawer \in Seq(DrawerRow)
      BY <1>0 DEF BaseRows
    <2>2. d \in DrawerRow
      BY <1>1, AmountsType DEF DrawerRow
    <2>3. drawer' = drawer \o <<>> \/ drawer' = drawer \o <<d>>
      BY DEF Reverse, RefundRow
    <2> HIDE DEF d
    <2> QED
      BY <2>1, <2>2, <2>3, RowsAppended, ConcatEmptySeq
  <1>9. stock' \in Int /\ UNCHANGED <<payRows, pay, orphaned>>
    BY <1>0, <1>1 DEF Reverse, BaseRows, SaleRow
  <1> QED
    BY <1>0, <1>4, <1>5, <1>6, <1>7, <1>8, <1>9, BasePartsNext DEF BaseRows

LEMMA EditBase ==
  ASSUME Base, NEW id \in DOMAIN sales,
         (\E e \in Edits : EditSale(id, e[1], e[2])) \/ (\E n \in Instalments : UpdateLayaway(id, n))
  PROVE  Base'
  <1>0. BaseRows
    BY BaseParts
  <1>1. sales[id] \in SaleRow
    BY <1>0 DEF BaseRows
  <1>2. PICK r \in SaleRow : sales' = [sales EXCEPT ![id] = r]
    <2>1. ASSUME NEW e \in Edits, EditSale(id, e[1], e[2])
          PROVE  \E r \in SaleRow : sales' = [sales EXCEPT ![id] = r]
      <3> DEFINE r == [sales[id] EXCEPT !.method = e[1], !.status = e[2], !.edited = TRUE]
      <3>1. e[1] \in Methods /\ e[2] \in Statuses
        BY PosAssumption
      <3>2. r \in SaleRow
        BY <1>1, <3>1 DEF SaleRow
      <3>3. sales' = [sales EXCEPT ![id] = r]
        BY <2>1 DEF EditSale
      <3> QED
        BY <3>2, <3>3
    <2>2. ASSUME NEW n \in Instalments, UpdateLayaway(id, n)
          PROVE  \E r \in SaleRow : sales' = [sales EXCEPT ![id] = r]
      <3> DEFINE s == sales[id]
                 left == (IF s.balance = 0 THEN s.total ELSE s.balance) - n
                 r == [s EXCEPT !.status = IF left <= 0 THEN "paid" ELSE "layaway",
                                !.balance = Positive(left), !.edited = TRUE]
      <3>1. left \in Int
        BY <1>1, PosAssumption DEF SaleRow
      <3>2. Positive(left) \in Nat
        BY <3>1, PositiveType
      <3>3. sales' = [sales EXCEPT ![id] = r]
        BY <2>2 DEF UpdateLayaway
      <3>4. r \in SaleRow
        <4> HIDE DEF left
        <4> QED
          BY <1>1, <3>2 DEF SaleRow, Statuses
      <3> QED
        BY <3>3, <3>4
    <2> QED
      BY <2>1, <2>2
  <1>3. /\ sales' \in Seq(SaleRow) /\ DOMAIN sales' = DOMAIN sales /\ Len(sales') = Len(sales)
        /\ UNCHANGED <<stock, cust, redeem, drawer, payRows, pay, orphaned>>
    BY <1>2, SaleChanged DEF Base, EditSale, UpdateLayaway
  <1> QED
    BY <1>0, <1>3, BasePartsNext DEF BaseRows, RowRefs, DrawerRow

LEMMA DeskBase ==
  ASSUME Base,
         \/ \E c \in Customers : DeleteCustomer(c)
         \/ \E a \in PayAttempts :
               PayCheck(a) \/ PayInsert(a) \/ PayCredit(a) \/ PayDrawer(a) \/ PayLost(a)
         \/ UNCHANGED vars
  PROVE  Base'
  <1>0. BaseRows
    BY BaseParts
  <1> SUFFICES BaseRows'
    BY BasePartsNext
  <1> USE DEF BaseRows, Books, Goes, RowRefs, DrawerRow
  <1>1. ASSUME NEW c \in Customers, DeleteCustomer(c) PROVE BaseRows'
    BY <1>0, <1>1 DEF DeleteCustomer, Floors
  <1>2. ASSUME NEW a \in PayAttempts, PayCheck(a) PROVE BaseRows'
    BY <1>0, <1>2 DEF PayCheck
  <1>3. ASSUME NEW a \in PayAttempts, PayInsert(a) PROVE BaseRows'
    BY <1>0, <1>3 DEF PayInsert, Keys
  <1>4. ASSUME NEW a \in PayAttempts, PayCredit(a) PROVE BaseRows'
    <2>1. PayCust \in Customers /\ PayAmount[a] \in Nat
      BY PosAssumption
    <2>0. cust[PayCust] \in Floors /\ cust[PayCust].credit - PayAmount[a] \in Int
      BY <1>0, <2>1 DEF Floors
    <2>2. Positive(cust[PayCust].credit - PayAmount[a]) \in Nat
      BY <2>0, PositiveType
    <2>3. cust' \in [Customers -> Floors]
      BY <1>0, <1>4, <2>1, <2>2 DEF PayCredit, Floors
    <2> QED
      BY <1>0, <1>4, <2>3 DEF PayCredit
  <1>5. ASSUME NEW a \in PayAttempts, PayDrawer(a) PROVE BaseRows'
    <2> DEFINE d == [type |-> "payment_in", amount |-> PayAmount[a], ref |-> PayKey[a]]
    <2>1. d \in DrawerRow
      BY PosAssumption DEF Keys
    <2>2. drawer' = Append(drawer, d)
      BY <1>5 DEF PayDrawer
    <2> HIDE DEF d
    <2>3. drawer' \in Seq(DrawerRow)
      BY <1>0, <2>1, <2>2, RowsAppended
    <2> QED
      BY <1>0, <1>5, <2>3 DEF PayDrawer
  <1>6. ASSUME NEW a \in PayAttempts, PayLost(a) PROVE BaseRows'
    BY <1>0, <1>6 DEF PayLost
  <1>7. CASE UNCHANGED vars
    BY <1>0, <1>7 DEF vars
  <1> QED
    BY <1>1, <1>2, <1>3, <1>4, <1>5, <1>6, <1>7

LEMMA BaseStep == Base /\ [Next]_vars => Base'
  BY CreateSaleBase, BlockSaleBase, ReverseBase, EditBase, DeskBase
  DEF Next, RefundSale, VoidSale

LEMMA BaseInit == Init => Base
  <1> SUFFICES ASSUME Init PROVE BaseRows
    BY BaseParts
  <1>1. cust \in [Customers -> Floors]
    BY PosAssumption DEF Init, Floors
  <1> QED
    BY <1>1, PosAssumption DEF Init, BaseRows

(***************************************************************************)
(* Every row keeps its type: ids name rows that exist, and no amount of    *)
(* points, cash or stock written by a handler is negative where the code   *)
(* takes it for a quantity.                                                *)
(***************************************************************************)
THEOREM TypeCorrect == Spec => []TypeOK
  <1>1. Base => TypeOK
    BY DEF Base
  <1> QED
    BY <1>1, BaseInit, BaseStep, PTL DEF Spec

(***************************************************************************)
(* No credit and no points of a customer go below zero, whatever is        *)
(* edited, refunded twice, blocked, paid or deleted on the way.            *)
(***************************************************************************)
THEOREM NoNegativeBalance == Spec => []BalancesNonNegative
  <1>1. Base => BalancesNonNegative
    BY DEF Base
  <1> QED
    BY <1>1, BaseInit, BaseStep, PTL DEF Spec

(***************************************************************************)
(* The cash of a sale.  A row that is not a payment names a sale that      *)
(* exists, so a new sale finds no row under its id; each handler appends   *)
(* at most one row.                                                        *)
(***************************************************************************)
DrawnBy(id) ==
    SumFunctionOnSet([i \in DOMAIN drawer |-> drawer[i].amount], SaleRows(id))

DrawerNamesSales ==
    \A i \in DOMAIN drawer : drawer[i].type # "payment_in" => drawer[i].ref \in DOMAIN sales

CashInv == Base /\ DrawerNamesSales /\ DrawerFollowsSales

LEMMA DrawnByType ==
  ASSUME Base
  PROVE  \A id : IsFiniteSet(SaleRows(id)) /\ DrawnBy(id) \in Int
  <1> SUFFICES ASSUME NEW id PROVE IsFiniteSet(SaleRows(id)) /\ DrawnBy(id) \in Int
    OBVIOUS
  <1> DEFINE amount == [i \in DOMAIN drawer |-> drawer[i].amount]
  <1>1. drawer \in Seq(DrawerRow)
    BY BaseParts DEF BaseRows
  <1>2. IsFiniteSet(DOMAIN drawer) /\ \A i \in DOMAIN drawer : drawer[i] \in DrawerRow
    BY <1>1, LenProperties, FS_Interval
  <1>3. IsFiniteSet(SaleRows(id))
    BY <1>2, FS_Subset DEF SaleRows
  <1>4. \A i \in SaleRows(id) : amount[i] \in Int
    BY <1>2 DEF SaleRows, DrawerRow
  <1> HIDE DEF amount
  <1>5. SumFunctionOnSet(amount, SaleRows(id)) \in Int
    BY <1>3, <1>4, SumType
  <1> QED
    BY <1>3, <1>5 DEF DrawnBy, amount

LEMMA DrawerAppended ==
  ASSUME Base, NEW d, d.amount \in Int, drawer' = Append(drawer, d)
  PROVE  \A id : DrawnBy(id)' = DrawnBy(id)
                    + (IF d.type # "payment_in" /\ d.ref = id THEN d.amount ELSE 0)
  <1> SUFFICES ASSUME NEW id
               PROVE  DrawnBy(id)' = DrawnBy(id)
                        + (IF d.type # "payment_in" /\ d.ref = id THEN d.amount ELSE 0)
    OBVIOUS
  <1> DEFINE F == [i \in DOMAIN drawer |-> drawer[i].amount]
             G == [i \in DOMAIN drawer' |-> drawer'[i].amount]
             S == SaleRows(id)
             n == Len(drawer) + 1
  <1>1. drawer \in Seq(DrawerRow)
    BY BaseParts DEF BaseRows
  <1>2. /\ DOMAIN drawer = 1 .. Len(drawer) /\ Len(drawer) \in Nat
        /\ DOMAIN drawer' = DOMAIN drawer \cup {n} /\ n \notin DOMAIN drawer
        /\ drawer'[n] = d
        /\ \A i \in DOMAIN drawer : drawer'[i] = drawer[i] /\ drawer[i] \in DrawerRow
    <2>1. drawer \in Seq(DrawerRow \cup {d}) /\ d \in DrawerRow \cup {d}
      BY <1>1, SeqMonotonic
    <2> QED
      BY <1>1, <2>1, RowsAppended, LenProperties, ElementOfSeq
  <1>3. IsFiniteSet(S) /\ DrawnBy(id) \in Int /\ S \subseteq DOMAIN drawer
    BY DrawnByType DEF SaleRows
  <1>4. \A i \in S : F[i] \in Int /\ G[i] = F[i]
    BY <1>2, <1>3 DEF DrawerRow
  <1>5. G[n] = d.amount /\ n \notin S
    BY <1>2, <1>3
  <1>6. DrawnBy(id) = SumFunctionOnSet(F, S) /\ DrawnBy(id)' = SumFunctionOnSet(G, SaleRows(id)')
    BY DEF DrawnBy
  <1>7. CASE d.type # "payment_in" /\ d.ref = id
    <2>1. SaleRows(id)' = S \cup {n}
      BY <1>2, <1>7 DEF SaleRows
    <2> HIDE DEF F, G, S, n
    <2>2. SumFunctionOnSet(G, S \cup {n}) = SumFunctionOnSet(F, S) + G[n]
      BY <1>3, <1>4, <1>5, SumJoin
    <2> QED
      BY <1>5, <1>6, <1>7, <2>1, <2>2
  <1>8. CASE ~(d.type # "payment_in" /\ d.ref = id)
    <2>1. SaleRows(id)' = S
      BY <1>2, <1>8 DEF SaleRows
    <2> HIDE DEF F, G, S
    <2>2. SumFunctionOnSet(G, S) = SumFunctionOnSet(F, S)
      BY <1>3, <1>4, SumEqual
    <2> QED
      BY <1>3, <1>6, <1>8, <2>1, <2>2
  <1> QED
    BY <1>7, <1>8

LEMMA NoRowsYet ==
  ASSUME Base, DrawerNamesSales, NEW id, id \notin DOMAIN sales
  PROVE  DrawnBy(id) = 0
  <1>1. SaleRows(id) = {}
    BY DEF SaleRows, DrawerNamesSales
  <1> QED
    BY <1>1, SumEmpty DEF DrawnBy

LEMMA CashByRows ==
  DrawerFollowsSales <=>
    \A id \in DOMAIN sales : ~sales[id].edited =>
      DrawnBy(id) = (IF Refunded(id) THEN 0 ELSE DrawerCash(sales[id]))
  BY DEF DrawerFollowsSales, DrawnBy

LEMMA CashByRowsNext ==
  DrawerFollowsSales' <=>
    \A id \in DOMAIN sales' : ~sales'[id].edited =>
      DrawnBy(id)' = (IF Refunded(id)' THEN 0 ELSE DrawerCash(sales'[id]))
  BY DEF DrawerFollowsSales, DrawnBy, DrawerCash

LEMMA SameDrawer == UNCHANGED drawer => \A id : DrawnBy(id)' = DrawnBy(id)
  BY DEF DrawnBy, SaleRows

LEMMA CreateSaleCash ==
  ASSUME CashInv, NEW p \in Payloads, NEW pin \in BOOLEAN, CreateSale(p, pin)
  PROVE  DrawerNamesSales' /\ DrawerFollowsSales'
  <1>0. PICK n, s : n = Len(sales) + 1 /\ s = NewSale(p)
    OBVIOUS
  <1> DEFINE d == [type |-> "sale", amount |-> DrawerCash(s), ref |-> n]
  <1>1. Base /\ s \in SaleRow /\ sales' = Append(sales, s)
    BY <1>0, NewSaleType DEF CashInv, CreateSale
  <1>2. /\ DOMAIN sales' = DOMAIN sales \cup {n} /\ n \notin DOMAIN sales
        /\ sales'[n] = s /\ \A id \in DOMAIN sales : sales'[id] = sales[id]
    BY <1>0, <1>1, SaleAppended DEF Base
  <1>3. DrawerCash(s) \in Nat
    BY <1>1, AmountsType
  <1>4. s.status # "refunded" /\ DrawnBy(n) = 0
    BY <1>0, <1>1, <1>2, NoRowsYet DEF NewSale, Status, CashInv
  <1>5. \A id \in DOMAIN sales : DrawnBy(id) \in Int
    BY <1>1, DrawnByType
  <1>6. CASE drawer' = Append(drawer, d)
    <2>1. \A id : DrawnBy(id)' = DrawnBy(id) + (IF n = id THEN DrawerCash(s) ELSE 0)
      BY <1>1, <1>3, <1>6, DrawerAppended
    <2>2. DrawnBy(n)' = DrawerCash(s) /\ \A id \in DOMAIN sales : DrawnBy(id)' = DrawnBy(id)
      <3>1. DrawnBy(n)' = DrawnBy(n) + DrawerCash(s)
        BY <2>1
      <3>2. \A id \in DOMAIN sales : DrawnBy(id)' = DrawnBy(id) + 0
        BY <1>2, <2>1
      <3> QED
        BY <1>3, <1>4, <1>5, <3>1, <3>2
    <2>3. DrawerNamesSales'
      <3>1. drawer \in Seq(DrawerRow \cup {d})
        BY <1>1, BaseParts, SeqMonotonic DEF BaseRows
      <3>2. /\ DOMAIN drawer' = DOMAIN drawer \cup {Len(drawer) + 1}
            /\ drawer'[Len(drawer) + 1] = d /\ \A i \in DOMAIN drawer : drawer'[i] = drawer[i]
        BY <1>6, <3>1, RowsAppended
      <3> QED
        BY <1>2, <3>2 DEF DrawerNamesSales, CashInv
    <2>4. ASSUME NEW id \in DOMAIN sales', ~sales'[id].edited
          PROVE  DrawnBy(id)' = (IF Refunded(id)' THEN 0 ELSE DrawerCash(sales'[id]))
      <3>1. CASE id = n
        BY <1>2, <1>4, <2>2, <3>1 DEF Refunded
      <3>2. CASE id \in DOMAIN sales
        BY <1>2, <2>2, <2>4, <3>2, CashByRows DEF CashInv, Refunded
      <3> QED
        BY <1>2, <3>1, <3>2
    <2> QED
      BY <2>3, <2>4, CashByRowsNext
  <1>7. CASE drawer' = drawer /\ ~(DrawerCash(s) > 0)
    <2>1. DrawerCash(s) = 0 /\ \A id : DrawnBy(id)' = DrawnBy(id)
      BY <1>3, <1>7, SameDrawer
    <2>3. DrawerNamesSales'
      BY <1>2, <1>7 DEF DrawerNamesSales, CashInv
    <2>4. ASSUME NEW id \in DOMAIN sales', ~sales'[id].edited
          PROVE  DrawnBy(id)' = (IF Refunded(id)' THEN 0 ELSE DrawerCash(sales'[id]))
      <3>1. CASE id = n
        BY <1>2, <1>4, <2>1, <3>1 DEF Refunded
      <3>2. CASE id \in DOMAIN sales
        BY <1>2, <2>1, <2>4, <3>2, CashByRows DEF CashInv, Refunded
      <3> QED
        BY <1>2, <3>1, <3>2
    <2> QED
      BY <2>3, <2>4, CashByRowsNext
  <1> QED
    BY <1>0, <1>6, <1>7 DEF CreateSale

LEMMA ReverseCash ==
  ASSUME CashInv, NEW id \in DOMAIN sales, Reverse(id)
  PROVE  DrawerNamesSales' /\ DrawerFollowsSales'
  <1> DEFINE s == sales[id]
             d == [type |-> "refund", amount |-> -DrawerCash(s), ref |-> id]
  <1>1. Base /\ s \in SaleRow
    BY BaseParts DEF CashInv, BaseRows
  <1>2. /\ DOMAIN sales' = DOMAIN sales
        /\ sales'[id].status = "refunded" /\ sales'[id].edited = s.edited
        /\ \A k \in DOMAIN sales : k # id => sales'[k] = sales[k]
    BY <1>1 DEF Reverse, SaleRow
  <1>3. DrawerCash(s) \in Nat
    BY <1>1, AmountsType
  <1>4. ~s.edited => DrawnBy(id) = DrawerCash(s)
    BY CashByRows DEF CashInv, Refunded, Reverse, Reversible
  <1>5. \A k : DrawnBy(k) \in Int
    BY <1>1, DrawnByType
  <1>6. DrawerNamesSales' /\ DrawnBy(id)' = DrawnBy(id) - DrawerCash(s)
          /\ \A k : k # id => DrawnBy(k)' = DrawnBy(k)
    <2>1. CASE DrawerCash(s) > 0
      <3>1. drawer' = drawer \o <<d>>
        BY <2>1 DEF Reverse, RefundRow
      <3>2. drawer \in Seq(DrawerRow \cup {d})
        BY <1>1, BaseParts, SeqMonotonic DEF BaseRows
      <3>3. /\ drawer' = Append(drawer, d)
            /\ DOMAIN drawer' = DOMAIN drawer \cup {Len(drawer) + 1}
            /\ drawer'[Len(drawer) + 1] = d /\ \A i \in DOMAIN drawer : drawer'[i] = drawer[i]
        BY <3>1, <3>2, RowsAppended
      <3>4. DrawerNamesSales'
        BY <1>2, <3>3 DEF DrawerNamesSales, CashInv
      <3>5. \A k : DrawnBy(k)' = DrawnBy(k) + (IF id = k THEN -DrawerCash(s) ELSE 0)
        BY <1>1, <1>3, <3>3, DrawerAppended
      <3> QED
        BY <1>3, <1>5, <3>4, <3>5
    <2>2. CASE ~(DrawerCash(s) > 0)
      <3>1. drawer' = drawer \o <<>>
        BY <2>2 DEF Reverse, RefundRow
      <3>2. drawer' = drawer
        BY <1>1, <3>1, BaseParts, ConcatEmptySeq DEF BaseRows
      <3>3. DrawerCash(s) = 0 /\ \A k : DrawnBy(k)' = DrawnBy(k)
        BY <1>3, <2>2, <3>2, SameDrawer
      <3> QED
        BY <1>2, <1>5, <3>2, <3>3 DEF DrawerNamesSales, CashInv
    <2> QED
      BY <2>1, <2>2
  <1>7. ASSUME NEW k \in DOMAIN sales', ~sales'[k].edited
        PROVE  DrawnBy(k)' = (IF Refunded(k)' THEN 0 ELSE DrawerCash(sales'[k]))
    <2>1. CASE k = id
      BY <1>2, <1>3, <1>4, <1>6, <1>7, <2>1 DEF Refunded
    <2>2. CASE k # id
      BY <1>2, <1>6, <1>7, <2>2, CashByRows DEF CashInv, Refunded
    <2> QED
      BY <2>1, <2>2
  <1> QED
    BY <1>6, <1>7, CashByRowsNext

LEMMA CashStep == CashInv /\ [Next]_vars => CashInv'
  <1> SUFFICES ASSUME CashInv, [Next]_vars PROVE DrawerNamesSales' /\ DrawerFollowsSales'
    BY BaseStep DEF CashInv
  <1>0. Base /\ BaseRows
    BY BaseParts DEF CashInv
  <1>1. ASSUME NEW p \in Payloads, NEW pin \in BOOLEAN, BlockSale(p, pin)
        PROVE  DrawerNamesSales' /\ DrawerFollowsSales'
    BY <1>1 DEF BlockSale, CashInv, DrawerNamesSales, DrawerFollowsSales, SaleRows, Refunded, DrawerCash
  <1>2. ASSUME NEW id \in DOMAIN sales,
               (\E e \in Edits : EditSale(id, e[1], e[2]))
                 \/ (\E n \in Instalments : UpdateLayaway(id, n))
        PROVE  DrawerNamesSales' /\ DrawerFollowsSales'
    <2>1. /\ DOMAIN sales' = DOMAIN sales /\ sales'[id].edited /\ drawer' = drawer
          /\ \A k \in DOMAIN sales : k # id => sales'[k] = sales[k]
      <3>0. sales[id] \in SaleRow
        BY <1>0 DEF BaseRows
      <3>1. ASSUME NEW e \in Edits, EditSale(id, e[1], e[2])
            PROVE  sales'[id].edited /\ \A k \in DOMAIN sales : k # id => sales'[k] = sales[k]
        BY <3>0, <3>1 DEF EditSale, SaleRow
      <3>2. ASSUME NEW n \in Instalments, UpdateLayaway(id, n)
            PROVE  sales'[id].edited /\ \A k \in DOMAIN sales : k # id => sales'[k] = sales[k]
        BY <3>0, <3>2 DEF UpdateLayaway, SaleRow
      <3>3. DOMAIN sales' = DOMAIN sales /\ drawer' = drawer
        BY <1>2 DEF EditSale, UpdateLayaway
      <3> QED
        BY <1>2, <3>1, <3>2, <3>3
    <2>2. DrawerNamesSales'
      BY <2>1 DEF CashInv, DrawerNamesSales
    <2>3. \A k : DrawnBy(k)' = DrawnBy(k)
      BY <2>1, SameDrawer
    <2>4. DrawerFollowsSales'
      BY <2>1, <2>3, CashByRows, CashByRowsNext DEF CashInv, Refunded
    <2> QED
      BY <2>2, <2>4
  <1>3. ASSUME UNCHANGED <<sales, drawer>>
        PROVE  DrawerNamesSales' /\ DrawerFollowsSales'
    <2>1. \A k : DrawnBy(k)' = DrawnBy(k)
      BY <1>3, SameDrawer
    <2> QED
      BY <1>3, <2>1, CashByRows, CashByRowsNext DEF CashInv, Refunded, DrawerNamesSales
  <1>4. ASSUME NEW a \in PayAttempts, PayDrawer(a)
        PROVE  DrawerNamesSales' /\ DrawerFollowsSales'
    <2> DEFINE d == [type |-> "payment_in", amount |-> PayAmount[a], ref |-> PayKey[a]]
    <2>1. drawer' = Append(drawer, d) /\ sales' = sales /\ PayAmount[a] \in Int
      BY <1>4, PosAssumption DEF PayDrawer, Books
    <2>2. drawer \in Seq(DrawerRow \cup {d})
      BY <1>0, SeqMonotonic DEF BaseRows
    <2>3. /\ DOMAIN drawer' = DOMAIN drawer \cup {Len(drawer) + 1}
          /\ drawer'[Len(drawer) + 1] = d /\ \A i \in DOMAIN drawer : drawer'[i] = drawer[i]
      BY <2>1, <2>2, RowsAppended
    <2>4. DrawerNamesSales'
      BY <2>1, <2>3 DEF CashInv, DrawerNamesSales
    <2>5. \A k : DrawnBy(k)' = DrawnBy(k)
      BY <1>0, <2>1, DrawerAppended, DrawnByType
    <2> QED
      BY <2>1, <2>4, <2>5, CashByRows, CashByRowsNext DEF CashInv, Refunded
  <1>5. ASSUME NEW c \in Customers, DeleteCustomer(c) PROVE UNCHANGED <<sales, drawer>>
    BY <1>5 DEF DeleteCustomer
  <1>6. ASSUME NEW a \in PayAttempts, PayCheck(a) \/ PayInsert(a) \/ PayCredit(a) \/ PayLost(a)
        PROVE  UNCHANGED <<sales, drawer>>
    BY <1>6 DEF PayCheck, PayInsert, PayCredit, PayLost, Books
  <1>7. UNCHANGED vars => UNCHANGED <<sales, drawer>>
    BY DEF vars
  <1> QED
    BY CreateSaleCash, ReverseCash, <1>1, <1>2, <1>3, <1>4, <1>5, <1>6, <1>7
    DEF Next, RefundSale, VoidSale

(***************************************************************************)
(* The drawer follows the sales: whatever is sold, refunded, voided, paid  *)
(* and deleted in whatever order, the rows of an unedited sale add up to   *)
(* the cash it brought in, or to nothing once it is reversed.              *)
(***************************************************************************)
THEOREM DrawerAddsUp == Spec => []DrawerFollowsSales
  <1>1. Init => CashInv
    BY BaseInit DEF Init, CashInv, DrawerNamesSales, DrawerFollowsSales
  <1>2. CashInv => DrawerFollowsSales
    BY DEF CashInv
  <1> QED
    BY <1>1, <1>2, CashStep, PTL DEF Spec

(***************************************************************************)
(* What a sale and a reversal do to the set of standing sales.             *)
(***************************************************************************)
LEMMA SalesFinite ==
  ASSUME Base
  PROVE  /\ IsFiniteSet(Standing) /\ Standing \subseteq DOMAIN sales
         /\ \A c : IsFiniteSet(OpenSales(c)) /\ OpenSales(c) \subseteq Standing
         /\ \A id \in DOMAIN sales : sales[id] \in SaleRow
  <1>1. sales \in Seq(SaleRow)
    BY BaseParts DEF BaseRows
  <1>2. IsFiniteSet(DOMAIN sales) /\ \A id \in DOMAIN sales : sales[id] \in SaleRow
    BY <1>1, LenProperties, FS_Interval
  <1>3. Standing \subseteq DOMAIN sales /\ \A c : OpenSales(c) \subseteq Standing
    BY DEF Standing, OpenSales
  <1> QED
    BY <1>2, <1>3, FS_Subset

LEMMA SaleOpens ==
  ASSUME Base, NEW p \in Payloads, NEW pin \in BOOLEAN, CreateSale(p, pin),
         NEW n, n = Len(sales) + 1, NEW s, s = NewSale(p)
  PROVE  /\ s \in SaleRow /\ s.status # "refunded" /\ ~s.edited
         /\ DOMAIN sales' = DOMAIN sales \cup {n} /\ n \notin DOMAIN sales
         /\ sales'[n] = s /\ \A id \in DOMAIN sales : sales'[id] = sales[id]
         /\ Standing' = Standing \cup {n}
         /\ \A c : OpenSales(c)' = IF s.cust = c THEN OpenSales(c) \cup {n} ELSE OpenSales(c)
  <1>1. s \in SaleRow /\ s.status # "refunded" /\ ~s.edited /\ sales' = Append(sales, s)
    BY NewSaleType DEF NewSale, Status, CreateSale
  <1>2. /\ DOMAIN sales' = DOMAIN sales \cup {n} /\ n \notin DOMAIN sales
        /\ sales'[n] = s /\ \A id \in DOMAIN sales : sales'[id] = sales[id]
    BY <1>1, SaleAppended DEF Base
  <1>3. Standing' = Standing \cup {n}
    BY <1>1, <1>2 DEF Standing, Refunded
  <1>4. ASSUME NEW c
        PROVE  OpenSales(c)' = IF s.cust = c THEN OpenSales(c) \cup {n} ELSE OpenSales(c)
    BY <1>2, <1>3 DEF OpenSales, Standing
  <1> QED
    BY <1>1, <1>2, <1>3, <1>4

LEMMA SaleCloses ==
  ASSUME Base, NEW id \in DOMAIN sales, Reverse(id)
  PROVE  /\ id \in Standing
         /\ DOMAIN sales' = DOMAIN sales
         /\ \A k \in DOMAIN sales : k # id => sales'[k] = sales[k]
         /\ \A k \in DOMAIN sales : /\ sales'[k].edited = sales[k].edited
                                    /\ sales'[k].cust = sales[k].cust
                                    /\ sales'[k].used = sales[k].used
         /\ Standing' = Standing \ {id}
         /\ \A c : OpenSales(c)' = OpenSales(c) \ {id}
  <1>1. sales[id] \in SaleRow
    BY SalesFinite
  <1>2. /\ DOMAIN sales' = DOMAIN sales
        /\ sales'[id].status = "refunded" /\ sales'[id].edited = sales[id].edited
        /\ sales'[id].cust = sales[id].cust /\ sales'[id].used = sales[id].used
        /\ \A k \in DOMAIN sales : k # id => sales'[k] = sales[k]
    BY <1>1 DEF Reverse, SaleRow
  <1>3. id \in Standing
    BY DEF Standing, Refunded, Reverse, Reversible
  <1>4. Standing' = Standing \ {id}
    BY <1>2 DEF Standing, Refunded
  <1>5. ASSUME NEW c PROVE OpenSales(c)' = OpenSales(c) \ {id}
    BY <1>2, <1>4 DEF OpenSales, Standing
  <1> QED
    BY <1>2, <1>3, <1>4, <1>5

LEMMA EditMarks ==
  ASSUME Base, NEW id \in DOMAIN sales,
         (\E e \in Edits : EditSale(id, e[1], e[2])) \/ (\E n \in Instalments : UpdateLayaway(id, n))
  PROVE  /\ DOMAIN sales' = DOMAIN sales /\ sales'[id].edited
         /\ sales'[id].cust = sales[id].cust /\ sales'[id].used = sales[id].used
         /\ \A k \in DOMAIN sales : k # id => sales'[k] = sales[k]
         /\ UNCHANGED <<stock, cust, redeem, drawer, payRows, pay, orphaned>>
  <1>0. sales[id] \in SaleRow
    BY SalesFinite
  <1>1. ASSUME NEW e \in Edits, EditSale(id, e[1], e[2])
        PROVE  /\ sales'[id].edited /\ sales'[id].cust = sales[id].cust /\ sales'[id].used = sales[id].used
               /\ \A k \in DOMAIN sales : k # id => sales'[k] = sales[k]
    BY <1>0, <1>1 DEF EditSale, SaleRow
  <1>2. ASSUME NEW n \in Instalments, UpdateLayaway(id, n)
        PROVE  /\ sales'[id].edited /\ sales'[id].cust = sales[id].cust /\ sales'[id].used = sales[id].used
               /\ \A k \in DOMAIN sales : k # id => sales'[k] = sales[k]
    BY <1>0, <1>2 DEF UpdateLayaway, SaleRow
  <1>3. /\ DOMAIN sales' = DOMAIN sales
        /\ UNCHANGED <<stock, cust, redeem, drawer, payRows, pay, orphaned>>
    BY DEF EditSale, UpdateLayaway
  <1> QED
    BY <1>1, <1>2, <1>3

(***************************************************************************)
(* The stock of the sales.                                                 *)
(***************************************************************************)
QtySold == SumFunctionOnSet([id \in DOMAIN sales |-> sales[id].qty], Standing)
NobodyEdited == \A id \in DOMAIN sales : ~sales[id].edited

StockFollows == NobodyEdited => stock = InitStock - QtySold

LEMMA QtySoldType == Base => QtySold \in Int
  <1> SUFFICES ASSUME Base PROVE QtySold \in Int
    OBVIOUS
  <1> DEFINE F == [id \in DOMAIN sales |-> sales[id].qty]
             S == Standing
  <1>1. IsFiniteSet(S) /\ \A id \in S : F[id] \in Int
    BY SalesFinite DEF SaleRow
  <1> HIDE DEF F, S
  <1>2. SumFunctionOnSet(F, S) \in Int
    BY <1>1, SumType
  <1> QED
    BY <1>2 DEF QtySold, F, S

LEMMA StockFollowsStep == Base /\ StockFollows /\ [Next]_vars => StockFollows'
  <1> SUFFICES ASSUME Base, StockFollows, [Next]_vars, NobodyEdited'
               PROVE  stock' = InitStock - QtySold'
    BY DEF StockFollows
  <1>0. QtySold \in Int /\ InitStock \in Int /\ stock \in Int
    BY QtySoldType, BaseParts, PosAssumption DEF BaseRows
  <1>1. ASSUME NEW p \in Payloads, NEW pin \in BOOLEAN, CreateSale(p, pin)
        PROVE  stock' = InitStock - QtySold'
    <2>0. PICK n, s : n = Len(sales) + 1 /\ s = NewSale(p)
      OBVIOUS
    <2> DEFINE F == [id \in DOMAIN sales |-> sales[id].qty]
               G == [id \in DOMAIN sales' |-> sales'[id].qty]
               S == Standing
    <2>1. /\ s \in SaleRow
          /\ DOMAIN sales' = DOMAIN sales \cup {n} /\ n \notin DOMAIN sales
          /\ sales'[n] = s /\ \A id \in DOMAIN sales : sales'[id] = sales[id]
          /\ Standing' = S \cup {n}
      BY <1>1, <2>0, SaleOpens
    <2>2. IsFiniteSet(S) /\ S \subseteq DOMAIN sales /\ \A id \in S : F[id] \in Int
      BY SalesFinite DEF SaleRow
    <2>3. G[n] = s.qty /\ s.qty \in Int /\ n \notin S /\ \A id \in S : G[id] = F[id]
      BY <2>1, <2>2 DEF SaleRow
    <2>4. QtySold = SumFunctionOnSet(F, S) /\ QtySold' = SumFunctionOnSet(G, S \cup {n})
      BY <2>1 DEF QtySold
    <2>5. stock' = stock - s.qty /\ stock = InitStock - QtySold
      BY <1>1, <2>0, <2>1 DEF CreateSale, NewSale, StockFollows, NobodyEdited
    <2> HIDE DEF F, G, S
    <2>6. QtySold' = QtySold + s.qty
      BY <2>2, <2>3, <2>4, SumJoin
    <2> QED
      BY <1>0, <2>3, <2>5, <2>6
  <1>2. ASSUME NEW id \in DOMAIN sales, Reverse(id)
        PROVE  stock' = InitStock - QtySold'
    <2> DEFINE F == [k \in DOMAIN sales |-> sales[k].qty]
               G == [k \in DOMAIN sales' |-> sales'[k].qty]
               S == Standing
               T == Standing'
    <2>1. /\ id \in S /\ DOMAIN sales' = DOMAIN sales
          /\ \A k \in DOMAIN sales : k # id => sales'[k] = sales[k]
          /\ \A k \in DOMAIN sales : sales'[k].edited = sales[k].edited
          /\ T = S \ {id}
      BY <1>2, SaleCloses
    <2>2. IsFiniteSet(S) /\ S \subseteq DOMAIN sales /\ \A k \in S : F[k] \in Int
      BY SalesFinite DEF SaleRow
    <2>3. F[id] = sales[id].qty /\ F[id] \in Int /\ \A k \in T : G[k] = F[k]
      BY <2>1, <2>2
    <2>4. QtySold = SumFunctionOnSet(F, S) /\ QtySold' = SumFunctionOnSet(G, T)
      BY DEF QtySold
    <2>5. stock' = stock + sales[id].qty /\ stock = InitStock - QtySold
      BY <1>2, <2>1 DEF Reverse, StockFollows, NobodyEdited
    <2> HIDE DEF F, G, S, T
    <2>6. SumFunctionOnSet(G, T) = SumFunctionOnSet(F, S) - F[id]
      BY <2>1, <2>2, <2>3, SumLeave
    <2> QED
      BY <1>0, <2>3, <2>4, <2>5, <2>6
  <1>3. ASSUME NEW id \in DOMAIN sales,
               (\E e \in Edits : EditSale(id, e[1], e[2]))
                 \/ (\E n \in Instalments : UpdateLayaway(id, n))
        PROVE  FALSE
    BY <1>3, EditMarks DEF NobodyEdited
  <1>4. ASSUME UNCHANGED <<sales, stock>>
        PROVE  stock' = InitStock - QtySold'
    BY <1>4 DEF StockFollows, NobodyEdited, QtySold, Standing, Refunded
  <1>5. ASSUME NEW p \in Payloads, NEW pin \in BOOLEAN, BlockSale(p, pin)
        PROVE  UNCHANGED <<sales, stock>>
    BY <1>5 DEF BlockSale
  <1>6. ASSUME NEW c \in Customers, DeleteCustomer(c) PROVE UNCHANGED <<sales, stock>>
    BY <1>6 DEF DeleteCustomer
  <1>7. ASSUME NEW a \in PayAttempts,
               PayCheck(a) \/ PayInsert(a) \/ PayCredit(a) \/ PayDrawer(a) \/ PayLost(a)
        PROVE  UNCHANGED <<sales, stock>>
    BY <1>7 DEF PayCheck, PayInsert, PayCredit, PayDrawer, PayLost, Books
  <1>8. UNCHANGED vars => UNCHANGED <<sales, stock>>
    BY DEF vars
  <1> QED
    BY <1>1, <1>2, <1>3, <1>4, <1>5, <1>6, <1>7, <1>8 DEF Next, RefundSale, VoidSale

(***************************************************************************)
(* Stock follows the sales: a refund and a void return what the sale took, *)
(* and a sale is reversed at most once, however often it is tried.         *)
(***************************************************************************)
THEOREM StockAddsUp == Spec => []StockFollowsSales
  <1>1. Init => StockFollows
    <2> SUFFICES ASSUME Init PROVE stock = InitStock - QtySold
      BY DEF StockFollows
    <2>1. Standing = {}
      BY DEF Init, Standing
    <2>2. QtySold = 0
      BY <2>1, SumEmpty DEF QtySold
    <2> QED
      BY <2>2, PosAssumption DEF Init
  <1>2. StockFollows => StockFollowsSales
    BY DEF StockFollows, StockFollowsSales, NobodyEdited, QtySold
  <1>3. Base /\ StockFollows /\ [Next]_vars => Base' /\ StockFollows'
    BY BaseStep, StockFollowsStep
  <1> QED
    BY <1>1, <1>2, <1>3, BaseInit, PTL DEF Spec

(***************************************************************************)
(* The points.  A redemption row without a sale belongs to a customer who  *)
(* was answered 409, so nobody else's sale is linked to an older row, and  *)
(* a sale that used no points has no row.                                  *)
(***************************************************************************)
LooseRowsOrphan ==
    \A i \in DOMAIN redeem : redeem[i].sale = 0 => redeem[i].cust \in orphaned

RowsOnlyIfUsed == \A id \in DOMAIN sales : sales[id].used = 0 => RowsOf(id) = {}

RowsFollow ==
    \A c \in Customers \ orphaned : \A id \in DOMAIN sales :
        sales[id].cust = c /\ Untouched(c) =>
            /\ sales[id].used = UsedBy(id)
            /\ \A i \in RowsOf(id) : redeem[i].reversed <=> Refunded(id)

PointsFollow ==
    \A c \in Customers \ orphaned :
        Untouched(c) => cust[c].points >= OpeningPoints[c] + Earned(c)

RowsInv == Base /\ LooseRowsOrphan /\ RowsOnlyIfUsed /\ RowsFollow

LEMMA RedeemRows ==
  ASSUME Base
  PROVE  /\ DOMAIN redeem = 1 .. Len(redeem) /\ Len(redeem) \in Nat
         /\ \A i \in DOMAIN redeem : redeem[i] \in RowRefs
         /\ \A id : IsFiniteSet(RowsOf(id)) /\ RowsOf(id) \subseteq DOMAIN redeem
         /\ \A id : id \notin 0 .. Len(sales) => RowsOf(id) = {}
         /\ DOMAIN sales = 1 .. Len(sales) /\ Len(sales) \in Nat
  <1>1. redeem \in Seq(RowRefs) /\ sales \in Seq(SaleRow)
    BY BaseParts DEF BaseRows
  <1>2. /\ DOMAIN redeem = 1 .. Len(redeem) /\ Len(redeem) \in Nat
        /\ \A i \in DOMAIN redeem : redeem[i] \in RowRefs
        /\ DOMAIN sales = 1 .. Len(sales) /\ Len(sales) \in Nat
    BY <1>1, LenProperties, ElementOfSeq
  <1>3. \A id : RowsOf(id) \subseteq DOMAIN redeem
    BY DEF RowsOf
  <1>4. \A id : IsFiniteSet(RowsOf(id))
    <2>1. IsFiniteSet(DOMAIN redeem)
      BY <1>2, FS_Interval
    <2> QED
      BY <1>3, <2>1, FS_Subset
  <1>5. ASSUME NEW id, id \notin 0 .. Len(sales) PROVE RowsOf(id) = {}
    BY <1>2, <1>5 DEF RowsOf, RowRefs
  <1> QED
    BY <1>2, <1>3, <1>4, <1>5

LEMMA UsedKept ==
  ASSUME Base, NEW k, RowsOf(k)' = RowsOf(k),
         \A i \in RowsOf(k) : redeem'[i].pts = redeem[i].pts
  PROVE  UsedBy(k)' = UsedBy(k)
  <1> DEFINE F == [i \in DOMAIN redeem |-> redeem[i].pts]
             G == [i \in DOMAIN redeem' |-> redeem'[i].pts]
             S == RowsOf(k)
  <1>1. IsFiniteSet(S) /\ S \subseteq DOMAIN redeem
    BY RedeemRows
  <1>2. S \subseteq DOMAIN redeem'
    BY DEF RowsOf
  <1>3. \A i \in S : G[i] = F[i]
    BY <1>1, <1>2
  <1>4. UsedBy(k) = SumFunctionOnSet(F, S) /\ UsedBy(k)' = SumFunctionOnSet(G, S)
    BY DEF UsedBy
  <1> HIDE DEF F, G, S
  <1> QED
    BY <1>1, <1>3, <1>4, SumEqual

LEMMA SaleRedeems ==
  ASSUME RowsInv, NEW p \in Payloads, NEW pin \in BOOLEAN, CreateSale(p, pin),
         NEW n, n = Len(sales) + 1, NEW s, s = NewSale(p)
  PROVE  /\ LooseRowsOrphan'
         /\ \A k \in DOMAIN sales : RowsOf(k)' = RowsOf(k) /\ \A i \in RowsOf(k) : redeem'[i] = redeem[i]
         /\ s.used = 0 => RowsOf(n)' = {}
         /\ s.cust \notin orphaned => /\ UsedBy(n)' = s.used
                                      /\ \A i \in RowsOf(n)' : ~redeem'[i].reversed
  <1>1. /\ DOMAIN redeem = 1 .. Len(redeem) /\ Len(redeem) \in Nat
        /\ \A i \in DOMAIN redeem : redeem[i] \in RowRefs
        /\ RowsOf(n) = {} /\ n \notin DOMAIN sales /\ n # 0
        /\ \A k \in DOMAIN sales : k # 0
    BY RedeemRows DEF RowsInv
  <1>2. s \in SaleRow /\ s.used = Points(p) /\ s.used \in Nat /\ s.cust = p.cust /\ orphaned' = orphaned
    BY NewSaleType DEF RowsInv, CreateSale, NewSale, SaleRow
  <1>3. CASE s.used = 0
    <2>1. redeem' = redeem
      BY <1>2, <1>3 DEF CreateSale, NewSale
    <2>2. \A k : RowsOf(k)' = {i \in DOMAIN redeem : redeem[i].sale = k}
      BY <2>1 DEF RowsOf
    <2>3. RowsOf(n)' = {} /\ \A k \in DOMAIN sales : RowsOf(k)' = RowsOf(k)
      BY <1>1, <2>2 DEF RowsOf
    <2>4. UsedBy(n)' = 0
      BY <2>3, SumEmpty DEF UsedBy
    <2> QED
      BY <1>2, <1>3, <2>1, <2>3, <2>4 DEF RowsInv, LooseRowsOrphan
  <1>4. CASE s.used > 0
    <2>0. PICK c, r, m : c = p.cust /\ m = Len(redeem) + 1
                           /\ r = [cust |-> c, sale |-> 0, pts |-> s.used, reversed |-> FALSE]
      OBVIOUS
    <2> DEFINE rows == Append(redeem, r)
    <2>1. /\ rows = redeem \o <<r>> /\ DOMAIN rows = DOMAIN redeem \cup {m} /\ rows[m] = r
          /\ \A i \in DOMAIN redeem : rows[i] = redeem[i]
      <3>1. redeem \in Seq(RowRefs \cup {r})
        BY BaseParts, SeqMonotonic DEF RowsInv, BaseRows
      <3>2. m = Len(redeem) + 1
        BY <2>0
      <3> QED
        BY ONLY <3>1, <3>2, RowsAppended
    <2>2. redeem' = Linked(rows, c, n)
      BY <1>2, <1>4, <2>0, <2>1 DEF CreateSale, RedemptionRow, NewSale
    <2> HIDE DEF rows
    <2>3. /\ DOMAIN redeem' = DOMAIN redeem \cup {m} /\ m \notin DOMAIN redeem
          /\ redeem'[m] = [r EXCEPT !.sale = n]
          /\ \A i \in DOMAIN redeem :
               redeem'[i] = IF redeem[i].cust = c /\ redeem[i].sale = 0
                            THEN [redeem[i] EXCEPT !.sale = n] ELSE redeem[i]
      <3>1. r.cust = c /\ r.sale = 0 /\ m \notin DOMAIN redeem
        BY <1>1, <2>0
      <3>2. redeem' = [i \in DOMAIN rows |-> IF rows[i].cust = c /\ rows[i].sale = 0
                                            THEN [rows[i] EXCEPT !.sale = n] ELSE rows[i]]
        BY <2>2 DEF Linked
      <3>3. DOMAIN redeem' = DOMAIN rows
        BY <3>2
      <3>4. redeem'[m] = [r EXCEPT !.sale = n]
        BY ONLY <2>1, <3>1, <3>2
      <3>5. ASSUME NEW i \in DOMAIN redeem
            PROVE  redeem'[i] = IF redeem[i].cust = c /\ redeem[i].sale = 0
                                THEN [redeem[i] EXCEPT !.sale = n] ELSE redeem[i]
        BY ONLY <2>1, <3>2, i \in DOMAIN redeem
      <3> QED
        BY <2>1, <3>1, <3>3, <3>4, <3>5
    <2>4. redeem'[m] = [cust |-> c, sale |-> n, pts |-> s.used, reversed |-> FALSE]
      BY <2>0, <2>3
    <2>5. \A i \in DOMAIN redeem : redeem'[i] = redeem[i] \/ redeem'[i].sale = n
      BY <1>1, <2>3 DEF RowRefs
    <2>6. LooseRowsOrphan'
      BY <1>1, <1>2, <2>3, <2>4, <2>5 DEF RowsInv, LooseRowsOrphan
    <2>7. ASSUME NEW k \in DOMAIN sales
          PROVE  RowsOf(k)' = RowsOf(k) /\ \A i \in RowsOf(k) : redeem'[i] = redeem[i]
      <3>1. k # n /\ k # 0 /\ redeem'[m].sale # k
        BY <1>1, <2>4
      <3>2. \A i \in DOMAIN redeem : redeem[i].sale = k => redeem'[i] = redeem[i]
        BY <2>3, <3>1
      <3>3. \A i \in DOMAIN redeem : redeem'[i].sale = k => redeem'[i] = redeem[i]
        BY <2>5, <3>1
      <3> QED
        BY <2>3, <3>1, <3>2, <3>3 DEF RowsOf
    <2>8. ASSUME s.cust \notin orphaned
          PROVE  UsedBy(n)' = s.used /\ \A i \in RowsOf(n)' : ~redeem'[i].reversed
      <3>1. \A i \in DOMAIN redeem : redeem'[i] = redeem[i] /\ redeem[i].sale # n
        BY <1>1, <1>2, <2>0, <2>3, <2>8 DEF RowsInv, LooseRowsOrphan, RowsOf
      <3>2. RowsOf(n)' = {m}
        BY <2>3, <2>4, <3>1 DEF RowsOf
      <3> DEFINE G == [i \in DOMAIN redeem' |-> redeem'[i].pts]
      <3>3. G[m] = s.used /\ UsedBy(n)' = SumFunctionOnSet(G, {m})
        <4>1. m \in DOMAIN redeem' /\ redeem'[m].pts = s.used
          BY <2>3, <2>4
        <4>2. G[m] = s.used
          BY <4>1
        <4>3. UsedBy(n)' = SumFunctionOnSet(G, RowsOf(n)')
          BY DEF UsedBy
        <4> QED
          BY <3>2, <4>2, <4>3
      <3> HIDE DEF G
      <3>4. UsedBy(n)' = s.used
        <4>1. s.used \in Int
          BY <1>2
        <4>2. SumFunctionOnSet(G, {m}) = G[m]
          BY <3>3, <4>1, SumSingleton
        <4> QED
          BY <3>3, <4>2
      <3> QED
        BY <2>4, <3>2, <3>4
    <2> QED
      BY <1>4, <2>6, <2>7, <2>8
  <1> QED
    BY <1>2, <1>3, <1>4

LEMMA BlockRedeems ==
  ASSUME RowsInv, NEW p \in Payloads, NEW pin \in BOOLEAN, BlockSale(p, pin)
  PROVE  /\ LooseRowsOrphan' /\ orphaned \subseteq orphaned'
         /\ \A k \in DOMAIN sales : RowsOf(k)' = RowsOf(k) /\ \A i \in RowsOf(k) : redeem'[i] = redeem[i]
  <1>1. /\ DOMAIN redeem = 1 .. Len(redeem) /\ \A k \in DOMAIN sales : k # 0
    BY RedeemRows DEF RowsInv
  <1>2. Points(p) \in Nat /\ orphaned \subseteq orphaned'
    BY PointsType DEF RowsInv, BlockSale
  <1>3. redeem \in Seq(RowRefs)
    BY BaseParts DEF RowsInv, BaseRows
  <1>4. CASE Points(p) = 0
    <2>1. redeem' = redeem \o <<>>
      BY <1>4 DEF BlockSale, RedemptionRow
    <2>2. redeem' = redeem
      BY <1>3, <2>1, ConcatEmptySeq
    <2> QED
      BY <1>2, <2>2 DEF RowsInv, LooseRowsOrphan, RowsOf
  <1>5. CASE Points(p) > 0
    <2>0. PICK r, m : /\ r = [cust |-> p.cust, sale |-> 0, pts |-> Points(p), reversed |-> FALSE]
                      /\ m = Len(redeem) + 1
      OBVIOUS
    <2>1. redeem' = redeem \o <<r>>
      BY <1>5, <2>0 DEF BlockSale, RedemptionRow
    <2>2. redeem \in Seq(RowRefs \cup {r})
      BY <1>3, SeqMonotonic
    <2>3. m = Len(redeem) + 1
      BY <2>0
    <2>4. /\ DOMAIN redeem' = DOMAIN redeem \cup {m} /\ redeem'[m] = r
          /\ \A i \in DOMAIN redeem : redeem'[i] = redeem[i]
      BY ONLY <2>1, <2>2, <2>3, RowsAppended
    <2>5. r.sale = 0 /\ r.cust \in orphaned'
      BY <1>5, <2>0 DEF BlockSale
    <2>6. LooseRowsOrphan'
      BY <1>2, <2>4, <2>5 DEF RowsInv, LooseRowsOrphan
    <2>7. ASSUME NEW k \in DOMAIN sales
          PROVE  RowsOf(k)' = RowsOf(k) /\ \A i \in RowsOf(k) : redeem'[i] = redeem[i]
      BY <1>1, <2>4, <2>5 DEF RowsOf
    <2> QED
      BY <1>2, <2>6, <2>7
  <1> QED
    BY <1>2, <1>4, <1>5

LEMMA ReverseRedeems ==
  ASSUME RowsInv, NEW id \in DOMAIN sales, Reverse(id)
  PROVE  /\ LooseRowsOrphan'
         /\ \A k \in DOMAIN sales :
              RowsOf(k)' = RowsOf(k) /\ \A i \in RowsOf(k) : redeem'[i].pts = redeem[i].pts
         /\ \A k \in DOMAIN sales : \A i \in RowsOf(k) :
              redeem'[i].reversed <=> redeem[i].reversed \/ (k = id /\ sales[id].cust # NoCust)
  <1>1. /\ \A i \in DOMAIN redeem : redeem[i] \in RowRefs
        /\ \A k : RowsOf(k) \subseteq DOMAIN redeem
    BY RedeemRows DEF RowsInv
  <1>2. sales[id] \in SaleRow /\ sales[id].used \in Nat
    BY SalesFinite DEF RowsInv, SaleRow
  <1>3. orphaned' = orphaned
    BY DEF Reverse
  <1>4. CASE sales[id].cust # NoCust /\ sales[id].used > 0
    <2>1. redeem' = [i \in DOMAIN redeem |->
                       IF redeem[i].sale = id THEN [redeem[i] EXCEPT !.reversed = TRUE]
                       ELSE redeem[i]]
      BY <1>4 DEF Reverse
    <2>2. DOMAIN redeem' = DOMAIN redeem
      BY <2>1
    <2>3. \A i \in DOMAIN redeem :
             /\ redeem'[i].sale = redeem[i].sale /\ redeem'[i].pts = redeem[i].pts
             /\ redeem'[i].cust = redeem[i].cust
             /\ redeem'[i].reversed <=> redeem[i].reversed \/ redeem[i].sale = id
      BY <1>1, <2>1 DEF RowRefs
    <2>4. LooseRowsOrphan'
      BY <1>3, <2>2, <2>3 DEF RowsInv, LooseRowsOrphan
    <2>5. \A k : RowsOf(k)' = RowsOf(k)
      BY <2>2, <2>3 DEF RowsOf
    <2> QED
      BY <1>1, <1>4, <2>3, <2>4, <2>5 DEF RowsOf
  <1>5. CASE ~(sales[id].cust # NoCust /\ sales[id].used > 0)
    <2>1. redeem' = redeem
      BY <1>5 DEF Reverse
    <2>2. sales[id].cust # NoCust => RowsOf(id) = {}
      BY <1>2, <1>5 DEF RowsInv, RowsOnlyIfUsed
    <2>3. \A k : RowsOf(k)' = RowsOf(k)
      BY <2>1 DEF RowsOf
    <2> QED
      BY <1>3, <2>1, <2>2, <2>3 DEF RowsInv, LooseRowsOrphan
  <1> QED
    BY <1>4, <1>5

(***************************************************************************)
(* The redemption rows of a sale that nobody touches stay as they are.     *)
(***************************************************************************)
LEMMA RowsStep == RowsInv /\ [Next]_vars => RowsInv'
  <1> SUFFICES ASSUME RowsInv, [Next]_vars
               PROVE  LooseRowsOrphan' /\ RowsOnlyIfUsed' /\ RowsFollow'
    BY BaseStep DEF RowsInv
  <1>0. Base
    BY DEF RowsInv
  <1>1. ASSUME NEW p \in Payloads, NEW pin \in BOOLEAN, CreateSale(p, pin)
        PROVE  LooseRowsOrphan' /\ RowsOnlyIfUsed' /\ RowsFollow'
    <2>0. PICK n, s : n = Len(sales) + 1 /\ s = NewSale(p)
      OBVIOUS
    <2>1. /\ s \in SaleRow /\ s.status # "refunded"
          /\ DOMAIN sales' = DOMAIN sales \cup {n} /\ n \notin DOMAIN sales
          /\ sales'[n] = s /\ \A id \in DOMAIN sales : sales'[id] = sales[id]
      BY <1>0, <1>1, <2>0, SaleOpens
    <2>2. /\ LooseRowsOrphan'
          /\ \A k \in DOMAIN sales :
               RowsOf(k)' = RowsOf(k) /\ \A i \in RowsOf(k) : redeem'[i] = redeem[i]
          /\ s.used = 0 => RowsOf(n)' = {}
          /\ s.cust \notin orphaned => /\ UsedBy(n)' = s.used
                                       /\ \A i \in RowsOf(n)' : ~redeem'[i].reversed
      BY <1>1, <2>0, SaleRedeems
    <2>3. \A k \in DOMAIN sales : UsedBy(k)' = UsedBy(k)
      BY <1>0, <2>2, UsedKept
    <2>4. RowsOnlyIfUsed'
      BY <2>1, <2>2 DEF RowsInv, RowsOnlyIfUsed
    <2>5. ASSUME NEW c \in Customers \ orphaned', NEW id \in DOMAIN sales',
                 sales'[id].cust = c, Untouched(c)'
          PROVE  /\ sales'[id].used = UsedBy(id)'
                 /\ \A i \in RowsOf(id)' : redeem'[i].reversed <=> Refunded(id)'
      <3>1. orphaned' = orphaned /\ Untouched(c)
        BY <1>1, <2>1, <2>5 DEF CreateSale, Untouched
      <3>2. CASE id = n
        BY <2>1, <2>2, <2>5, <3>1, <3>2 DEF Refunded
      <3>3. CASE id \in DOMAIN sales
        <4>1. /\ sales[id].used = UsedBy(id)
              /\ \A i \in RowsOf(id) : redeem[i].reversed <=> Refunded(id)
          BY <2>1, <2>5, <3>1, <3>3 DEF RowsInv, RowsFollow
        <4> QED
          BY <2>1, <2>2, <2>3, <3>3, <4>1 DEF Refunded
      <3> QED
        BY <2>1, <3>2, <3>3
    <2>6. RowsFollow'
      BY <2>5 DEF RowsFollow
    <2> QED
      BY <2>2, <2>4, <2>6
  <1>2. ASSUME NEW p \in Payloads, NEW pin \in BOOLEAN, BlockSale(p, pin)
        PROVE  LooseRowsOrphan' /\ RowsOnlyIfUsed' /\ RowsFollow'
    <2>1. /\ LooseRowsOrphan' /\ orphaned \subseteq orphaned' /\ sales' = sales
          /\ \A k \in DOMAIN sales :
               RowsOf(k)' = RowsOf(k) /\ \A i \in RowsOf(k) : redeem'[i] = redeem[i]
      BY <1>2, BlockRedeems DEF BlockSale
    <2>2. \A k \in DOMAIN sales : UsedBy(k)' = UsedBy(k)
      BY <1>0, <2>1, UsedKept
    <2>3. RowsOnlyIfUsed'
      BY <2>1 DEF RowsInv, RowsOnlyIfUsed
    <2>4. RowsFollow'
      BY <2>1, <2>2 DEF RowsInv, RowsFollow, Untouched, Refunded
    <2> QED
      BY <2>1, <2>3, <2>4
  <1>3. ASSUME NEW id \in DOMAIN sales, Reverse(id)
        PROVE  LooseRowsOrphan' /\ RowsOnlyIfUsed' /\ RowsFollow'
    <2>1. /\ DOMAIN sales' = DOMAIN sales /\ sales'[id].status = "refunded"
          /\ \A k \in DOMAIN sales : k # id => sales'[k] = sales[k]
          /\ \A k \in DOMAIN sales : /\ sales'[k].edited = sales[k].edited
                                     /\ sales'[k].cust = sales[k].cust
                                     /\ sales'[k].used = sales[k].used
      <3>1. sales[id] \in SaleRow
        BY <1>0, SalesFinite
      <3>2. sales'[id].status = "refunded"
        BY <1>3, <3>1 DEF Reverse, SaleRow
      <3> QED
        BY <1>0, <1>3, <3>2, SaleCloses
    <2>2. /\ LooseRowsOrphan'
          /\ \A k \in DOMAIN sales :
               RowsOf(k)' = RowsOf(k) /\ \A i \in RowsOf(k) : redeem'[i].pts = redeem[i].pts
          /\ \A k \in DOMAIN sales : \A i \in RowsOf(k) :
               redeem'[i].reversed <=> redeem[i].reversed \/ (k = id /\ sales[id].cust # NoCust)
      BY <1>3, ReverseRedeems
    <2>3. \A k \in DOMAIN sales : UsedBy(k)' = UsedBy(k)
      BY <1>0, <2>2, UsedKept
    <2>4. RowsOnlyIfUsed'
      BY <2>1, <2>2 DEF RowsInv, RowsOnlyIfUsed
    <2>5. ASSUME NEW c \in Customers \ orphaned', NEW k \in DOMAIN sales',
                 sales'[k].cust = c, Untouched(c)'
          PROVE  /\ sales'[k].used = UsedBy(k)'
                 /\ \A i \in RowsOf(k)' : redeem'[i].reversed <=> Refunded(k)'
      <3>1. orphaned' = orphaned /\ Untouched(c) /\ sales[k].cust = c /\ c # NoCust
        BY <1>3, <2>1, <2>5, PosAssumption DEF Reverse, Untouched
      <3>2. /\ sales[k].used = UsedBy(k)
            /\ \A i \in RowsOf(k) : redeem[i].reversed <=> Refunded(k)
        BY <2>1, <2>5, <3>1 DEF RowsInv, RowsFollow
      <3> QED
        BY <2>1, <2>2, <2>3, <3>1, <3>2 DEF Refunded
    <2>6. RowsFollow'
      BY <2>5 DEF RowsFollow
    <2> QED
      BY <2>2, <2>4, <2>6
  <1>4. ASSUME NEW id \in DOMAIN sales,
               (\E e \in Edits : EditSale(id, e[1], e[2]))
                 \/ (\E n \in Instalments : UpdateLayaway(id, n))
        PROVE  LooseRowsOrphan' /\ RowsOnlyIfUsed' /\ RowsFollow'
    <2>1. /\ DOMAIN sales' = DOMAIN sales /\ sales'[id].edited
          /\ sales'[id].cust = sales[id].cust
          /\ \A k \in DOMAIN sales : k # id => sales'[k] = sales[k]
          /\ UNCHANGED <<redeem, orphaned>>
      BY <1>0, <1>4, EditMarks
    <2>2. sales'[id].used = sales[id].used
      BY <1>0, <1>4, EditMarks
    <2>3. \A k : RowsOf(k)' = RowsOf(k) /\ UsedBy(k)' = UsedBy(k)
      BY <2>1 DEF RowsOf, UsedBy
    <2>4. LooseRowsOrphan' /\ RowsOnlyIfUsed'
      BY <2>1, <2>2, <2>3 DEF RowsInv, LooseRowsOrphan, RowsOnlyIfUsed
    <2>5. ASSUME NEW c \in Customers \ orphaned', NEW k \in DOMAIN sales',
                 sales'[k].cust = c, Untouched(c)'
          PROVE  /\ sales'[k].used = UsedBy(k)'
                 /\ \A i \in RowsOf(k)' : redeem'[i].reversed <=> Refunded(k)'
      <3>1. k # id /\ sales[id].cust # c
        BY <2>1, <2>5 DEF Untouched
      <3>2. Untouched(c) /\ c \in Customers \ orphaned
        BY <2>1, <2>5, <3>1 DEF Untouched
      <3>3. /\ sales[k].used = UsedBy(k)
            /\ \A i \in RowsOf(k) : redeem[i].reversed <=> Refunded(k)
        BY <2>1, <2>5, <3>1, <3>2 DEF RowsInv, RowsFollow
      <3> QED
        BY <2>1, <2>3, <3>1, <3>3 DEF Refunded
    <2>6. RowsFollow'
      BY <2>5 DEF RowsFollow
    <2> QED
      BY <2>4, <2>6
  <1>5. ASSUME UNCHANGED <<sales, redeem, orphaned>>
        PROVE  LooseRowsOrphan' /\ RowsOnlyIfUsed' /\ RowsFollow'
    <2>1. \A k : RowsOf(k)' = RowsOf(k) /\ UsedBy(k)' = UsedBy(k)
      BY <1>5 DEF RowsOf, UsedBy
    <2> QED
      BY <1>5, <2>1 DEF RowsInv, LooseRowsOrphan, RowsOnlyIfUsed, RowsFollow, Untouched, Refunded
  <1>6. ASSUME NEW c \in Customers, DeleteCustomer(c) PROVE UNCHANGED <<sales, redeem, orphaned>>
    BY <1>6 DEF DeleteCustomer
  <1>7. ASSUME NEW a \in PayAttempts,
               PayCheck(a) \/ PayInsert(a) \/ PayCredit(a) \/ PayDrawer(a) \/ PayLost(a)
        PROVE  UNCHANGED <<sales, redeem, orphaned>>
    BY <1>7 DEF PayCheck, PayInsert, PayCredit, PayDrawer, PayLost, Books
  <1>8. UNCHANGED vars => UNCHANGED <<sales, redeem, orphaned>>
    BY DEF vars
  <1> QED
    BY <1>1, <1>2, <1>3, <1>4, <1>5, <1>6, <1>7, <1>8 DEF Next, RefundSale, VoidSale

(***************************************************************************)
(* What a sale, a reversal and a foreign edit do to the sums over the open *)
(* sales of a customer.                                                    *)
(***************************************************************************)
EarnedBy(s) == Awards(s) - s.used

LEMMA OpenSumsType ==
  ASSUME Base, NEW c
  PROVE  Earned(c) \in Int /\ Owed(c) \in Nat
  <1> DEFINE F == [id \in DOMAIN sales |-> Awards(sales[id]) - sales[id].used]
             H == [id \in DOMAIN sales |-> Owes(sales[id])]
             S == OpenSales(c)
  <1>1. IsFiniteSet(S) /\ S \subseteq DOMAIN sales /\ \A id \in DOMAIN sales : sales[id] \in SaleRow
    BY SalesFinite
  <1>2. \A id \in S : F[id] \in Int /\ H[id] \in Nat
    BY <1>1, AmountsType DEF SaleRow
  <1>3. Earned(c) = SumFunctionOnSet(F, S) /\ Owed(c) = SumFunctionOnSet(H, S)
    BY DEF Earned, Owed
  <1> HIDE DEF F, H, S
  <1> QED
    BY <1>1, <1>2, <1>3, SumType, SumNat

LEMMA SumsOfSale ==
  ASSUME Base, NEW p \in Payloads, NEW pin \in BOOLEAN, CreateSale(p, pin),
         NEW s, s = NewSale(p), NEW c
  PROVE  /\ Earned(c)' = Earned(c) + (IF s.cust = c THEN EarnedBy(s) ELSE 0)
         /\ Owed(c)' = Owed(c) + (IF s.cust = c THEN Owes(s) ELSE 0)
  <1>0. PICK n : n = Len(sales) + 1
    OBVIOUS
  <1> DEFINE F == [id \in DOMAIN sales |-> Awards(sales[id]) - sales[id].used]
             H == [id \in DOMAIN sales |-> Owes(sales[id])]
             F1 == [id \in DOMAIN sales' |-> Awards(sales'[id]) - sales'[id].used]
             H1 == [id \in DOMAIN sales' |-> Owes(sales'[id])]
             S == OpenSales(c)
             T == OpenSales(c)'
  <1>1. /\ s \in SaleRow
        /\ DOMAIN sales' = DOMAIN sales \cup {n} /\ n \notin DOMAIN sales
        /\ sales'[n] = s /\ \A id \in DOMAIN sales : sales'[id] = sales[id]
        /\ T = IF s.cust = c THEN S \cup {n} ELSE S
    BY <1>0, SaleOpens
  <1>2. IsFiniteSet(S) /\ S \subseteq DOMAIN sales /\ \A id \in DOMAIN sales : sales[id] \in SaleRow
    BY SalesFinite
  <1>3. (\A id \in S : F[id] \in Int) /\ (\A id \in S : H[id] \in Int)
    BY <1>2, AmountsType DEF SaleRow
  <1>4. (\A id \in S : F1[id] = F[id]) /\ (\A id \in S : H1[id] = H[id])
    BY <1>1, <1>2
  <1>5. /\ F1[n] = EarnedBy(s) /\ EarnedBy(s) \in Int
        /\ H1[n] = Owes(s) /\ Owes(s) \in Int /\ n \notin S
    BY <1>1, <1>2, AmountsType DEF EarnedBy, SaleRow
  <1>6. /\ Earned(c) = SumFunctionOnSet(F, S) /\ Earned(c)' = SumFunctionOnSet(F1, T)
        /\ Owed(c) = SumFunctionOnSet(H, S) /\ Owed(c)' = SumFunctionOnSet(H1, T)
    BY DEF Earned, Owed, Awards, Owes, Positive
  <1>7. Earned(c) \in Int /\ Owed(c) \in Nat
    BY OpenSumsType
  <1> HIDE DEF F, F1, H, H1, S, T
  <1>8. CASE s.cust = c
    <2>1. T = S \cup {n} /\ F1[n] \in Int /\ H1[n] \in Int
      BY <1>1, <1>5, <1>8
    <2>2. SumFunctionOnSet(F1, T) = SumFunctionOnSet(F, S) + F1[n]
      BY ONLY <1>2, <1>3, <1>4, <1>5, <2>1, SumJoin
    <2>3. SumFunctionOnSet(H1, T) = SumFunctionOnSet(H, S) + H1[n]
      BY ONLY <1>2, <1>3, <1>4, <1>5, <2>1, SumJoin
    <2> QED
      BY <1>5, <1>6, <1>8, <2>2, <2>3
  <1>9. CASE s.cust # c
    <2>1. T = S
      BY <1>1, <1>9
    <2>2. SumFunctionOnSet(F, S) = SumFunctionOnSet(F1, S) /\ SumFunctionOnSet(H, S) = SumFunctionOnSet(H1, S)
      BY <1>2, <1>4, SumEqual
    <2> QED
      BY <1>6, <1>7, <1>9, <2>1, <2>2
  <1> QED
    BY <1>8, <1>9

LEMMA SumsOfReversal ==
  ASSUME Base, NEW id \in DOMAIN sales, Reverse(id), NEW s, s = sales[id], NEW c
  PROVE  /\ Earned(c)' = Earned(c) - (IF s.cust = c THEN EarnedBy(s) ELSE 0)
         /\ Owed(c)' = Owed(c) - (IF s.cust = c THEN Owes(s) ELSE 0)
  <1> DEFINE F == [k \in DOMAIN sales |-> Awards(sales[k]) - sales[k].used]
             H == [k \in DOMAIN sales |-> Owes(sales[k])]
             F1 == [k \in DOMAIN sales' |-> Awards(sales'[k]) - sales'[k].used]
             H1 == [k \in DOMAIN sales' |-> Owes(sales'[k])]
             S == OpenSales(c)
             T == OpenSales(c)'
  <1>1. /\ id \in Standing /\ DOMAIN sales' = DOMAIN sales
        /\ \A k \in DOMAIN sales : k # id => sales'[k] = sales[k]
        /\ T = S \ {id}
    BY SaleCloses
  <1>2. IsFiniteSet(S) /\ S \subseteq DOMAIN sales /\ \A k \in DOMAIN sales : sales[k] \in SaleRow
    BY SalesFinite
  <1>3. (\A k \in S : F[k] \in Int) /\ (\A k \in S : H[k] \in Int)
    BY <1>2, AmountsType DEF SaleRow
  <1>4. (\A k \in T : F1[k] = F[k]) /\ (\A k \in T : H1[k] = H[k])
    BY <1>1, <1>2
  <1>5. F[id] = EarnedBy(s) /\ H[id] = Owes(s) /\ (id \in S <=> s.cust = c)
    BY <1>1 DEF EarnedBy, OpenSales
  <1>6. /\ Earned(c) = SumFunctionOnSet(F, S) /\ Earned(c)' = SumFunctionOnSet(F1, T)
        /\ Owed(c) = SumFunctionOnSet(H, S) /\ Owed(c)' = SumFunctionOnSet(H1, T)
    BY DEF Earned, Owed, Awards, Owes, Positive
  <1>7. Earned(c) \in Int /\ Owed(c) \in Nat
    BY OpenSumsType
  <1>8. CASE s.cust = c
    <2> HIDE DEF F, F1, H, H1, S, T
    <2>1. T = S \ {id} /\ id \in S
      BY <1>1, <1>5, <1>8
    <2>2. SumFunctionOnSet(F1, T) = SumFunctionOnSet(F, S) - F[id]
      BY ONLY <1>2, <1>3, <1>4, <2>1, SumLeave
    <2>3. SumFunctionOnSet(H1, T) = SumFunctionOnSet(H, S) - H[id]
      BY ONLY <1>2, <1>3, <1>4, <2>1, SumLeave
    <2> QED
      BY <1>5, <1>6, <1>8, <2>2, <2>3
  <1>9. CASE s.cust # c
    <2>1. T = S
      BY <1>1, <1>5, <1>9
    <2> HIDE DEF F, F1, H, H1, S, T
    <2>2. SumFunctionOnSet(F, S) = SumFunctionOnSet(F1, S) /\ SumFunctionOnSet(H, S) = SumFunctionOnSet(H1, S)
      BY <1>2, <1>4, <2>1, SumEqual
    <2> QED
      BY <1>6, <1>7, <1>9, <2>1, <2>2
  <1> QED
    BY <1>8, <1>9

LEMMA SumsKept ==
  ASSUME Base, NEW c, DOMAIN sales' = DOMAIN sales,
         \A k \in DOMAIN sales : sales'[k].cust = sales[k].cust,
         \A k \in DOMAIN sales : sales[k].cust = c => sales'[k] = sales[k]
  PROVE  Earned(c)' = Earned(c) /\ Owed(c)' = Owed(c)
  <1> DEFINE F == [k \in DOMAIN sales |-> Awards(sales[k]) - sales[k].used]
             H == [k \in DOMAIN sales |-> Owes(sales[k])]
             F1 == [k \in DOMAIN sales' |-> Awards(sales'[k]) - sales'[k].used]
             H1 == [k \in DOMAIN sales' |-> Owes(sales'[k])]
             S == OpenSales(c)
             T == OpenSales(c)'
  <1>1. T = S
    BY DEF OpenSales, Standing, Refunded
  <1>2. IsFiniteSet(S) /\ S \subseteq DOMAIN sales
    BY SalesFinite
  <1>3. (\A k \in S : F[k] = F1[k]) /\ (\A k \in S : H[k] = H1[k])
    BY <1>2 DEF OpenSales
  <1>4. /\ Earned(c) = SumFunctionOnSet(F, S) /\ Earned(c)' = SumFunctionOnSet(F1, T)
        /\ Owed(c) = SumFunctionOnSet(H, S) /\ Owed(c)' = SumFunctionOnSet(H1, T)
    BY DEF Earned, Owed, Awards, Owes, Positive
  <1> HIDE DEF F, F1, H, H1, S, T
  <1>5. SumFunctionOnSet(F, S) = SumFunctionOnSet(F1, S) /\ SumFunctionOnSet(H, S) = SumFunctionOnSet(H1, S)
    BY <1>2, <1>3, SumEqual
  <1> QED
    BY <1>1, <1>4, <1>5

(***************************************************************************)
(* Edits mark the sale they touch, so a customer whose sales are untouched *)
(* after a step had untouched sales before it.                             *)
(***************************************************************************)
LEMMA StaysUntouched ==
  ASSUME Base, NEW c, [Next]_vars, Untouched(c)'
  PROVE  /\ Untouched(c)
         /\ \A id \in DOMAIN sales :
              (\E e \in Edits : EditSale(id, e[1], e[2]))
                \/ (\E n \in Instalments : UpdateLayaway(id, n)) => sales[id].cust # c
  <1>1. ASSUME NEW p \in Payloads, NEW pin \in BOOLEAN, CreateSale(p, pin) PROVE Untouched(c)
    <2>1. \A id \in DOMAIN sales : id \in DOMAIN sales' /\ sales'[id] = sales[id]
      <3>1. PICK n, s : n = Len(sales) + 1 /\ s = NewSale(p)
        OBVIOUS
      <3> QED
        BY <1>1, <3>1, SaleOpens
    <2> QED
      BY <2>1 DEF Untouched
  <1>2. ASSUME NEW id \in DOMAIN sales, Reverse(id) PROVE Untouched(c)
    BY <1>2, SaleCloses DEF Untouched
  <1>3. ASSUME NEW id \in DOMAIN sales,
               (\E e \in Edits : EditSale(id, e[1], e[2]))
                 \/ (\E n \in Instalments : UpdateLayaway(id, n))
        PROVE  Untouched(c) /\ sales[id].cust # c
    <2>1. /\ DOMAIN sales' = DOMAIN sales /\ sales'[id].edited /\ sales'[id].cust = sales[id].cust
          /\ \A k \in DOMAIN sales : k # id => sales'[k] = sales[k]
      BY <1>3, EditMarks
    <2> QED
      BY <2>1 DEF Untouched
  <1>4. UNCHANGED sales => Untouched(c)
    BY DEF Untouched
  <1>5. ASSUME NEW p \in Payloads, NEW pin \in BOOLEAN, BlockSale(p, pin) PROVE UNCHANGED sales
    BY <1>5 DEF BlockSale
  <1>6. ASSUME NEW k \in Customers, DeleteCustomer(k) PROVE UNCHANGED sales
    BY <1>6 DEF DeleteCustomer
  <1>7. ASSUME NEW a \in PayAttempts,
               PayCheck(a) \/ PayInsert(a) \/ PayCredit(a) \/ PayDrawer(a) \/ PayLost(a)
        PROVE  UNCHANGED sales
    BY <1>7 DEF PayCheck, PayInsert, PayCredit, PayDrawer, PayLost, Books
  <1>8. UNCHANGED vars => UNCHANGED sales
    BY DEF vars
  <1>9. Untouched(c)
    BY <1>1, <1>2, <1>3, <1>4, <1>5, <1>6, <1>7, <1>8 DEF Next, RefundSale, VoidSale
  <1> QED
    BY <1>3, <1>9

LEMMA PointsStep == Base /\ PointsFollow /\ [Next]_vars => PointsFollow'
  <1> SUFFICES ASSUME Base, PointsFollow, [Next]_vars,
                      NEW c \in Customers \ orphaned', Untouched(c)'
               PROVE  cust'[c].points >= OpeningPoints[c] + Earned(c)'
    BY DEF PointsFollow
  <1>0. /\ Earned(c) \in Int /\ OpeningPoints[c] \in Nat
        /\ cust \in [Customers -> Floors] /\ cust[c].points \in Nat
    BY OpenSumsType, BaseParts, PosAssumption DEF BaseRows, Floors
  <1>u. Untouched(c)
    BY StaysUntouched
  <1>p. c \notin orphaned => cust[c].points >= OpeningPoints[c] + Earned(c)
    BY <1>u DEF PointsFollow
  <1>1. ASSUME NEW p \in Payloads, NEW pin \in BOOLEAN, CreateSale(p, pin)
        PROVE  cust'[c].points >= OpeningPoints[c] + Earned(c)'
    <2>0. PICK s : s = NewSale(p)
      OBVIOUS
    <2>1. s \in SaleRow /\ s.cust = p.cust /\ s.used = Points(p) /\ s.used \in Nat /\ Awards(s) \in Nat
      BY <2>0, NewSaleType, AmountsType DEF NewSale, SaleRow
    <2>2. Earned(c)' = Earned(c) + (IF s.cust = c THEN EarnedBy(s) ELSE 0) /\ c \notin orphaned
      BY <1>1, <2>0, SumsOfSale DEF CreateSale
    <2>3. CASE p.cust = c
      <3>1. c # NoCust
        BY PosAssumption
      <3>2. cust' = [Redeemed(p) EXCEPT ![c].credit = @ + Owes(s),
                                        ![c].spent = @ + Spends(s),
                                        ![c].points = @ + Awards(s)]
        BY <1>1, <2>0, <2>3, <3>1 DEF CreateSale
      <3>3. Redeemed(p)[c].points = cust[c].points - s.used
              /\ DOMAIN Redeemed(p) = Customers /\ DOMAIN Redeemed(p)[c] = DOMAIN cust[c]
        BY <1>0, <2>1, <2>3 DEF Redeemed, Floors
      <3>4. cust'[c].points = cust[c].points - s.used + Awards(s)
        BY <1>0, <3>2, <3>3 DEF Floors
      <3> QED
        BY <1>0, <1>p, <2>1, <2>2, <2>3, <3>4 DEF EarnedBy
    <2>4. CASE p.cust # c
      <3>1. cust'[c] = cust[c]
        BY <1>0, <1>1, <2>4 DEF CreateSale, Redeemed
      <3> QED
        BY <1>0, <1>p, <2>1, <2>2, <2>4, <3>1
    <2> QED
      BY <2>3, <2>4
  <1>2. ASSUME NEW p \in Payloads, NEW pin \in BOOLEAN, BlockSale(p, pin)
        PROVE  cust'[c].points >= OpeningPoints[c] + Earned(c)'
    <2>1. sales' = sales /\ orphaned \subseteq orphaned' /\ cust' = Redeemed(p) /\ Points(p) \in Nat
      BY <1>2, PointsType DEF BlockSale
    <2>2. Earned(c)' = Earned(c)
      BY <2>1, SumsKept
    <2>3. cust'[c].points = cust[c].points
      <3>1. CASE p.cust = c
        <4>1. Points(p) = 0
          BY <1>2, <2>1, <3>1 DEF BlockSale
        <4> QED
          BY <1>0, <2>1, <3>1, <4>1 DEF Redeemed, Floors
      <3>2. CASE p.cust # c
        BY <1>0, <2>1, <3>2 DEF Redeemed
      <3> QED
        BY <3>1, <3>2
    <2> QED
      BY <1>p, <2>1, <2>2, <2>3
  <1>3. ASSUME NEW id \in DOMAIN sales, Reverse(id)
        PROVE  cust'[c].points >= OpeningPoints[c] + Earned(c)'
    <2>0. PICK s : s = sales[id]
      OBVIOUS
    <2>1. s \in SaleRow /\ s.used \in Nat /\ Awards(s) \in Nat
      BY <2>0, SalesFinite, AmountsType DEF SaleRow
    <2>2. Earned(c)' = Earned(c) - (IF s.cust = c THEN EarnedBy(s) ELSE 0) /\ c \notin orphaned
      BY <1>3, <2>0, SumsOfReversal DEF Reverse
    <2>3. CASE s.cust = c
      <3>1. cust' = Restored(s)
        BY <1>3, <2>0, <2>3, PosAssumption DEF Reverse
      <3>2. cust'[c].points = Positive(cust[c].points - Awards(s)) + s.used
        BY <1>0, <2>3, <3>1 DEF Restored, Floors
      <3>3. Positive(cust[c].points - Awards(s)) >= cust[c].points - Awards(s)
              /\ Positive(cust[c].points - Awards(s)) \in Nat
        BY <1>0, <2>1, PositiveType
      <3> QED
        BY <1>0, <1>p, <2>1, <2>2, <2>3, <3>2, <3>3 DEF EarnedBy
    <2>4. CASE s.cust # c
      <3>1. cust'[c] = cust[c]
        BY <1>0, <1>3, <2>0, <2>4 DEF Reverse, Restored
      <3> QED
        BY <1>0, <1>p, <2>2, <2>4, <3>1
    <2> QED
      BY <2>3, <2>4
  <1>4. ASSUME NEW id \in DOMAIN sales,
               (\E e \in Edits : EditSale(id, e[1], e[2]))
                 \/ (\E n \in Instalments : UpdateLayaway(id, n))
        PROVE  cust'[c].points >= OpeningPoints[c] + Earned(c)'
    <2>1. /\ DOMAIN sales' = DOMAIN sales /\ sales'[id].cust = sales[id].cust
          /\ \A k \in DOMAIN sales : k # id => sales'[k] = sales[k]
          /\ UNCHANGED <<cust, orphaned>>
      BY <1>4, EditMarks
    <2>2. sales[id].cust # c
      BY <1>4, StaysUntouched
    <2>3. Earned(c)' = Earned(c)
      BY <2>1, <2>2, SumsKept
    <2> QED
      BY <1>p, <2>1, <2>3
  <1>5. ASSUME UNCHANGED <<sales, orphaned>>, cust'[c].points = cust[c].points
        PROVE  cust'[c].points >= OpeningPoints[c] + Earned(c)'
    <2>1. Earned(c)' = Earned(c)
      BY <1>5, SumsKept
    <2> QED
      BY <1>5, <1>p, <2>1
  <1>6. ASSUME NEW k \in Customers, DeleteCustomer(k)
        PROVE  UNCHANGED <<sales, orphaned>> /\ cust'[c].points = cust[c].points
    BY <1>0, <1>6 DEF DeleteCustomer, Floors
  <1>7. ASSUME NEW a \in PayAttempts, PayCredit(a)
        PROVE  UNCHANGED <<sales, orphaned>> /\ cust'[c].points = cust[c].points
    BY <1>0, <1>7 DEF PayCredit, Books, Floors
  <1>8. ASSUME NEW a \in PayAttempts, PayCheck(a) \/ PayInsert(a) \/ PayDrawer(a) \/ PayLost(a)
        PROVE  UNCHANGED <<sales, orphaned>> /\ cust'[c].points = cust[c].points
    BY <1>8 DEF PayCheck, PayInsert, PayDrawer, PayLost, Books
  <1>9. UNCHANGED vars => UNCHANGED <<sales, orphaned>> /\ cust'[c].points = cust[c].points
    BY DEF vars
  <1> QED
    BY <1>1, <1>2, <1>3, <1>4, <1>5, <1>6, <1>7, <1>8, <1>9 DEF Next, RefundSale, VoidSale

(***************************************************************************)
(* Points follow the sales: except for customers who were once answered    *)
(* 409, points are never short of what the standing sales earned, and the  *)
(* redemption rows of a sale carry what it used and are reversed with it.  *)
(***************************************************************************)
THEOREM PointsAddUp == Spec => []PointsFollowSales
  <1>1. Init => LooseRowsOrphan /\ RowsOnlyIfUsed /\ RowsFollow
    BY DEF Init, LooseRowsOrphan, RowsOnlyIfUsed, RowsFollow
  <1>2. Init => PointsFollow
    <2> SUFFICES ASSUME Init, NEW c \in Customers
                 PROVE  cust[c].points >= OpeningPoints[c] + Earned(c)
      BY DEF PointsFollow
    <2>1. OpenSales(c) = {}
      BY DEF Init, OpenSales, Standing
    <2>2. Earned(c) = 0
      BY <2>1, SumEmpty DEF Earned
    <2>3. cust[c].points = OpeningPoints[c] /\ OpeningPoints[c] \in Nat
      BY PosAssumption DEF Init
    <2> QED
      BY <2>2, <2>3
  <1>3. RowsInv /\ PointsFollow => PointsFollowSales
    BY DEF RowsInv, RowsFollow, PointsFollow, PointsFollowSales
  <1>4. RowsInv /\ PointsFollow /\ [Next]_vars => RowsInv' /\ PointsFollow'
    BY RowsStep, PointsStep DEF RowsInv
  <1>5. Init => RowsInv
    BY <1>1, BaseInit DEF RowsInv
  <1> QED
    BY <1>2, <1>3, <1>4, <1>5, PTL DEF Spec

(***************************************************************************)
(* One payment per client_uuid.  The UNIQUE index makes the first insert   *)
(* the only one, so at most one attempt per key is past it; what it has    *)
(* put into the drawer it leaves behind.                                   *)
(***************************************************************************)
Holds(a) == pay[a] \in {"inserted", "settled"}

KeyTaken == \A a \in PayAttempts : Holds(a) => PayKey[a] \in payRows

OneHolder ==
    \A a, b \in PayAttempts : Holds(a) /\ Holds(b) /\ PayKey[a] = PayKey[b] => a = b

PaidAndGone ==
    \A i \in DOMAIN drawer : drawer[i].type = "payment_in" =>
        /\ drawer[i].ref \in payRows
        /\ \A a \in PayAttempts : Holds(a) => PayKey[a] # drawer[i].ref

KeysInv == Base /\ KeyTaken /\ OneHolder /\ PaidAndGone /\ PaymentOnce

\* a step that puts no payment into the drawer
NoPaymentIn ==
    \A i \in DOMAIN drawer' : drawer'[i].type = "payment_in" =>
        i \in DOMAIN drawer /\ drawer'[i] = drawer[i]

LEMMA NoPaymentAppended ==
  ASSUME Base, NEW d, d.type # "payment_in", drawer' \in {drawer, Append(drawer, d)}
  PROVE  NoPaymentIn
  <1>1. drawer \in Seq(DrawerRow \cup {d})
    BY BaseParts, SeqMonotonic DEF BaseRows
  <1>2. CASE drawer' = Append(drawer, d)
    <2>1. /\ DOMAIN drawer' = DOMAIN drawer \cup {Len(drawer) + 1}
          /\ drawer'[Len(drawer) + 1] = d /\ \A i \in DOMAIN drawer : drawer'[i] = drawer[i]
      BY <1>1, <1>2, RowsAppended
    <2> QED
      BY <2>1 DEF NoPaymentIn
  <1>3. CASE drawer' = drawer
    BY <1>3 DEF NoPaymentIn
  <1> QED
    BY <1>2, <1>3

LEMMA SalesPayNothing ==
  ASSUME Base,
         \/ \E p \in Payloads, pin \in BOOLEAN : CreateSale(p, pin)
         \/ \E id \in DOMAIN sales : Reverse(id)
  PROVE  NoPaymentIn /\ UNCHANGED <<payRows, pay>>
  <1>1. ASSUME NEW p \in Payloads, NEW pin \in BOOLEAN, CreateSale(p, pin)
        PROVE  NoPaymentIn /\ UNCHANGED <<payRows, pay>>
    <2>0. PICK d : d = [type |-> "sale", amount |-> DrawerCash(NewSale(p)), ref |-> Len(sales) + 1]
      OBVIOUS
    <2>1. d.type # "payment_in"
      BY <2>0
    <2>2. drawer' \in {drawer, Append(drawer, d)} /\ UNCHANGED <<payRows, pay>>
      BY <1>1, <2>0 DEF CreateSale
    <2> QED
      BY <2>1, <2>2, NoPaymentAppended
  <1>2. ASSUME NEW id \in DOMAIN sales, Reverse(id)
        PROVE  NoPaymentIn /\ UNCHANGED <<payRows, pay>>
    <2>0. PICK d : d = [type |-> "refund", amount |-> -DrawerCash(sales[id]), ref |-> id]
      OBVIOUS
    <2>1. d.type # "payment_in" /\ drawer \in Seq(DrawerRow \cup {d})
      BY <2>0, BaseParts, SeqMonotonic DEF BaseRows
    <2>2. drawer' \in {drawer \o <<>>, drawer \o <<d>>} /\ UNCHANGED <<payRows, pay>>
      BY <1>2, <2>0 DEF Reverse, RefundRow
    <2>3. drawer \o <<>> = drawer /\ drawer \o <<d>> = Append(drawer, d)
      BY ONLY <2>1, RowsAppended, ConcatEmptySeq
    <2> QED
      BY <2>1, <2>2, <2>3, NoPaymentAppended
  <1> QED
    BY <1>1, <1>2

LEMMA KeysStep == KeysInv /\ [Next]_vars => KeysInv'
  <1> SUFFICES ASSUME KeysInv, [Next]_vars
               PROVE  KeyTaken' /\ OneHolder' /\ PaidAndGone' /\ PaymentOnce'
    BY BaseStep DEF KeysInv
  <1>0. Base /\ pay \in [PayAttempts -> {"idle", "checked", "inserted", "settled", "acked", "lost"}]
    BY BaseParts DEF KeysInv, BaseRows
  \* a step that inserts no key and puts no payment into the drawer
  <1>k. ASSUME NoPaymentIn, payRows' = payRows,
               \A a \in PayAttempts : Holds(a)' => Holds(a)
        PROVE  KeyTaken' /\ OneHolder' /\ PaidAndGone' /\ PaymentOnce'
    BY <1>k DEF KeysInv, KeyTaken, OneHolder, PaidAndGone, PaymentOnce, NoPaymentIn
  <1>1. ASSUME \/ \E p \in Payloads, pin \in BOOLEAN : CreateSale(p, pin)
               \/ \E id \in DOMAIN sales : Reverse(id)
        PROVE  KeyTaken' /\ OneHolder' /\ PaidAndGone' /\ PaymentOnce'
    <2>1. NoPaymentIn /\ UNCHANGED <<payRows, pay>>
      BY <1>0, <1>1, SalesPayNothing
    <2> QED
      BY <1>k, <2>1 DEF Holds
  <1>2. ASSUME UNCHANGED <<drawer, payRows>>, \A a \in PayAttempts : Holds(a)' => Holds(a)
        PROVE  KeyTaken' /\ OneHolder' /\ PaidAndGone' /\ PaymentOnce'
    BY <1>2, <1>k DEF NoPaymentIn
  <1>3. ASSUME NEW a \in PayAttempts, PayCheck(a) \/ PayCredit(a) \/ PayLost(a)
        PROVE  UNCHANGED <<drawer, payRows>> /\ \A b \in PayAttempts : Holds(b)' => Holds(b)
    BY <1>0, <1>3 DEF PayCheck, PayCredit, PayLost, Goes, Holds
  <1>4. ASSUME NEW a \in PayAttempts, PayInsert(a)
        PROVE  KeyTaken' /\ OneHolder' /\ PaidAndGone' /\ PaymentOnce'
    <2>1. /\ payRows' = payRows \cup {PayKey[a]} /\ drawer' = drawer
          /\ \A b \in PayAttempts : b # a => pay'[b] = pay[b]
          /\ PayKey[a] \in payRows => ~Holds(a)'
      BY <1>0, <1>4 DEF PayInsert, Goes, Books, Holds
    <2>2. \A b \in PayAttempts : b # a => (Holds(b)' <=> Holds(b))
      BY <2>1 DEF Holds
    <2>3. KeyTaken' /\ OneHolder'
      BY <2>1, <2>2 DEF KeysInv, KeyTaken, OneHolder
    <2>4. PaidAndGone'
      BY <2>1, <2>2 DEF KeysInv, PaidAndGone
    <2>5. PaymentOnce'
      BY <2>1 DEF KeysInv, PaymentOnce
    <2> QED
      BY <2>3, <2>4, <2>5
  <1>5. ASSUME NEW a \in PayAttempts, PayDrawer(a)
        PROVE  KeyTaken' /\ OneHolder' /\ PaidAndGone' /\ PaymentOnce'
    <2>0. PICK d, m : /\ d = [type |-> "payment_in", amount |-> PayAmount[a], ref |-> PayKey[a]]
                      /\ m = Len(drawer) + 1
      OBVIOUS
    <2>1. d.type = "payment_in" /\ d.ref = PayKey[a] /\ drawer \in Seq(DrawerRow \cup {d})
      BY <1>0, <2>0, BaseParts, SeqMonotonic DEF BaseRows
    <2>2. /\ drawer' = Append(drawer, d) /\ payRows' = payRows
          /\ Holds(a) /\ ~Holds(a)' /\ \A b \in PayAttempts : Holds(b)' => Holds(b)
      BY <1>0, <1>5, <2>0 DEF PayDrawer, Goes, Books, Holds
    <2>3. m = Len(drawer) + 1
      BY <2>0
    <2>4. /\ DOMAIN drawer' = DOMAIN drawer \cup {m}
          /\ drawer'[m] = d /\ \A i \in DOMAIN drawer : drawer'[i] = drawer[i]
      BY ONLY <2>1, <2>2, <2>3, RowsAppended
    <2>5. KeyTaken' /\ OneHolder'
      BY <2>2 DEF KeysInv, KeyTaken, OneHolder
    <2>6. PaidAndGone'
      BY <2>1, <2>2, <2>4 DEF KeysInv, PaidAndGone, KeyTaken, OneHolder
    <2>7. PaymentOnce'
      BY <2>1, <2>2, <2>4 DEF KeysInv, PaymentOnce, PaidAndGone
    <2> QED
      BY <2>5, <2>6, <2>7
  <1>6. ASSUME NEW p \in Payloads, NEW pin \in BOOLEAN, BlockSale(p, pin)
        PROVE  UNCHANGED <<drawer, payRows, pay>>
    BY <1>6 DEF BlockSale
  <1>7. ASSUME NEW id \in DOMAIN sales,
               (\E e \in Edits : EditSale(id, e[1], e[2]))
                 \/ (\E n \in Instalments : UpdateLayaway(id, n))
        PROVE  UNCHANGED <<drawer, payRows, pay>>
    BY <1>0, <1>7, EditMarks
  <1>8. ASSUME NEW c \in Customers, DeleteCustomer(c) PROVE UNCHANGED <<drawer, payRows, pay>>
    BY <1>8 DEF DeleteCustomer
  <1>9. UNCHANGED vars => UNCHANGED <<drawer, payRows, pay>>
    BY DEF vars
  <1>10. UNCHANGED <<drawer, payRows, pay>> => KeyTaken' /\ OneHolder' /\ PaidAndGone' /\ PaymentOnce'
    BY <1>2 DEF Holds
  <1> QED
    BY <1>1, <1>2, <1>3, <1>4, <1>5, <1>6, <1>7, <1>8, <1>9, <1>10
    DEF Next, RefundSale, VoidSale

(***************************************************************************)
(* Attempts with one client_uuid put at most one payment into the drawer,  *)
(* however they interleave and wherever they die.                          *)
(***************************************************************************)
THEOREM PaidOnce == Spec => []PaymentOnce
  <1>1. Init => KeysInv
    BY BaseInit DEF Init, KeysInv, KeyTaken, OneHolder, PaidAndGone, PaymentOnce, Holds
  <1>2. KeysInv => PaymentOnce
    BY DEF KeysInv
  <1> QED
    BY <1>1, <1>2, KeysStep, PTL DEF Spec

(***************************************************************************)
(* The credit.  An attempt that has inserted its row and not yet lowered   *)
(* the credit is still owed its amount, so the payments the credit may     *)
(* already have fallen by are the recorded ones less those.                *)
(***************************************************************************)
\* a retry under one client_uuid repeats the request
RetriesRepeat ==
    \A a, b \in PayAttempts : PayKey[a] = PayKey[b] => PayAmount[a] = PayAmount[b]

Pending == {PayKey[a] : a \in {b \in PayAttempts : pay[b] = "inserted"}}
Credited(c) == IF c = PayCust THEN SumFunctionOnSet(Amounts, payRows \ Pending) ELSE 0

CreditBounded ==
    \A c \in Customers : Untouched(c) =>
        cust[c].credit <= Owed(c) /\ cust[c].credit >= Owed(c) - Credited(c)

CreditInv == KeysInv /\ IsFiniteSet(payRows) /\ CreditBounded

LEMMA AmountOfKey ==
  /\ \A k \in Keys : Amounts[k] \in Nat
  /\ RetriesRepeat => \A a \in PayAttempts : Amounts[PayKey[a]] = PayAmount[a]
  <1> DEFINE of(k) == CHOOSE a \in PayAttempts : PayKey[a] = k
  <1>1. \A k \in Keys : of(k) \in PayAttempts /\ PayKey[of(k)] = k
    BY DEF Keys
  <1>2. \A k \in Keys : Amounts[k] = PayAmount[of(k)]
    BY DEF Amounts
  <1>3. \A a \in PayAttempts : PayKey[a] \in Keys
    BY DEF Keys
  <1> HIDE DEF of
  <1>4. \A k \in Keys : Amounts[k] \in Nat
    BY <1>1, <1>2, PosAssumption
  <1> QED
    BY <1>1, <1>2, <1>3, <1>4 DEF RetriesRepeat

LEMMA CreditedType ==
  ASSUME CreditInv, NEW c
  PROVE  /\ Credited(c) \in Nat
         /\ IsFiniteSet(payRows \ Pending)
         /\ \A k \in payRows : Amounts[k] \in Nat
  <1> DEFINE K == payRows \ Pending
  <1>1. payRows \subseteq Keys
    BY BaseParts DEF CreditInv, KeysInv, BaseRows
  <1>2. IsFiniteSet(K) /\ \A k \in payRows : Amounts[k] \in Nat
    BY <1>1, AmountOfKey, FS_Subset DEF CreditInv
  <1>3. Credited(c) = IF c = PayCust THEN SumFunctionOnSet(Amounts, K) ELSE 0
    BY DEF Credited
  <1>4. \A k \in K : Amounts[k] \in Nat
    BY <1>2
  <1> HIDE DEF K
  <1>5. SumFunctionOnSet(Amounts, K) \in Nat
    BY <1>2, <1>4, SumNat
  <1> QED
    BY <1>2, <1>3, <1>5 DEF K

LEMMA SameCredited ==
  UNCHANGED <<payRows, pay>> => \A c : Credited(c)' = Credited(c)
  BY DEF Credited, Pending, Amounts, Keys

OwedNat == \A c : Owed(c) \in Nat

LEMMA OwedNatNext == Base' => OwedNat'
  <1>1. Base => OwedNat
    BY OpenSumsType DEF OwedNat
  <1> QED
    BY <1>1, PTL

LEMMA CreditStep ==
  ASSUME RetriesRepeat
  PROVE  CreditInv /\ [Next]_vars => CreditInv'
  <1> SUFFICES ASSUME CreditInv, [Next]_vars PROVE IsFiniteSet(payRows)' /\ CreditBounded'
    BY KeysStep DEF CreditInv
  <1>0. Base /\ pay \in [PayAttempts -> {"idle", "checked", "inserted", "settled", "acked", "lost"}]
    BY BaseParts DEF CreditInv, KeysInv, BaseRows
  <1>f. IsFiniteSet(payRows)'
    <2>1. payRows' = payRows \/ \E a \in PayAttempts : payRows' = payRows \cup {PayKey[a]}
      BY DEF Next, vars, CreateSale, BlockSale, RefundSale, VoidSale, Reverse, EditSale, UpdateLayaway,
             DeleteCustomer, PayCheck, PayInsert, PayCredit, PayDrawer, PayLost
    <2> QED
      BY <2>1, FS_AddElement DEF CreditInv
  <1> SUFFICES ASSUME NEW c \in Customers, Untouched(c)'
               PROVE  cust'[c].credit <= Owed(c)' /\ cust'[c].credit >= Owed(c)' - Credited(c)'
    BY <1>f DEF CreditBounded
  <1>1. /\ Owed(c) \in Nat /\ Owed(c)' \in Nat /\ Credited(c) \in Nat
        /\ cust \in [Customers -> Floors] /\ cust[c].credit \in Nat /\ c # NoCust
    <2>1. Owed(c) \in Nat
      BY <1>0, OpenSumsType
    <2>2. Owed(c)' \in Nat
      BY <1>0, BaseStep, OwedNatNext DEF OwedNat
    <2> QED
      BY <1>0, <2>1, <2>2, CreditedType, BaseParts, PosAssumption DEF BaseRows, Floors
  <1>2. cust[c].credit <= Owed(c) /\ cust[c].credit >= Owed(c) - Credited(c)
    BY <1>0, StaysUntouched DEF CreditInv, CreditBounded
  <1>3. ASSUME NEW p \in Payloads, NEW pin \in BOOLEAN, CreateSale(p, pin)
        PROVE  cust'[c].credit <= Owed(c)' /\ cust'[c].credit >= Owed(c)' - Credited(c)'
    <2>0. PICK s : s = NewSale(p)
      OBVIOUS
    <2>1. s.cust = p.cust /\ Owes(s) \in Nat
      BY <1>0, <2>0, NewSaleType, AmountsType DEF NewSale
    <2>2. Owed(c)' = Owed(c) + (IF s.cust = c THEN Owes(s) ELSE 0) /\ Credited(c)' = Credited(c)
      BY <1>0, <1>3, <2>0, SumsOfSale, SameCredited DEF CreateSale
    <2>3. cust'[c].credit = cust[c].credit + (IF s.cust = c THEN Owes(s) ELSE 0)
      <3>1. CASE p.cust = c
        <4>1. cust' = [Redeemed(p) EXCEPT ![c].credit = @ + Owes(s),
                                          ![c].spent = @ + Spends(s),
                                          ![c].points = @ + Awards(s)]
          BY <1>1, <1>3, <2>0, <3>1 DEF CreateSale
        <4>2. Redeemed(p)[c].credit = cust[c].credit
                /\ DOMAIN Redeemed(p) = Customers /\ DOMAIN Redeemed(p)[c] = DOMAIN cust[c]
          BY <1>1, <3>1 DEF Redeemed, Floors
        <4> QED
          BY <1>1, <2>1, <3>1, <4>1, <4>2 DEF Floors
      <3>2. CASE p.cust # c
        <4>1. cust'[c] = cust[c]
          BY <1>1, <1>3, <3>2 DEF CreateSale, Redeemed
        <4> QED
          BY <1>1, <2>1, <3>2, <4>1
      <3> QED
        BY <3>1, <3>2
    <2> QED
      BY <1>1, <1>2, <2>1, <2>2, <2>3
  <1>4. ASSUME NEW id \in DOMAIN sales, Reverse(id)
        PROVE  cust'[c].credit <= Owed(c)' /\ cust'[c].credit >= Owed(c)' - Credited(c)'
    <2>0. PICK s : s = sales[id]
      OBVIOUS
    <2>1. Owes(s) \in Nat
      BY <1>0, <2>0, SalesFinite, AmountsType
    <2>2. Owed(c)' = Owed(c) - (IF s.cust = c THEN Owes(s) ELSE 0) /\ Credited(c)' = Credited(c)
      BY <1>0, <1>4, <2>0, SumsOfReversal, SameCredited DEF Reverse
    <2>3. CASE s.cust = c
      <3>1. cust' = Restored(s)
        BY <1>1, <1>4, <2>0, <2>3 DEF Reverse
      <3>2. cust'[c].credit = Positive(cust[c].credit - Owes(s))
        BY <1>1, <2>3, <3>1 DEF Restored, Floors
      <3> QED
        BY <1>1, <1>2, <2>1, <2>2, <2>3, <3>2 DEF Positive
    <2>4. CASE s.cust # c
      <3>1. cust'[c] = cust[c]
        BY <1>1, <1>4, <2>0, <2>4 DEF Reverse, Restored
      <3> QED
        BY <1>1, <1>2, <2>2, <2>4, <3>1
    <2> QED
      BY <2>3, <2>4
  <1>5. ASSUME NEW id \in DOMAIN sales,
               (\E e \in Edits : EditSale(id, e[1], e[2]))
                 \/ (\E n \in Instalments : UpdateLayaway(id, n))
        PROVE  cust'[c].credit <= Owed(c)' /\ cust'[c].credit >= Owed(c)' - Credited(c)'
    <2>1. /\ DOMAIN sales' = DOMAIN sales /\ sales'[id].cust = sales[id].cust
          /\ \A k \in DOMAIN sales : k # id => sales'[k] = sales[k]
          /\ UNCHANGED <<cust, payRows, pay>>
      BY <1>0, <1>5, EditMarks
    <2>2. sales[id].cust # c
      BY <1>0, <1>5, StaysUntouched
    <2>3. Owed(c)' = Owed(c) /\ Credited(c)' = Credited(c)
      BY <1>0, <2>1, <2>2, SumsKept, SameCredited
    <2> QED
      BY <1>2, <2>1, <2>3
  <1>6. ASSUME UNCHANGED sales, cust'[c].credit = cust[c].credit, Credited(c)' \in Nat, Credited(c)' >= Credited(c)
        PROVE  cust'[c].credit <= Owed(c)' /\ cust'[c].credit >= Owed(c)' - Credited(c)'
    <2>1. Owed(c)' = Owed(c)
      BY <1>0, <1>6, SumsKept
    <2> QED
      BY <1>1, <1>2, <1>6, <2>1
  <1>7. ASSUME UNCHANGED <<sales, payRows, pay>>, cust'[c].credit = cust[c].credit
        PROVE  cust'[c].credit <= Owed(c)' /\ cust'[c].credit >= Owed(c)' - Credited(c)'
    BY <1>1, <1>6, <1>7, SameCredited
  <1>8. ASSUME NEW p \in Payloads, NEW pin \in BOOLEAN, BlockSale(p, pin)
        PROVE  UNCHANGED <<sales, payRows, pay>> /\ cust'[c].credit = cust[c].credit
    BY <1>1, <1>8 DEF BlockSale, Redeemed, Floors
  <1>9. ASSUME NEW k \in Customers, DeleteCustomer(k)
        PROVE  UNCHANGED <<sales, payRows, pay>> /\ cust'[c].credit = cust[c].credit
    BY <1>1, <1>9 DEF DeleteCustomer, Floors
  \* steps of a payment: what is recorded and no longer pending only grows
  <1>s. ASSUME UNCHANGED <<sales, cust>>, payRows \ Pending \subseteq payRows' \ Pending'
        PROVE  cust'[c].credit <= Owed(c)' /\ cust'[c].credit >= Owed(c)' - Credited(c)'
    <2> DEFINE K == payRows \ Pending
               L == payRows' \ Pending'
    <2>1. payRows' \subseteq Keys
      BY <1>0, BaseStep, BasePartsNext DEF BaseRows
    <2>2. IsFiniteSet(L) /\ \A k \in L : Amounts[k] \in Nat
      BY <1>f, <2>1, AmountOfKey, FS_Subset
    <2>3. Credited(c) = (IF c = PayCust THEN SumFunctionOnSet(Amounts, K) ELSE 0)
            /\ Credited(c)' = (IF c = PayCust THEN SumFunctionOnSet(Amounts, L) ELSE 0)
      BY DEF Credited, Amounts, Keys
    <2>4. K \in SUBSET L
      BY <1>s
    <2> HIDE DEF K, L
    <2>5. SumFunctionOnSet(Amounts, K) <= SumFunctionOnSet(Amounts, L)
            /\ SumFunctionOnSet(Amounts, L) \in Nat
      BY <2>2, <2>4, SumMonotone, SumNat
    <2> QED
      BY <1>1, <1>6, <1>s, <2>3, <2>5
  <1>10. ASSUME NEW a \in PayAttempts, PayCheck(a) \/ PayDrawer(a) \/ PayLost(a)
         PROVE  UNCHANGED <<sales, cust>> /\ payRows \ Pending \subseteq payRows' \ Pending'
    BY <1>0, <1>10 DEF PayCheck, PayDrawer, PayLost, Goes, Books, Pending
  <1>11. ASSUME NEW a \in PayAttempts, PayInsert(a)
         PROVE  UNCHANGED <<sales, cust>> /\ payRows \ Pending \subseteq payRows' \ Pending'
    BY <1>0, <1>11 DEF PayInsert, Goes, Books, Pending
  <1>12. ASSUME NEW a \in PayAttempts, PayCredit(a)
         PROVE  cust'[c].credit <= Owed(c)' /\ cust'[c].credit >= Owed(c)' - Credited(c)'
    <2>0. PICK k : k = PayKey[a]
      OBVIOUS
    <2> DEFINE K == payRows \ Pending
               L == payRows' \ Pending'
    <2>1. /\ UNCHANGED <<sales, payRows>> /\ pay[a] = "inserted" /\ pay' = [pay EXCEPT ![a] = "settled"]
          /\ cust' = [cust EXCEPT ![PayCust].credit = Positive(@ - PayAmount[a])]
      BY <1>12 DEF PayCredit, Goes, Books
    <2>2. k \in payRows /\ k \in Pending /\ \A b \in PayAttempts : pay[b] = "inserted" /\ PayKey[b] = k => b = a
      BY <1>0, <2>0, <2>1 DEF CreditInv, KeysInv, KeyTaken, OneHolder, Holds, Pending
    <2>3. Pending' = Pending \ {k}
      BY <1>0, <2>0, <2>1, <2>2 DEF Pending
    <2>4. L = K \cup {k} /\ k \notin K
      BY <2>1, <2>2, <2>3
    <2>5. Amounts[k] = PayAmount[a] /\ PayAmount[a] \in Nat
      BY <2>0, AmountOfKey, PosAssumption
    <2>6. IsFiniteSet(K) /\ \A x \in K : Amounts[x] \in Int
      BY CreditedType
    <2>7. Credited(c) = (IF c = PayCust THEN SumFunctionOnSet(Amounts, K) ELSE 0)
            /\ Credited(c)' = (IF c = PayCust THEN SumFunctionOnSet(Amounts, L) ELSE 0)
      BY DEF Credited, Amounts, Keys
    <2>8. Owed(c)' = Owed(c)
      BY <1>0, <2>1, SumsKept
    <2> HIDE DEF K, L
    <2>9. SumFunctionOnSet(Amounts, L) = SumFunctionOnSet(Amounts, K) + Amounts[k]
      BY <2>4, <2>5, <2>6, SumJoin
    <2>10. CASE c = PayCust
      <3>1. cust'[c].credit = Positive(cust[c].credit - PayAmount[a])
        BY <1>1, <2>1, <2>10 DEF Floors
      <3>2. Credited(c)' = Credited(c) + PayAmount[a]
        BY <2>5, <2>7, <2>9, <2>10
      <3> QED
        BY <1>1, <1>2, <2>5, <2>8, <3>1, <3>2 DEF Positive
    <2>11. CASE c # PayCust
      <3>1. cust'[c] = cust[c] /\ Credited(c) = 0 /\ Credited(c)' = 0
        BY <1>1, <2>1, <2>7, <2>11
      <3> QED
        BY <1>1, <1>2, <2>8, <3>1
    <2> QED
      BY <2>10, <2>11
  <1>13. UNCHANGED vars => UNCHANGED <<sales, payRows, pay>> /\ cust'[c].credit = cust[c].credit
    BY DEF vars
  <1> QED
    BY <1>3, <1>4, <1>5, <1>7, <1>8, <1>9, <1>s, <1>10, <1>11, <1>12, <1>13
    DEF Next, RefundSale, VoidSale

(***************************************************************************)
(* Credit follows the sales: while retries repeat their amount, a          *)
(* customer's credit stays between what the standing sales left unpaid and *)
(* that less the recorded payments, wherever a payment dies on the way.    *)
(***************************************************************************)
THEOREM CreditAddsUp ==
  ASSUME RetriesRepeat
  PROVE  Spec => []CreditFollowsSales
  <1>1. Init => CreditInv
    <2> SUFFICES ASSUME Init PROVE CreditInv
      OBVIOUS
    <2>1. KeysInv
      BY BaseInit DEF Init, KeysInv, KeyTaken, OneHolder, PaidAndGone, PaymentOnce, Holds
    <2>2. payRows = {} /\ IsFiniteSet(payRows)
      BY FS_EmptySet DEF Init
    <2>3. ASSUME NEW c \in Customers PROVE cust[c].credit = 0 /\ Owed(c) = 0 /\ Credited(c) = 0
      <3>1. OpenSales(c) = {} /\ payRows \ Pending = {}
        BY <2>2 DEF Init, OpenSales, Standing
      <3>2. Owed(c) = 0 /\ Credited(c) = 0
        BY <3>1, SumEmpty DEF Owed, Credited
      <3> QED
        BY <3>2 DEF Init
    <2>4. CreditBounded
      BY <2>3 DEF CreditBounded
    <2> QED
      BY <2>1, <2>2, <2>4 DEF CreditInv
  <1>2. CreditInv /\ [Next]_vars => CreditInv'
    BY CreditStep
  <1>3. CreditInv => CreditFollowsSales
    <2> SUFFICES ASSUME CreditInv, NEW c \in Customers, Untouched(c)
                 PROVE  cust[c].credit \in (Owed(c) - PaidIn(c)) .. Owed(c)
      BY DEF CreditFollowsSales
    <2> DEFINE K == payRows \ Pending
    <2>1. Credited(c) \in Nat /\ \A k \in payRows : Amounts[k] \in Nat
      BY CreditedType
    <2>2. K \in SUBSET payRows /\ IsFiniteSet(payRows)
      BY DEF CreditInv
    <2>3. Credited(c) = IF c = PayCust THEN SumFunctionOnSet(Amounts, K) ELSE 0
      BY DEF Credited
    <2> HIDE DEF K
    <2>4. SumFunctionOnSet(Amounts, K) <= SumFunctionOnSet(Amounts, payRows)
            /\ SumFunctionOnSet(Amounts, payRows) \in Nat
      BY <2>1, <2>2, SumMonotone, SumNat
    <2>5. Credited(c) <= PaidIn(c) /\ PaidIn(c) \in Nat
      BY <2>3, <2>4 DEF PaidIn
    <2>6. Owed(c) \in Nat /\ cust[c].credit \in Nat
      BY OpenSumsType, BaseParts DEF CreditInv, KeysInv, BaseRows, Floors
    <2>7. cust[c].credit <= Owed(c) /\ cust[c].credit >= Owed(c) - Credited(c)
      BY DEF CreditInv, CreditBounded
    <2> QED
      BY <2>1, <2>5, <2>6, <2>7
  <1> QED
    BY <1>1, <1>2, <1>3, PTL DEF Spec

====
