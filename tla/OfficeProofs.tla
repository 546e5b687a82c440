---- MODULE OfficeProofs ----
(***************************************************************************)
(* Invariants of the parts of MCOffice, and that every step keeps them,    *)
(* for all values of its constants: any staff, salaries, requests, rows of *)
(* the till, proposals, copies and boots.  Each part is proved on its own  *)
(* instance; BackOfficeProofs draws the theorems.                          *)
(***************************************************************************)
EXTENDS MCOffice, SumTheorems, TLAPS

-----------------------------------------------------------------------------
(***************************************************************************)
(* v1 = salary, v2 = record, v3 = expense, v4 = advances, v5 = cash,       *)
(* v6 = handed, v7 = worker, v9 = raced, v10 = late, v11 = torn,           *)
(* v12 = dropped.  PayrollCountedOnce speaks of quiet moments; in between, *)
(* the one request that is busy with an employee stands at a statement,    *)
(* and Fits says what the employee's rows are there.                       *)
(***************************************************************************)
Rec == [exists : BOOLEAN, salary : Nat, taken : Nat, extra : Int, advances : Int,
        payable : Int, status : {"draft", "paid"}, linked : BOOLEAN]
Post == [rows : Nat, amount : Int]
Rows == [id : Nat, e : Employees]
Places == {"drafts", "upsert", "recompute", "derived", "sync", "hand", "unhand", "stamp",
           "payout", "uncash", "drop"}
Busy == [at : Places, e : Employees, amount : {0}, taken : Nat, rec : Rec, id : Nat]

PayType ==
    /\ v1 \in [Employees -> Nat]
    /\ v2 \in [Employees -> Rec]
    /\ v3 \in [Employees -> Post]
    /\ v4 \in SUBSET Rows /\ IsFiniteSet(v4)
    /\ v5 \in [Employees -> Int]
    /\ v6 \in SUBSET Rows /\ IsFiniteSet(v6)
    /\ v7 \in [Workers -> {Payroll!resting} \cup Busy]

Own(rows, e) == {a \in rows : a.e = e}
Out(rows) == AdvancePay * Cardinality(rows)
Cost(rec) == rec.salary + rec.extra
Owes(rec, given) ==
    /\ rec.extra = Payroll!ExtraPay(rec.salary, rec.taken)
    /\ rec.payable = Cost(rec) - given

\* no statement of the request at this place has changed the record yet
Calm == {"idle", "drafts", "upsert", "stamp", "payout"}

\* What the record of an employee is at every place of a request,
RecordFits(e, job, sal, rec, cash, given, out, late) ==
    /\ ~rec.exists => rec = Payroll!none /\ cash = 0
    /\ rec.status = "draft" => cash = 0
    /\ rec.exists /\ rec.status = "draft" /\ job.at # "drafts" => rec.salary = sal
    /\ rec.exists /\ job.at \in Calm \cup {"sync"} => Owes(rec, given)
    /\ job.at \in {"derived", "sync", "stamp", "payout", "uncash", "drop"} => rec.exists
    /\ job.at = "upsert" =>
          /\ job.rec.salary = sal /\ Owes(job.rec, given)
          /\ job.rec.exists = rec.exists /\ job.rec.status = rec.status
          /\ job.rec.linked = rec.linked
    /\ job.at = "derived" =>
          /\ job.rec.salary = rec.salary /\ job.rec.taken = rec.taken
          /\ Owes(job.rec, given)
    /\ job.at \in {"stamp", "payout"} => job.rec.payable = rec.payable
    /\ job.at = "stamp" => rec.status = "draft"
    /\ job.at = "payout" => rec.status = "paid"
    /\ job.at \in {"payout", "drop"} => cash = 0
    /\ job.at \in {"upsert", "hand", "unhand", "recompute", "derived", "sync"} =>
          (rec.status = "paid" => e \in late)
    /\ job.at \notin {"payout", "uncash", "drop"} /\ rec.status = "paid" /\ e \notin late =>
          out + cash = Cost(rec)

\* its expense row,
ExpenseFits(e, job, rec, post, gone) ==
    /\ ~rec.exists => post.rows = 0
    /\ rec.exists /\ job.at \notin {"sync", "uncash", "drop"} =>
          rec.linked /\ post.rows = IF e \in gone THEN 0 ELSE 1
    /\ rec.exists /\ job.at \in Calm /\ e \notin gone => post.amount = Cost(rec)
    /\ job.at = "sync" => post.rows \in {0, 1} /\ (post.rows = 1 => rec.linked)
    /\ job.at \in {"uncash", "drop"} => post.rows = 0

\* and the advances that have a drawer row.
AdvancesFit(e, job, adv, han) ==
    LET row == [id |-> job.id, e |-> e] IN
    /\ job.at = "hand" => adv = han \cup {row}
    /\ job.at = "unhand" => adv = han \ {row}
    /\ job.at \notin {"hand", "unhand"} => adv = han

Fits(e, job) ==
    /\ RecordFits(e, job, v1[e], v2[e], v5[e], Out(Own(v4, e)), Out(Own(v6, e)), v10)
    /\ ExpenseFits(e, job, v2[e], v3[e], v12)
    /\ AdvancesFit(e, job, Own(v4, e), Own(v6, e))

Person(e) ==
    /\ \A w, o \in Workers : v7[w].e = e /\ v7[o].e = e => w = o
    /\ \A w \in Workers : v7[w].e = e => Fits(e, v7[w])
    /\ (\A w \in Workers : v7[w].e # e) => Fits(e, Payroll!resting)

PayInv == PayType /\ \A e \in Employees \ (v9 \cup v11) : Person(e)

-----------------------------------------------------------------------------
(***************************************************************************)
(* Records and requests keep their shape.                                  *)
(***************************************************************************)
LEMMA NoneIsRec == Payroll!none \in Rec
BY DEF Payroll!none, Rec

LEMMA ExtraType ==
    ASSUME NEW monthly \in Nat, NEW taken \in Nat
    PROVE  Payroll!ExtraPay(monthly, taken) \in Int
<1>1. monthly \div 30 \in Int
  OBVIOUS
<1>2. PICK d \in Int : d = monthly \div 30
  BY <1>1
<1>3. (4 - taken) * d \in Int
  OBVIOUS
<1> QED BY <1>2, <1>3 DEF Payroll!ExtraPay, Payroll!AllowedOff, Payroll!DaysBasis

\* What a statement writes into a record.
LEMMA SetSalaryIs ==
    ASSUME NEW rec \in Rec, NEW s \in Nat, NEW new, new = [rec EXCEPT !.salary = s]
    PROVE  /\ new \in Rec /\ new.salary = s
           /\ new.exists = rec.exists /\ new.taken = rec.taken /\ new.status = rec.status
           /\ new.linked = rec.linked
BY DEF Rec

LEMMA SetTermsIs ==
    ASSUME NEW rec \in Rec, NEW s \in Nat, NEW t \in Nat,
           NEW new, new = [rec EXCEPT !.salary = s, !.taken = t]
    PROVE  /\ new \in Rec /\ new.salary = s /\ new.taken = t
           /\ new.exists = rec.exists /\ new.status = rec.status /\ new.linked = rec.linked
BY DEF Rec

LEMMA SetFiguresIs ==
    ASSUME NEW rec \in Rec, NEW x \in Int, NEW a \in Int, NEW p \in Int,
           NEW new, new = [rec EXCEPT !.extra = x, !.advances = a, !.payable = p]
    PROVE  /\ new \in Rec /\ new.extra = x /\ new.payable = p
           /\ new.salary = rec.salary /\ new.taken = rec.taken
           /\ new.exists = rec.exists /\ new.status = rec.status /\ new.linked = rec.linked
BY DEF Rec

LEMMA ComputedIs ==
    \A rec \in Rec, given \in Int :
        LET new == Payroll!Computed(rec, given) IN
        /\ new \in Rec /\ Owes(new, given)
        /\ new.salary = rec.salary /\ new.taken = rec.taken
        /\ new.exists = rec.exists /\ new.status = rec.status /\ new.linked = rec.linked
<1>0. SUFFICES ASSUME NEW rec \in Rec, NEW given \in Int, NEW new, new = Payroll!Computed(rec, given)
               PROVE  /\ new \in Rec /\ Owes(new, given)
                      /\ new.salary = rec.salary /\ new.taken = rec.taken
                      /\ new.exists = rec.exists /\ new.status = rec.status
                      /\ new.linked = rec.linked
  OBVIOUS
<1>1. PICK x \in Int : x = Payroll!ExtraPay(rec.salary, rec.taken)
  BY ExtraType DEF Rec
<1>2. PICK p \in Int : p = rec.salary + x - given
  BY DEF Rec
<1>3. new = [rec EXCEPT !.extra = x, !.advances = given, !.payable = p]
  BY <1>0, <1>1, <1>2 DEF Payroll!Computed
<1>4. /\ new \in Rec /\ new.extra = x /\ new.payable = p
      /\ new.salary = rec.salary /\ new.taken = rec.taken
      /\ new.exists = rec.exists /\ new.status = rec.status /\ new.linked = rec.linked
  BY <1>3 DEF Rec
<1>5. new.extra = Payroll!ExtraPay(new.salary, new.taken)
  <2>1. Payroll!ExtraPay(new.salary, new.taken) = Payroll!ExtraPay(rec.salary, rec.taken)
    BY <1>4
  <2> QED BY <1>1, <1>4, <2>1
<1>6. new.payable = Cost(new) - given
  <2>1. Cost(new) = rec.salary + x
    BY <1>4 DEF Cost
  <2> QED BY <1>2, <1>4, <2>1 DEF Rec
<1>7. Owes(new, given)
  BY <1>5, <1>6 DEF Owes
<1> QED BY <1>4, <1>7

LEMMA SlipComputed ==
    ASSUME NEW rec \in Rec, NEW given \in Int, NEW slip, slip = Payroll!Computed(rec, given)
    PROVE  /\ slip \in Rec /\ Owes(slip, given)
           /\ slip.salary = rec.salary /\ slip.taken = rec.taken
           /\ slip.exists = rec.exists /\ slip.status = rec.status /\ slip.linked = rec.linked
BY ComputedIs

LEMMA SetStatusIs ==
    ASSUME NEW rec \in Rec, NEW s \in {"draft", "paid"}, NEW new, new = [rec EXCEPT !.status = s]
    PROVE  /\ new \in Rec /\ new.status = s
           /\ new.exists = rec.exists /\ new.salary = rec.salary /\ new.taken = rec.taken
           /\ new.extra = rec.extra /\ new.payable = rec.payable /\ new.linked = rec.linked
BY DEF Rec

LEMMA SetLinkedIs ==
    ASSUME NEW rec \in Rec, NEW new, new = [rec EXCEPT !.linked = TRUE]
    PROVE  /\ new \in Rec /\ new.linked
           /\ new.exists = rec.exists /\ new.salary = rec.salary /\ new.taken = rec.taken
           /\ new.extra = rec.extra /\ new.payable = rec.payable /\ new.status = rec.status
BY DEF Rec

LEMMA SetExistsIs ==
    ASSUME NEW rec \in Rec, NEW new, new = [rec EXCEPT !.exists = TRUE]
    PROVE  /\ new \in Rec /\ new.exists
           /\ new.salary = rec.salary /\ new.taken = rec.taken /\ new.extra = rec.extra
           /\ new.payable = rec.payable /\ new.status = rec.status /\ new.linked = rec.linked
BY DEF Rec

\* A request goes to its next place.
LEMMA GoesIs ==
    ASSUME NEW job \in Busy, NEW place \in Places, NEW new, new = [job EXCEPT !.at = place]
    PROVE  /\ new \in Busy /\ new.at = place
           /\ new.e = job.e /\ new.taken = job.taken /\ new.rec = job.rec /\ new.id = job.id
BY DEF Busy

LEMMA SlipIs ==
    ASSUME NEW job \in Busy, NEW rec \in Rec,
           NEW new, new = [job EXCEPT !.at = "derived", !.rec = rec]
    PROVE  /\ new \in Busy /\ new.at = "derived" /\ new.rec = rec
           /\ new.e = job.e /\ new.taken = job.taken /\ new.id = job.id
BY DEF Busy, Places

-----------------------------------------------------------------------------
(***************************************************************************)
(* What a request does to the record it is busy with.                      *)
(***************************************************************************)

\* A request enters.
LEMMA RecordEnters ==
    ASSUME NEW e, NEW sal \in Nat, NEW rec \in Rec, NEW cash \in Int,
           NEW given \in Int, NEW out \in Int, NEW late, NEW old, NEW new,
           RecordFits(e, old, sal, rec, cash, given, out, late),
           old.at = "idle",
           NEW sal2, NEW given2, NEW late2,
           \/ /\ new.at = "drafts"
              /\ given2 = given /\ (e \in late2 <=> e \in late)
           \/ /\ new.at = "upsert"
              /\ new.rec.salary = sal /\ Owes(new.rec, given)
              /\ new.rec.exists = rec.exists /\ new.rec.status = rec.status
              /\ new.rec.linked = rec.linked
              /\ sal2 = sal /\ given2 = given /\ (e \in late2 <=> e \in late \/ rec.status = "paid")
           \/ /\ new.at \in {"hand", "unhand"}
              /\ sal2 = sal /\ (e \in late2 <=> e \in late \/ rec.status = "paid")
           \/ /\ new.at = "stamp" /\ rec.exists /\ rec.status # "paid" /\ new.rec = rec
              /\ sal2 = sal /\ given2 = given /\ (e \in late2 <=> e \in late)
           \/ /\ new.at = "uncash" /\ rec.exists
              /\ sal2 = sal /\ given2 = given /\ (e \in late2 <=> e \in late)
    PROVE  RecordFits(e, new, sal2, rec, cash, given2, out, late2)
BY DEF RecordFits, Calm, Rec

\* A statement that leaves the record as it is.
LEMMA RecordMoves ==
    ASSUME NEW e, NEW sal \in Nat, NEW rec \in Rec, NEW cash \in Int,
           NEW given \in Int, NEW out \in Int, NEW late, NEW old, NEW new,
           RecordFits(e, old, sal, rec, cash, given, out, late),
           NEW out2,
           \/ /\ old.at = "drafts" /\ new.at = "idle" /\ ~(rec.exists /\ rec.status = "draft")
              /\ out2 = out
           \/ old.at \in {"hand", "unhand"} /\ new.at = "recompute"
           \/ old.at = "recompute" /\ new.at = "idle" /\ ~rec.exists /\ out2 = out
           \/ /\ old.at = "recompute" /\ new.at = "derived" /\ rec.exists /\ out2 = out
              /\ new.rec.salary = rec.salary /\ new.rec.taken = rec.taken
              /\ Owes(new.rec, given)
    PROVE  RecordFits(e, new, sal, rec, cash, given, out2, late)
BY DEF RecordFits, Calm, Rec, Payroll!none

\* RefreshDraft
LEMMA DraftRefreshed ==
    ASSUME NEW e, NEW sal \in Nat, NEW rec \in Rec, NEW cash \in Int,
           NEW given \in Int, NEW out \in Int, NEW late, NEW old, NEW new,
           RecordFits(e, old, sal, rec, cash, given, out, late),
           old.at = "drafts", new.at = "recompute",
           rec.exists /\ rec.status = "draft",
           NEW rec2, rec2 = [rec EXCEPT !.salary = sal]
    PROVE  RecordFits(e, new, sal, rec2, cash, given, out, late)
<1>1. /\ rec2 \in Rec /\ rec2.salary = sal /\ rec2.exists = rec.exists
      /\ rec2.status = rec.status
  BY SetSalaryIs
<1> QED BY <1>1 DEF RecordFits, Calm, Rec

\* UpsertWrite, of an existing record
LEMMA RecordWritten ==
    ASSUME NEW e, NEW sal \in Nat, NEW rec \in Rec, NEW cash \in Int,
           NEW given \in Int, NEW out \in Int, NEW late, NEW old, NEW new,
           RecordFits(e, old, sal, rec, cash, given, out, late),
           old.at = "upsert", new.at = "recompute", rec.exists,
           NEW rec2, rec2.salary = old.rec.salary, rec2.exists = rec.exists,
           rec2.status = rec.status
    PROVE  RecordFits(e, new, sal, rec2, cash, given, out, late)
BY DEF RecordFits, Calm, Rec

\* and of a new one
LEMMA RecordInserted ==
    ASSUME NEW e, NEW sal \in Nat, NEW rec \in Rec, NEW cash \in Int,
           NEW given \in Int, NEW out \in Int, NEW late, NEW old, NEW new,
           RecordFits(e, old, sal, rec, cash, given, out, late),
           old.at = "upsert", new.at = "sync", ~rec.exists,
           NEW rec2, rec2.exists, rec2.salary = old.rec.salary, rec2.taken = old.rec.taken,
           rec2.extra = old.rec.extra, rec2.payable = old.rec.payable,
           rec2.status = old.rec.status, rec2.linked = old.rec.linked
    PROVE  RecordFits(e, new, sal, rec2, cash, given, out, late) /\ ~rec2.linked
<1>1. rec = Payroll!none /\ cash = 0 /\ Owes(old.rec, given) /\ old.rec.salary = sal
  BY DEF RecordFits
<1>2. old.rec.status = "draft" /\ ~old.rec.linked
  BY <1>1 DEF Payroll!none, RecordFits
<1>3. Owes(rec2, given)
  BY <1>1 DEF Owes, Cost
<1> QED BY <1>1, <1>2, <1>3 DEF RecordFits, Calm

\* RecomputeWrite
LEMMA RecordRecomputed ==
    ASSUME NEW e, NEW sal \in Nat, NEW rec \in Rec, NEW cash \in Int,
           NEW given \in Int, NEW out \in Int, NEW late, NEW old, NEW new,
           RecordFits(e, old, sal, rec, cash, given, out, late),
           old.at = "derived", new.at = "sync",
           NEW rec2, rec2.extra = old.rec.extra, rec2.payable = old.rec.payable,
           rec2.salary = rec.salary, rec2.taken = rec.taken,
           rec2.exists = rec.exists, rec2.status = rec.status
    PROVE  RecordFits(e, new, sal, rec2, cash, given, out, late)
<1>1. Owes(rec2, given)
  BY DEF RecordFits, Owes, Cost
<1> QED BY <1>1 DEF RecordFits, Calm

\* SyncExpense
LEMMA RecordSynced ==
    ASSUME NEW e, NEW sal \in Nat, NEW rec \in Rec, NEW cash \in Int,
           NEW given \in Int, NEW out \in Int, NEW late, NEW old, NEW new,
           RecordFits(e, old, sal, rec, cash, given, out, late),
           old.at = "sync", new.at = "idle", given = out,
           NEW rec2, rec2 = [rec EXCEPT !.linked = TRUE]
    PROVE  RecordFits(e, new, sal, rec2, cash, given, out, late)
<1>1. /\ rec2.exists = rec.exists /\ rec2.salary = rec.salary /\ rec2.taken = rec.taken
      /\ rec2.extra = rec.extra /\ rec2.payable = rec.payable /\ rec2.status = rec.status
  BY SetLinkedIs
<1>2. Owes(rec, given) => Owes(rec2, given)
  BY <1>1 DEF Owes, Cost
<1> QED BY <1>1, <1>2 DEF RecordFits, Calm, Rec

\* PayStamp
LEMMA RecordStamped ==
    ASSUME NEW e, NEW sal \in Nat, NEW rec \in Rec, NEW cash \in Int,
           NEW given \in Int, NEW out \in Int, NEW late, NEW old, NEW new,
           RecordFits(e, old, sal, rec, cash, given, out, late),
           old.at = "stamp", new.at = "payout", new.rec = old.rec,
           NEW rec2, rec2 = [rec EXCEPT !.status = "paid"]
    PROVE  RecordFits(e, new, sal, rec2, cash, given, out, late)
<1>1. /\ rec2.exists = rec.exists /\ rec2.salary = rec.salary /\ rec2.taken = rec.taken
      /\ rec2.extra = rec.extra /\ rec2.payable = rec.payable /\ rec2.status = "paid"
  BY SetStatusIs
<1>2. Owes(rec, given) => Owes(rec2, given)
  BY <1>1 DEF Owes, Cost
<1> QED BY <1>1, <1>2 DEF RecordFits, Calm, Rec

\* PayOut
LEMMA RecordPaid ==
    ASSUME NEW e, NEW sal \in Nat, NEW rec \in Rec, NEW cash \in Int,
           NEW given \in Int, NEW out \in Int, NEW late, NEW old, NEW new,
           RecordFits(e, old, sal, rec, cash, given, out, late),
           old.at = "payout", new.at = "idle", given = out,
           NEW cash2, cash2 = cash + old.rec.payable
    PROVE  RecordFits(e, new, sal, rec, cash2, given, out, late)
<1>1. Owes(rec, given) /\ cash = 0 /\ old.rec.payable = rec.payable /\ rec.exists /\ rec.status = "paid"
  BY DEF RecordFits, Calm
<1>2. out + cash2 = Cost(rec)
  <2>1. PICK c \in Int : c = Cost(rec)
    BY DEF Cost, Rec
  <2>2. rec.payable = c - given
    BY <1>1, <2>1 DEF Owes
  <2> QED BY <1>1, <2>1, <2>2
<1> QED BY <1>1, <1>2 DEF RecordFits, Calm

\* DeleteCash
LEMMA RecordUncashed ==
    ASSUME NEW e, NEW sal \in Nat, NEW rec \in Rec, NEW cash \in Int,
           NEW given \in Int, NEW out \in Int, NEW late, NEW old, NEW new,
           RecordFits(e, old, sal, rec, cash, given, out, late),
           old.at = "uncash", new.at = "drop"
    PROVE  RecordFits(e, new, sal, rec, 0, given, out, late)
BY DEF RecordFits, Calm, Rec

\* DeleteRecord
LEMMA RecordDropped ==
    ASSUME NEW e, NEW sal \in Nat, NEW rec \in Rec, NEW cash \in Int,
           NEW given \in Int, NEW out \in Int, NEW late, NEW old, NEW new,
           RecordFits(e, old, sal, rec, cash, given, out, late),
           old.at = "drop", new.at = "idle", NEW late2
    PROVE  RecordFits(e, new, sal, Payroll!none, cash, given, out, late2)
BY DEF RecordFits, Calm, Payroll!none

\* A statement that leaves the expense row, and what it should hold, as they are.
LEMMA ExpenseKept ==
    ASSUME NEW e, NEW rec, NEW post \in Post, NEW gone, NEW old, NEW new,
           ExpenseFits(e, old, rec, post, gone),
           old.at \notin {"sync", "uncash", "drop"}, new.at \notin {"uncash", "drop"},
           NEW rec2, rec2.exists = rec.exists, rec2.linked = rec.linked,
           new.at \in Calm /\ rec.exists => old.at \in Calm /\ Cost(rec2) = Cost(rec)
    PROVE  ExpenseFits(e, new, rec2, post, gone)
BY DEF ExpenseFits, Calm, Post

\* UpsertWrite, of a new record
LEMMA ExpenseAwaited ==
    ASSUME NEW e, NEW rec, NEW post \in Post, NEW gone, NEW old, NEW new,
           ExpenseFits(e, old, rec, post, gone),
           ~rec.exists, new.at = "sync", NEW rec2, rec2.exists, ~rec2.linked
    PROVE  ExpenseFits(e, new, rec2, post, gone)
BY DEF ExpenseFits, Calm, Post

\* SyncExpense
LEMMA ExpenseSynced ==
    ASSUME NEW e, NEW rec, NEW post \in Post, NEW gone, NEW old, NEW new,
           ExpenseFits(e, old, rec, post, gone),
           old.at = "sync", new.at = "idle", rec.exists,
           NEW rec2, rec2.linked, Cost(rec2) = Cost(rec),
           NEW post2, post2.amount = Cost(rec),
           post2.rows = IF rec.linked /\ post.rows > 0 THEN post.rows ELSE post.rows + 1,
           NEW gone2, e \notin gone2, rec2.exists = rec.exists
    PROVE  ExpenseFits(e, new, rec2, post2, gone2)
BY DEF ExpenseFits, Calm, Post

\* DeleteExpense
LEMMA ExpenseDeleted ==
    ASSUME NEW e, NEW rec, NEW post \in Post, NEW gone, NEW old, NEW new,
           ExpenseFits(e, old, rec, post, gone),
           new = old, NEW post2, post2.rows = 0, NEW gone2, e \in gone2
    PROVE  ExpenseFits(e, new, rec, post2, gone2)
BY DEF ExpenseFits, Calm, Post

\* DeleteRead
LEMMA ExpenseRemoved ==
    ASSUME NEW e, NEW rec, NEW post \in Post, NEW gone, NEW old, NEW new,
           ExpenseFits(e, old, rec, post, gone),
           old.at = "idle", new.at = "uncash", rec.exists,
           NEW post2, post2 = IF rec.linked THEN [rows |-> 0, amount |-> 0] ELSE post
    PROVE  ExpenseFits(e, new, rec, post2, gone)
BY DEF ExpenseFits, Calm, Post

\* DeleteCash and DeleteRecord
LEMMA ExpenseGone ==
    ASSUME NEW e, NEW rec, NEW post \in Post, NEW gone, NEW old, NEW new,
           ExpenseFits(e, old, rec, post, gone),
           old.at \in {"uncash", "drop"}, NEW rec2,
           \/ new.at = "drop" /\ rec2 = rec
           \/ new.at = "idle" /\ rec2 = Payroll!none
    PROVE  ExpenseFits(e, new, rec2, post, gone)
BY DEF ExpenseFits, Calm, Post, Payroll!none

-----------------------------------------------------------------------------
(***************************************************************************)
(* A step of a request is about one employee.                              *)
(***************************************************************************)
Elsewhere(e) ==
    \A x \in Employees \ {e} :
        /\ v1'[x] = v1[x] /\ v2'[x] = v2[x] /\ v3'[x] = v3[x] /\ v5'[x] = v5[x]
        /\ Own(v4, x)' = Own(v4, x) /\ Own(v6, x)' = Own(v6, x)
        /\ x \in v10' <=> x \in v10
        /\ x \in v12' <=> x \in v12

LEMMA RestsIdle ==
    ASSUME PayType, NEW w \in Workers
    PROVE  /\ v7[w].at = "idle" <=> v7[w] = Payroll!resting
           /\ v7[w].at # "idle" => v7[w] \in Busy
           /\ Payroll!resting.at = "idle" /\ Payroll!resting.e = "none"
           /\ "none" \notin Employees
BY OfficeAssumption DEF PayType, Busy, Places, Payroll!resting

LEMMA FitsElsewhere ==
    ASSUME NEW e, Elsewhere(e), NEW x \in Employees \ {e}, NEW job, Fits(x, job)
    PROVE  Fits(x, job)'
<1>1. /\ v1'[x] = v1[x] /\ v2'[x] = v2[x] /\ v3'[x] = v3[x] /\ v5'[x] = v5[x]
      /\ Own(v4, x)' = Own(v4, x) /\ Own(v6, x)' = Own(v6, x)
      /\ x \in v10' <=> x \in v10
      /\ x \in v12' <=> x \in v12
  BY DEF Elsewhere
<1>2. RecordFits(x, job, v1[x], v2[x], v5[x], Out(Own(v4, x)), Out(Own(v6, x)), v10)'
  BY <1>1 DEF Fits, RecordFits
<1>3. ExpenseFits(x, job, v2[x], v3[x], v12)'
  BY <1>1 DEF Fits, ExpenseFits
<1>4. AdvancesFit(x, job, Own(v4, x), Own(v6, x))'
  BY <1>1 DEF Fits, AdvancesFit
<1> QED BY <1>2, <1>3, <1>4 DEF Fits

\* The others keep their requests.
LEMMA PersonElsewhere ==
    ASSUME NEW e, Elsewhere(e), NEW x \in Employees \ {e}, Person(x),
           NEW w \in Workers, v7[w].e # x, v7'[w].e # x,
           \A o \in Workers \ {w} : v7'[o] = v7[o]
    PROVE  Person(x)'
<1>1. \A o \in Workers : /\ v7'[o].e = x <=> v7[o].e = x
                         /\ v7[o].e = x => v7'[o] = v7[o]
  OBVIOUS
<1>2. \A p, o \in Workers : v7'[p].e = x /\ v7'[o].e = x => p = o
  BY <1>1 DEF Person
<1>3. ASSUME NEW o \in Workers, v7'[o].e = x PROVE Fits(x, v7[o])'
  <2>1. PICK job : job = v7[o]
    OBVIOUS
  <2>2. Fits(x, job) /\ v7'[o] = job
    BY <1>1, <1>3, <2>1 DEF Person
  <2>3. Fits(x, job)'
    BY <2>2, FitsElsewhere
  <2> QED BY <2>2, <2>3 DEF Fits
<1>4. ASSUME \A o \in Workers : v7'[o].e # x PROVE Fits(x, Payroll!resting)'
  <2>1. Fits(x, Payroll!resting)
    BY <1>1, <1>4 DEF Person
  <2> QED BY <2>1, FitsElsewhere
<1> QED BY <1>2, <1>3, <1>4 DEF Person

\* A request enters,
LEMMA Entering ==
    ASSUME PayInv, PayType', NEW w \in Workers, NEW e \in Employees, v7[w].at = "idle",
           NEW job \in Busy, job.e = e, v7' = [v7 EXCEPT ![w] = job],
           v9' = v9 \cup {x \in {e} : \E o \in Workers : v7[o].e = e}, v11' = v11,
           Elsewhere(e), Fits(e, Payroll!resting) => Fits(e, job)'
    PROVE  PayInv'
<1>1. v7'[w] = job /\ \A o \in Workers \ {w} : v7'[o] = v7[o]
  BY DEF PayInv, PayType
<1>2. v7[w].e \notin Employees
  BY RestsIdle DEF PayInv
<1>3. SUFFICES ASSUME NEW x \in Employees, x \notin v9', x \notin v11' PROVE Person(x)'
  BY DEF PayInv
<1>4. Person(x)
  BY <1>3 DEF PayInv
<1>5. CASE x # e
  BY <1>1, <1>2, <1>4, <1>5, PersonElsewhere
<1>6. CASE x = e
  <2>1. \A o \in Workers : v7[o].e # e
    BY <1>3, <1>6
  <2>2. Fits(e, job)'
    BY <1>4, <1>6, <2>1 DEF Person
  <2>3. \A o \in Workers : v7'[o].e = e <=> o = w
    BY <1>1, <2>1
  <2>4. \A o \in Workers : v7'[o].e = e => v7'[o] = job
    BY <1>1, <2>3
  <2>5. \A o \in Workers : v7'[o].e = e => Fits(e, v7[o])'
    BY <2>2, <2>4 DEF Fits
  <2> QED BY <1>6, <2>3, <2>5 DEF Person
<1> QED BY <1>5, <1>6

\* and goes from a statement to the next, or ends.
LEMMA Moving ==
    ASSUME PayInv, PayType', NEW w \in Workers, NEW old \in Busy, v7[w] = old,
           NEW e \in Employees, old.e = e, NEW job, job = Payroll!resting \/ job.e = e,
           v7' = [v7 EXCEPT ![w] = job], v9' = v9, v11' = v11,
           Elsewhere(e), Fits(e, old) => Fits(e, job)'
    PROVE  PayInv'
<1>1. v7'[w] = job /\ \A o \in Workers \ {w} : v7'[o] = v7[o]
  BY DEF PayInv, PayType
<1>3. SUFFICES ASSUME NEW x \in Employees, x \notin v9', x \notin v11' PROVE Person(x)'
  BY DEF PayInv
<1>4. Person(x)
  BY <1>3 DEF PayInv
<1>5. CASE x # e
  <2>1. v7'[w].e # x
    BY <1>1, <1>3, <1>5, RestsIdle DEF PayInv
  <2> QED BY <1>1, <1>4, <1>5, <2>1, PersonElsewhere
<1>6. CASE x = e
  <2>1. \A o \in Workers : v7[o].e = e => o = w
    BY <1>4, <1>6 DEF Person
  <2>2. Fits(e, old)
    BY <1>4, <1>6 DEF Person
  <2>3. Fits(e, job)'
    BY <2>2
  <2>4. \A o \in Workers : v7'[o].e = e => o = w
    BY <1>1, <2>1
  <2>5. \A o \in Workers : v7'[o].e = e => Fits(e, v7[o])'
    BY <1>1, <2>3, <2>4 DEF Fits
  <2>6. (\A o \in Workers : v7'[o].e # e) => Fits(e, Payroll!resting)'
    BY <1>1, <2>3
  <2> QED BY <1>6, <2>4, <2>5, <2>6 DEF Person
<1> QED BY <1>5, <1>6

-----------------------------------------------------------------------------
LEMMA OutType == \A rows : IsFiniteSet(rows) => Out(rows) \in Int
BY FS_CardinalityType, OfficeAssumption DEF Out

LEMMA PersonTypes ==
    ASSUME PayType, NEW e \in Employees
    PROVE  /\ v1[e] \in Nat /\ v2[e] \in Rec /\ v3[e] \in Post /\ v5[e] \in Int
           /\ Out(Own(v4, e)) \in Int /\ Out(Own(v6, e)) \in Int
<1>1. IsFiniteSet(Own(v4, e)) /\ IsFiniteSet(Own(v6, e))
  BY FS_Subset DEF Own, PayType
<1> QED BY <1>1, OutType DEF PayType

LEMMA GivenIs == \A e : Payroll!Given(e) = Out(Own(v4, e))
<1>1. \A S : Payroll!Cardinality(S) = Cardinality(S)
  BY Zenon DEF Payroll!Cardinality, Cardinality
<1> QED BY <1>1 DEF Payroll!Given, Out, Own

\* PUT /api/salary/employees
LEMMA SetSalaryKeeps ==
    ASSUME PayInv, NEW w \in Workers, NEW e \in Employees, NEW s \in Salaries,
           Payroll!SetSalary(w, e, s)
    PROVE  PayInv'
<1> USE DEF PayInv
<1>1. PICK job : job = [[Payroll!resting EXCEPT !.at = "drafts"] EXCEPT !.e = e]
  OBVIOUS
<1>2. job \in Busy /\ job.at = "drafts" /\ job.e = e
  BY <1>1, NoneIsRec DEF Busy, Places, Payroll!resting
<1>3. /\ v7[w].at = "idle" /\ v7' = [v7 EXCEPT ![w] = job]
      /\ v9' = v9 \cup {x \in {e} : \E o \in Workers : v7[o].e = e} /\ v11' = v11
      /\ v1' = [v1 EXCEPT ![e] = s] /\ UNCHANGED <<v2, v3, v4, v5, v6, v12>>
  BY <1>1 DEF Payroll!SetSalary, Payroll!Enter
<1>4. v10' = v10
  BY DEF Payroll!SetSalary, Payroll!Enter
<1>5. s \in Nat
  BY OfficeAssumption
<1>6. PayType'
  BY <1>2, <1>3, <1>5 DEF PayType
<1>7. Elsewhere(e)
  BY <1>3, <1>4 DEF Elsewhere, PayType
<1>8. ASSUME Fits(e, Payroll!resting) PROVE Fits(e, job)'
  <2>1. RecordFits(e, job, v1[e], v2[e], v5[e], Out(Own(v4, e)), Out(Own(v6, e)), v10)'
    BY <1>2, <1>3, <1>4, <1>8, RecordEnters, PersonTypes, RestsIdle DEF Fits
  <2>2. ExpenseFits(e, job, v2[e], v3[e], v12)'
    BY <1>2, <1>3, <1>8, ExpenseKept, PersonTypes, RestsIdle DEF Fits, Calm
  <2>3. AdvancesFit(e, job, Own(v4, e), Own(v6, e))'
    BY <1>2, <1>3, <1>8, RestsIdle DEF Fits, AdvancesFit
  <2> QED BY <2>1, <2>2, <2>3 DEF Fits
<1> QED BY <1>2, <1>3, <1>6, <1>7, <1>8, Entering

LEMMA BusyAt ==
    ASSUME PayInv, NEW w \in Workers, v7[w].at # "idle"
    PROVE  v7[w] \in Busy /\ v7[w].e \in Employees
BY RestsIdle DEF PayInv, Busy

\* A draft's salary follows,
LEMMA RefreshDraftKeeps ==
    ASSUME PayInv, NEW w \in Workers, Payroll!RefreshDraft(w)
    PROVE  PayInv'
<1> USE DEF PayInv
<1>1. PICK old \in Busy, e \in Employees : old = v7[w] /\ e = old.e
  BY BusyAt DEF Payroll!RefreshDraft, Payroll!At
<1>2. /\ old.at = "drafts" /\ UNCHANGED <<v1, v3, v4, v5, v6, v9, v10, v11, v12>>
  BY <1>1 DEF Payroll!RefreshDraft, Payroll!At, Payroll!Inside
<1>3. CASE v2[e].exists /\ v2[e].status = "draft"
  <2>1. /\ v2' = [v2 EXCEPT ![e].salary = v1[e]]
        /\ v7' = [v7 EXCEPT ![w].at = "recompute"]
    BY <1>1, <1>3 DEF Payroll!RefreshDraft, Payroll!Goes
  <2>2. PICK job : job = [old EXCEPT !.at = "recompute"]
    OBVIOUS
  <2>3. job \in Busy /\ job.at = "recompute" /\ job.e = e
    BY <1>1, <2>2, GoesIs DEF Places
  <2>4. PICK rec : rec = [v2[e] EXCEPT !.salary = v1[e]]
    OBVIOUS
  <2>5. rec \in Rec /\ rec.exists = v2[e].exists /\ rec.linked = v2[e].linked
    BY <2>4, SetSalaryIs, PersonTypes
  <2>6. v2' = [v2 EXCEPT ![e] = rec] /\ v7' = [v7 EXCEPT ![w] = job]
    BY <1>1, <2>1, <2>2, <2>4 DEF PayType
  <2>7. PayType'
    BY <1>2, <2>3, <2>5, <2>6 DEF PayType
  <2>8. Elsewhere(e)
    BY <1>2, <2>6 DEF Elsewhere, PayType
  <2>9. v2'[e] = rec
    BY <2>6 DEF PayType
  <2>10. ASSUME Fits(e, old) PROVE Fits(e, job)'
    <3>1. RecordFits(e, job, v1[e], v2[e], v5[e], Out(Own(v4, e)), Out(Own(v6, e)), v10)'
      BY <1>2, <1>3, <2>3, <2>4, <2>9, <2>10, DraftRefreshed, PersonTypes DEF Fits
    <3>2. ExpenseFits(e, job, v2[e], v3[e], v12)'
      BY <1>2, <2>3, <2>5, <2>9, <2>10, ExpenseKept, PersonTypes DEF Fits, Calm
    <3>3. AdvancesFit(e, job, Own(v4, e), Own(v6, e))'
      BY <1>2, <2>3, <2>10 DEF Fits, AdvancesFit
    <3> QED BY <3>1, <3>2, <3>3 DEF Fits
  <2> QED BY <1>1, <1>2, <2>3, <2>6, <2>7, <2>8, <2>10, Moving
<1>4. CASE ~(v2[e].exists /\ v2[e].status = "draft")
  <2>1. v2' = v2 /\ v7' = [v7 EXCEPT ![w] = Payroll!resting]
    BY <1>1, <1>4 DEF Payroll!RefreshDraft, Payroll!Done
  <2>2. PayType'
    BY <1>2, <2>1 DEF PayType
  <2>3. Elsewhere(e)
    BY <1>2, <2>1 DEF Elsewhere
  <2>4. ASSUME Fits(e, old) PROVE Fits(e, Payroll!resting)'
    <3>1. RecordFits(e, Payroll!resting, v1[e], v2[e], v5[e], Out(Own(v4, e)), Out(Own(v6, e)), v10)'
      BY <1>2, <1>4, <2>1, <2>4, RecordMoves, PersonTypes, RestsIdle DEF Fits
    <3>2. ExpenseFits(e, Payroll!resting, v2[e], v3[e], v12)'
      BY <1>2, <2>1, <2>4, ExpenseKept, PersonTypes, RestsIdle DEF Fits, Calm
    <3>3. AdvancesFit(e, Payroll!resting, Own(v4, e), Own(v6, e))'
      BY <1>2, <2>1, <2>4, RestsIdle DEF Fits, AdvancesFit
    <3> QED BY <3>1, <3>2, <3>3 DEF Fits
  <2> QED BY <1>1, <1>2, <2>1, <2>2, <2>3, <2>4, Moving
<1> QED BY <1>3, <1>4

\* POST /api/salary/records: what the row will be is read,
LEMMA UpsertReadKeeps ==
    ASSUME PayInv, NEW w \in Workers, NEW e \in Employees, NEW taken \in OffDays,
           Payroll!UpsertRead(w, e, taken)
    PROVE  PayInv'
<1> USE DEF PayInv
<1>1. PICK given \in Int : given = Payroll!Given(e) /\ given = Out(Own(v4, e))
  BY GivenIs, PersonTypes
<1>2. PICK read : read = [v2[e] EXCEPT !.salary = v1[e], !.taken = taken]
  OBVIOUS
<1>3. taken \in Nat
  BY OfficeAssumption
<1>4. /\ read \in Rec /\ read.salary = v1[e] /\ read.exists = v2[e].exists
      /\ read.status = v2[e].status /\ read.linked = v2[e].linked
  BY <1>2, <1>3, PersonTypes DEF Rec
<1>5. PICK slip : slip = Payroll!Computed(read, given)
  OBVIOUS
<1>6. /\ slip \in Rec /\ Owes(slip, given) /\ slip.salary = v1[e] /\ slip.exists = v2[e].exists
      /\ slip.status = v2[e].status /\ slip.linked = v2[e].linked
  BY <1>4, <1>5, SlipComputed
<1>7. PICK job : job = [[Payroll!resting EXCEPT !.at = "upsert", !.taken = taken, !.rec = slip] EXCEPT !.e = e]
  OBVIOUS
<1>8. job \in Busy /\ job.at = "upsert" /\ job.e = e /\ job.rec = slip
  <2>1. job = [at |-> "upsert", e |-> e, amount |-> 0, taken |-> taken, rec |-> slip, id |-> 0]
    BY <1>7 DEF Payroll!resting
  <2> QED BY <1>3, <1>6, <2>1 DEF Busy, Places
<1>9. /\ v7[w].at = "idle" /\ v7' = [v7 EXCEPT ![w] = job]
      /\ v9' = v9 \cup {x \in {e} : \E o \in Workers : v7[o].e = e} /\ v11' = v11
      /\ v10' = v10 \cup {x \in {e} : v2[e].status = "paid"}
      /\ UNCHANGED <<v1, v2, v3, v4, v5, v6, v12>>
  BY <1>1, <1>2, <1>5, <1>7 DEF Payroll!UpsertRead, Payroll!Enter, Payroll!Books
<1>10. PayType'
  BY <1>8, <1>9 DEF PayType
<1>11. Elsewhere(e)
  BY <1>9 DEF Elsewhere
<1>12. ASSUME Fits(e, Payroll!resting) PROVE Fits(e, job)'
  <2>1. RecordFits(e, job, v1[e], v2[e], v5[e], Out(Own(v4, e)), Out(Own(v6, e)), v10)'
    <3>1. e \in v10' <=> e \in v10 \/ v2[e].status = "paid"
      BY <1>9
    <3> QED BY <1>1, <1>6, <1>8, <1>9, <1>12, <3>1, RecordEnters, PersonTypes, RestsIdle DEF Fits
  <2>2. ExpenseFits(e, job, v2[e], v3[e], v12)'
    BY <1>8, <1>9, <1>12, ExpenseKept, PersonTypes, RestsIdle DEF Fits, Calm
  <2>3. AdvancesFit(e, job, Own(v4, e), Own(v6, e))'
    BY <1>8, <1>9, <1>12, RestsIdle DEF Fits, AdvancesFit
  <2> QED BY <2>1, <2>2, <2>3 DEF Fits
<1> QED BY <1>8, <1>9, <1>10, <1>11, <1>12, Entering

\* then an existing record is updated and a new one inserted.
LEMMA UpsertWriteKeeps ==
    ASSUME PayInv, NEW w \in Workers, Payroll!UpsertWrite(w)
    PROVE  PayInv'
<1> USE DEF PayInv
<1>1. PICK old \in Busy, e \in Employees : old = v7[w] /\ e = old.e
  BY BusyAt DEF Payroll!UpsertWrite, Payroll!At
<1>2. /\ old.at = "upsert" /\ UNCHANGED <<v1, v3, v4, v5, v6, v9, v10, v11, v12>>
  BY <1>1 DEF Payroll!UpsertWrite, Payroll!At, Payroll!Inside
<1>3. old.rec \in Rec /\ old.rec.salary \in Nat /\ old.rec.taken \in Nat
  BY DEF Busy, Rec
<1>4. CASE old.rec.exists /\ v2[e].exists
  <2>1. PICK rec : rec = [v2[e] EXCEPT !.salary = old.rec.salary, !.taken = old.rec.taken]
    OBVIOUS
  <2>2. PICK job : job = [old EXCEPT !.at = "recompute"]
    OBVIOUS
  <2>3. job \in Busy /\ job.at = "recompute" /\ job.e = e
    BY <1>1, <2>2, GoesIs DEF Places
  <2>4. /\ rec \in Rec /\ rec.exists = v2[e].exists /\ rec.linked = v2[e].linked
        /\ rec.status = v2[e].status /\ rec.salary = old.rec.salary
    BY <1>3, <2>1, PersonTypes DEF Rec
  <2>5. /\ v2' = [v2 EXCEPT ![e].salary = old.rec.salary, ![e].taken = old.rec.taken]
        /\ v7' = [v7 EXCEPT ![w].at = "recompute"]
    BY <1>1, <1>4 DEF Payroll!UpsertWrite, Payroll!Goes
  <2>6. v2' = [v2 EXCEPT ![e] = rec] /\ v7' = [v7 EXCEPT ![w] = job]
    BY <1>1, <2>1, <2>2, <2>5 DEF PayType
  <2>7. PayType'
    BY <1>2, <2>3, <2>4, <2>6 DEF PayType
  <2>8. Elsewhere(e)
    BY <1>2, <2>6 DEF Elsewhere, PayType
  <2>9. v2'[e] = rec
    BY <2>6 DEF PayType
  <2>10. ASSUME Fits(e, old) PROVE Fits(e, job)'
    <3>1. RecordFits(e, job, v1[e], v2[e], v5[e], Out(Own(v4, e)), Out(Own(v6, e)), v10)'
      BY <1>2, <1>4, <2>3, <2>4, <2>9, <2>10, RecordWritten, PersonTypes DEF Fits
    <3>2. ExpenseFits(e, job, v2[e], v3[e], v12)'
      BY <1>2, <2>3, <2>4, <2>9, <2>10, ExpenseKept, PersonTypes DEF Fits, Calm
    <3>3. AdvancesFit(e, job, Own(v4, e), Own(v6, e))'
      BY <1>2, <2>3, <2>10 DEF Fits, AdvancesFit
    <3> QED BY <3>1, <3>2, <3>3 DEF Fits
  <2> QED BY <1>1, <1>2, <2>3, <2>6, <2>7, <2>8, <2>10, Moving
<1>5. CASE ~old.rec.exists /\ ~v2[e].exists
  <2>1. PICK rec : rec = [old.rec EXCEPT !.exists = TRUE]
    OBVIOUS
  <2>2. PICK job : job = [old EXCEPT !.at = "sync"]
    OBVIOUS
  <2>3. job \in Busy /\ job.at = "sync" /\ job.e = e
    BY <1>1, <2>2, GoesIs DEF Places
  <2>4. /\ rec \in Rec /\ rec.exists /\ rec.linked = old.rec.linked
        /\ rec.salary = old.rec.salary /\ rec.taken = old.rec.taken
        /\ rec.extra = old.rec.extra /\ rec.payable = old.rec.payable
        /\ rec.status = old.rec.status
    BY <1>3, <2>1, SetExistsIs
  <2>5. /\ v2' = [v2 EXCEPT ![e] = rec] /\ v7' = [v7 EXCEPT ![w].at = "sync"]
    BY <1>1, <1>5, <2>1 DEF Payroll!UpsertWrite, Payroll!Goes
  <2>6. v7' = [v7 EXCEPT ![w] = job]
    BY <1>1, <2>2, <2>5 DEF PayType
  <2>7. PayType'
    BY <1>2, <2>3, <2>4, <2>5, <2>6 DEF PayType
  <2>8. Elsewhere(e)
    BY <1>2, <2>5 DEF Elsewhere, PayType
  <2>9. v2'[e] = rec
    BY <2>5 DEF PayType
  <2>10. ASSUME Fits(e, old) PROVE Fits(e, job)'
    <3>1. /\ RecordFits(e, job, v1[e], v2[e], v5[e], Out(Own(v4, e)), Out(Own(v6, e)), v10)'
          /\ ~rec.linked
      BY <1>2, <1>5, <2>3, <2>4, <2>9, <2>10, RecordInserted, PersonTypes DEF Fits
    <3>2. ExpenseFits(e, job, v2[e], v3[e], v12)'
      BY <1>2, <1>5, <2>3, <2>4, <2>9, <2>10, <3>1, ExpenseAwaited, PersonTypes DEF Fits
    <3>3. AdvancesFit(e, job, Own(v4, e), Own(v6, e))'
      BY <1>2, <2>3, <2>10 DEF Fits, AdvancesFit
    <3> QED BY <3>1, <3>2, <3>3 DEF Fits
  <2> QED BY <1>1, <1>2, <2>3, <2>6, <2>7, <2>8, <2>10, Moving
<1>6. CASE old.rec.exists /\ ~v2[e].exists
  <2>1. PICK job : job = [old EXCEPT !.at = "recompute"]
    OBVIOUS
  <2>2. job \in Busy /\ job.e = e
    BY <1>1, <2>1, GoesIs DEF Places
  <2>3. v2' = v2 /\ v7' = [v7 EXCEPT ![w].at = "recompute"]
    BY <1>1, <1>6 DEF Payroll!UpsertWrite, Payroll!Goes
  <2>4. v7' = [v7 EXCEPT ![w] = job]
    BY <1>1, <2>1, <2>3 DEF PayType
  <2>5. PayType'
    BY <1>2, <2>2, <2>3, <2>4 DEF PayType
  <2>6. Elsewhere(e)
    BY <1>2, <2>3 DEF Elsewhere
  <2>7. ~Fits(e, old)
    BY <1>2, <1>6 DEF Fits, RecordFits
  <2> QED BY <1>1, <1>2, <2>2, <2>4, <2>5, <2>6, <2>7, Moving
<1>7. CASE ~old.rec.exists /\ v2[e].exists
  <2>1. v2' = v2 /\ v7' = [v7 EXCEPT ![w] = Payroll!resting]
    BY <1>1, <1>7 DEF Payroll!UpsertWrite, Payroll!Done
  <2>2. PayType'
    BY <1>2, <2>1 DEF PayType
  <2>3. Elsewhere(e)
    BY <1>2, <2>1 DEF Elsewhere
  <2>4. ~Fits(e, old)
    BY <1>2, <1>7 DEF Fits, RecordFits
  <2> QED BY <1>1, <1>2, <2>1, <2>2, <2>3, <2>4, Moving
<1> QED BY <1>4, <1>5, <1>6, <1>7

\* _recompute_record: the figures are worked out,
LEMMA RecomputeReadKeeps ==
    ASSUME PayInv, NEW w \in Workers, Payroll!RecomputeRead(w)
    PROVE  PayInv'
<1> USE DEF PayInv
<1>1. PICK old \in Busy, e \in Employees : old = v7[w] /\ e = old.e
  BY BusyAt DEF Payroll!RecomputeRead, Payroll!At
<1>2. /\ old.at = "recompute" /\ UNCHANGED <<v1, v2, v3, v4, v5, v6, v9, v10, v11, v12>>
  BY <1>1 DEF Payroll!RecomputeRead, Payroll!At, Payroll!Inside, Payroll!Books
<1>3. Elsewhere(e)
  BY <1>2 DEF Elsewhere
<1>4. CASE v2[e].exists
  <2>1. PICK given \in Int : given = Payroll!Given(e) /\ given = Out(Own(v4, e))
    BY GivenIs, PersonTypes
  <2>2. PICK slip : slip = Payroll!Computed(v2[e], given)
    OBVIOUS
  <2>3. slip \in Rec /\ Owes(slip, given) /\ slip.salary = v2[e].salary /\ slip.taken = v2[e].taken
    BY <2>2, SlipComputed, PersonTypes
  <2>4. PICK job : job = [old EXCEPT !.at = "derived", !.rec = slip]
    OBVIOUS
  <2>5. job \in Busy /\ job.at = "derived" /\ job.e = e /\ job.rec = slip
    BY <1>1, <2>3, <2>4 DEF Busy, Places
  <2>6. v7' = [v7 EXCEPT ![w].at = "derived", ![w].rec = slip]
    BY <1>1, <1>4, <2>1, <2>2 DEF Payroll!RecomputeRead
  <2>7. v7' = [v7 EXCEPT ![w] = job]
    BY <1>1, <2>4, <2>6 DEF PayType
  <2>8. PayType'
    BY <1>2, <2>5, <2>7 DEF PayType
  <2>9. ASSUME Fits(e, old) PROVE Fits(e, job)'
    <3>1. RecordFits(e, job, v1[e], v2[e], v5[e], Out(Own(v4, e)), Out(Own(v6, e)), v10)'
      BY <1>2, <1>4, <2>1, <2>3, <2>5, <2>9, RecordMoves, PersonTypes DEF Fits
    <3>2. ExpenseFits(e, job, v2[e], v3[e], v12)'
      BY <1>2, <2>5, <2>9, ExpenseKept, PersonTypes DEF Fits, Calm
    <3>3. AdvancesFit(e, job, Own(v4, e), Own(v6, e))'
      BY <1>2, <2>5, <2>9 DEF Fits, AdvancesFit
    <3> QED BY <3>1, <3>2, <3>3 DEF Fits
  <2> QED BY <1>1, <1>2, <1>3, <2>5, <2>7, <2>8, <2>9, Moving
<1>5. CASE ~v2[e].exists
  <2>1. v7' = [v7 EXCEPT ![w] = Payroll!resting]
    BY <1>1, <1>5 DEF Payroll!RecomputeRead, Payroll!Done
  <2>2. PayType'
    BY <1>2, <2>1 DEF PayType
  <2>3. ASSUME Fits(e, old) PROVE Fits(e, Payroll!resting)'
    <3>1. RecordFits(e, Payroll!resting, v1[e], v2[e], v5[e], Out(Own(v4, e)), Out(Own(v6, e)), v10)'
      BY <1>2, <1>5, <2>3, RecordMoves, PersonTypes, RestsIdle DEF Fits
    <3>2. ExpenseFits(e, Payroll!resting, v2[e], v3[e], v12)'
      BY <1>2, <1>5, <2>3, ExpenseKept, PersonTypes, RestsIdle DEF Fits, Calm
    <3>3. AdvancesFit(e, Payroll!resting, Own(v4, e), Own(v6, e))'
      BY <1>2, <2>3, RestsIdle DEF Fits, AdvancesFit
    <3> QED BY <3>1, <3>2, <3>3 DEF Fits
  <2> QED BY <1>1, <1>2, <1>3, <2>1, <2>2, <2>3, Moving
<1> QED BY <1>4, <1>5

\* and written.
LEMMA RecomputeWriteKeeps ==
    ASSUME PayInv, NEW w \in Workers, Payroll!RecomputeWrite(w)
    PROVE  PayInv'
<1> USE DEF PayInv
<1>1. PICK old \in Busy, e \in Employees : old = v7[w] /\ e = old.e
  BY BusyAt DEF Payroll!RecomputeWrite, Payroll!At
<1>2. /\ old.at = "derived" /\ UNCHANGED <<v1, v3, v4, v5, v6, v9, v10, v11, v12>>
      /\ v7' = [v7 EXCEPT ![w].at = "sync"]
  BY <1>1 DEF Payroll!RecomputeWrite, Payroll!At, Payroll!Inside, Payroll!Goes
<1>3. PICK job : job = [old EXCEPT !.at = "sync"]
  OBVIOUS
<1>4. job \in Busy /\ job.at = "sync" /\ job.e = e
  BY <1>1, <1>3, GoesIs DEF Places
<1>5. v7' = [v7 EXCEPT ![w] = job]
  BY <1>1, <1>2, <1>3 DEF PayType
<1>6. CASE v2[e].exists
  <2>1. PICK x \in Int, a \in Int, p \in Int :
          x = old.rec.extra /\ a = old.rec.advances /\ p = old.rec.payable
    BY DEF Busy, Rec
  <2>2. v2' = [v2 EXCEPT ![e].extra = x, ![e].advances = a, ![e].payable = p]
    BY <1>1, <1>6, <2>1 DEF Payroll!RecomputeWrite
  <2>3. PICK rec : rec = [v2[e] EXCEPT !.extra = x, !.advances = a, !.payable = p]
    OBVIOUS
  <2>4. v2' = [v2 EXCEPT ![e] = rec]
    BY <2>2, <2>3 DEF PayType
  <2>5. /\ rec \in Rec /\ rec.extra = x /\ rec.payable = p
        /\ rec.salary = v2[e].salary /\ rec.taken = v2[e].taken /\ rec.linked = v2[e].linked
        /\ rec.exists = v2[e].exists /\ rec.status = v2[e].status
    BY <2>3, PersonTypes DEF Rec
  <2>6. PayType'
    BY <1>2, <1>4, <1>5, <2>4, <2>5 DEF PayType
  <2>7. Elsewhere(e)
    BY <1>2, <2>4 DEF Elsewhere, PayType
  <2>8. v2'[e] = rec
    BY <2>4 DEF PayType
  <2>9. ASSUME Fits(e, old) PROVE Fits(e, job)'
    <3>1. RecordFits(e, job, v1[e], v2[e], v5[e], Out(Own(v4, e)), Out(Own(v6, e)), v10)'
      BY <1>2, <1>4, <2>1, <2>5, <2>8, <2>9, RecordRecomputed, PersonTypes DEF Fits
    <3>2. ExpenseFits(e, job, v2[e], v3[e], v12)'
      BY <1>2, <1>4, <2>5, <2>8, <2>9, ExpenseKept, PersonTypes DEF Fits, Calm
    <3>3. AdvancesFit(e, job, Own(v4, e), Own(v6, e))'
      BY <1>2, <1>4, <2>9 DEF Fits, AdvancesFit
    <3> QED BY <3>1, <3>2, <3>3 DEF Fits
  <2> QED BY <1>1, <1>2, <1>4, <1>5, <2>6, <2>7, <2>9, Moving
<1>7. CASE ~v2[e].exists
  <2>1. v2' = v2
    BY <1>1, <1>7 DEF Payroll!RecomputeWrite
  <2>2. PayType'
    BY <1>2, <1>4, <1>5, <2>1 DEF PayType
  <2>3. Elsewhere(e)
    BY <1>2, <2>1 DEF Elsewhere
  <2>4. ~Fits(e, old)
    BY <1>2, <1>7 DEF Fits, RecordFits
  <2> QED BY <1>1, <1>2, <1>4, <1>5, <2>2, <2>3, <2>4, Moving
<1> QED BY <1>6, <1>7

\* _sync_expense
LEMMA SyncExpenseKeeps ==
    ASSUME PayInv, NEW w \in Workers, Payroll!SyncExpense(w)
    PROVE  PayInv'
<1> USE DEF PayInv
<1>1. PICK old \in Busy, e \in Employees : old = v7[w] /\ e = old.e
  BY BusyAt DEF Payroll!SyncExpense, Payroll!At
<1>2. /\ old.at = "sync" /\ UNCHANGED <<v1, v4, v5, v6, v9, v10, v11>>
      /\ v7' = [v7 EXCEPT ![w] = Payroll!resting] /\ v12' = v12 \ {e}
  BY <1>1 DEF Payroll!SyncExpense, Payroll!At, Payroll!Done
<1>3. CASE v2[e].exists
  <2> DEFINE n == IF v2[e].linked /\ v3[e].rows > 0 THEN v3[e].rows ELSE v3[e].rows + 1
             c == v2[e].salary + v2[e].extra
  <2>1. PICK post : post = [rows |-> n, amount |-> c]
    OBVIOUS
  <2>2. PICK rec : rec = [v2[e] EXCEPT !.linked = TRUE]
    OBVIOUS
  <2>3. v3' = [v3 EXCEPT ![e] = post] /\ v2' = [v2 EXCEPT ![e].linked = TRUE]
    BY <1>1, <1>3, <2>1 DEF Payroll!SyncExpense
  <2>4. /\ rec \in Rec /\ rec.linked /\ rec.exists = v2[e].exists /\ rec.salary = v2[e].salary
        /\ rec.extra = v2[e].extra
    BY <2>2, SetLinkedIs, PersonTypes
  <2>5. n \in Nat /\ c \in Int
    BY PersonTypes DEF Post, Rec
  <2>6. post \in Post /\ post.rows = n /\ post.amount = Cost(v2[e])
    BY <2>1, <2>5 DEF Post, Cost
  <2>7. v2' = [v2 EXCEPT ![e] = rec]
    BY <2>2, <2>3 DEF PayType
  <2>8. PayType'
    BY <1>2, <2>3, <2>4, <2>6, <2>7 DEF PayType
  <2>9. Elsewhere(e)
    BY <1>2, <2>3, <2>7 DEF Elsewhere, PayType
  <2>10. v2'[e] = rec /\ v3'[e] = post
    BY <2>3, <2>7 DEF PayType
  <2>11. Cost(rec) = Cost(v2[e])
    BY <2>4 DEF Cost
  <2>12. ASSUME Fits(e, old) PROVE Fits(e, Payroll!resting)'
    <3>0. Own(v4, e) = Own(v6, e)
      BY <1>2, <2>12 DEF Fits, AdvancesFit
    <3>1. RecordFits(e, Payroll!resting, v1[e], v2[e], v5[e], Out(Own(v4, e)), Out(Own(v6, e)), v10)'
      BY <1>2, <2>2, <2>10, <2>12, <3>0, RecordSynced, PersonTypes, RestsIdle DEF Fits
    <3>2. ExpenseFits(e, Payroll!resting, v2[e], v3[e], v12)'
      BY <1>2, <1>3, <2>4, <2>6, <2>10, <2>11, <2>12, ExpenseSynced, PersonTypes, RestsIdle DEF Fits
    <3>3. AdvancesFit(e, Payroll!resting, Own(v4, e), Own(v6, e))'
      BY <1>2, <2>12, RestsIdle DEF Fits, AdvancesFit
    <3> QED BY <3>1, <3>2, <3>3 DEF Fits
  <2> QED BY <1>1, <1>2, <2>8, <2>9, <2>12, Moving
<1>4. CASE ~v2[e].exists
  <2>1. v2' = v2 /\ v3' = v3
    BY <1>1, <1>4 DEF Payroll!SyncExpense
  <2>2. PayType'
    BY <1>2, <2>1 DEF PayType
  <2>3. Elsewhere(e)
    BY <1>2, <2>1 DEF Elsewhere
  <2>4. ~Fits(e, old)
    BY <1>2, <1>4 DEF Fits, RecordFits
  <2> QED BY <1>1, <1>2, <2>2, <2>3, <2>4, Moving
<1> QED BY <1>3, <1>4

\* The Expenses page deletes the row.
LEMMA DeleteExpenseKeeps ==
    ASSUME PayInv, NEW e \in Employees, Payroll!DeleteExpense(e)
    PROVE  PayInv'
<1> USE DEF PayInv
<1>1. /\ v3' = [v3 EXCEPT ![e] = [rows |-> 0, amount |-> 0]] /\ v12' = v12 \cup {e}
      /\ UNCHANGED <<v1, v2, v4, v5, v6, v7, v9, v10, v11>>
  BY DEF Payroll!DeleteExpense
<1>2. PayType'
  BY <1>1 DEF PayType, Post
<1>3. Elsewhere(e)
  BY <1>1 DEF Elsewhere, PayType
<1>4. v3'[e].rows = 0 /\ v3'[e] \in Post
  BY <1>1 DEF PayType, Post
<1>5. ASSUME NEW job, Fits(e, job) PROVE Fits(e, job)'
  <2>1. RecordFits(e, job, v1[e], v2[e], v5[e], Out(Own(v4, e)), Out(Own(v6, e)), v10)'
    BY <1>1, <1>5 DEF Fits
  <2>2. ExpenseFits(e, job, v2[e], v3[e], v12)'
    BY <1>1, <1>4, <1>5, ExpenseDeleted, PersonTypes DEF Fits
  <2>3. AdvancesFit(e, job, Own(v4, e), Own(v6, e))'
    BY <1>1, <1>5 DEF Fits
  <2> QED BY <2>1, <2>2, <2>3 DEF Fits
<1>6. ASSUME NEW x \in Employees, x \notin v9', x \notin v11' PROVE Person(x)'
  <2>1. Person(x)
    BY <1>1, <1>6
  <2>2. \A job : Fits(x, job) => Fits(x, job)'
    <3>1. CASE x = e
      BY <1>5, <3>1
    <3>2. CASE x # e
      BY <1>3, <3>2, FitsElsewhere
    <3> QED BY <3>1, <3>2
  <2>3. ASSUME NEW w \in Workers, v7[w].e = x PROVE Fits(x, v7[w])'
    <3>1. PICK job : job = v7[w]
      OBVIOUS
    <3>2. Fits(x, job)'
      BY <2>1, <2>2, <2>3, <3>1 DEF Person
    <3> QED BY <1>1, <3>1, <3>2 DEF Fits
  <2>4. (\A w \in Workers : v7[w].e # x) => Fits(x, Payroll!resting)'
    BY <2>1, <2>2 DEF Person
  <2> QED BY <1>1, <2>1, <2>3, <2>4 DEF Person
<1> QED BY <1>2, <1>6

\* An advance has a number of its own,
LEMMA NextAdvance ==
    ASSUME PayType, v4 # {}
    PROVE  1 + Payroll!Max({a.id : a \in v4}) \in Nat
<1> DEFINE ids == {a.id : a \in v4}
<1>1. ids \in SUBSET Nat /\ ids # {}
  BY DEF PayType, Rows
<1>2. IsFiniteSet(ids)
  <2>1. [a \in v4 |-> a.id] \in Surjection(v4, ids)
    BY DEF Surjection
  <2> QED BY <2>1, FS_Surjection DEF PayType
<1> DEFINE R == {p \in Nat \X Nat : p[1] < p[2]}
<1>3. \A x, y \in Nat : <<x, y>> \in R <=> x < y
  OBVIOUS
<1> HIDE DEF ids, R
<1>4. PICK m \in ids : \A y \in ids : <<m, y>> \notin R
  <2>1. \A x \in ids : <<x, x>> \notin R
    BY <1>1, <1>3
  <2>2. \A x, y, z \in ids : <<x, y>> \in R /\ <<y, z>> \in R => <<x, z>> \in R
    BY <1>1, <1>3
  <2>3. \A T \in SUBSET ids : T # {} => \E x \in T : \A y \in T : <<x, y>> \notin R
    BY <1>2, <2>1, <2>2, LastElement
  <2> QED BY <1>1, <2>3
<1>5. ASSUME NEW y \in ids PROVE m >= y
  <2>1. m \in Nat /\ y \in Nat /\ ~(m < y)
    BY <1>1, <1>3, <1>4
  <2> QED BY <2>1
<1>6. Payroll!Max(ids) \in ids
  BY <1>4, <1>5 DEF Payroll!Max
<1> QED BY <1>1, <1>6 DEF ids

\* POST /api/salary/advances: the row,
LEMMA RecordAdvanceKeeps ==
    ASSUME PayInv, NEW w \in Workers, NEW e \in Employees, Payroll!RecordAdvance(w, e)
    PROVE  PayInv'
<1> USE DEF PayInv
<1>1. PICK n \in Nat : n = IF v4 = {} THEN 1 ELSE 1 + Payroll!Max({a.id : a \in v4})
  BY NextAdvance
<1>2. PICK job : job = [[Payroll!resting EXCEPT !.at = "hand", !.id = n] EXCEPT !.e = e]
  OBVIOUS
<1>3. job \in Busy /\ job.at = "hand" /\ job.e = e /\ job.id = n
  <2>1. job = [at |-> "hand", e |-> e, amount |-> 0, taken |-> 0, rec |-> Payroll!none, id |-> n]
    BY <1>2 DEF Payroll!resting
  <2> QED BY <2>1, NoneIsRec DEF Busy, Places
<1>4. PICK row : row = [id |-> n, e |-> e]
  OBVIOUS
<1>5. /\ v7[w].at = "idle" /\ v7' = [v7 EXCEPT ![w] = job]
      /\ v9' = v9 \cup {x \in {e} : \E o \in Workers : v7[o].e = e} /\ v11' = v11
      /\ v10' = v10 \cup {x \in {e} : v2[e].status = "paid"}
      /\ v4' = v4 \cup {row} /\ UNCHANGED <<v1, v2, v3, v5, v6, v12>>
  BY <1>1, <1>2, <1>4 DEF Payroll!RecordAdvance, Payroll!Enter
<1>6. row \in Rows /\ row.e = e
  BY <1>4 DEF Rows
<1>7. IsFiniteSet(v4')
  BY <1>5, FS_AddElement DEF PayType
<1>8. PayType'
  BY <1>3, <1>5, <1>6, <1>7 DEF PayType
<1>9. Own(v4', e) = Own(v4, e) \cup {row} /\ \A x \in Employees \ {e} : Own(v4', x) = Own(v4, x)
  BY <1>5, <1>6 DEF Own
<1>10. Elsewhere(e)
  BY <1>5, <1>9 DEF Elsewhere, Own
<1>11. ASSUME Fits(e, Payroll!resting) PROVE Fits(e, job)'
  <2>1. RecordFits(e, job, v1[e], v2[e], v5[e], Out(Own(v4, e)), Out(Own(v6, e)), v10)'
    <3>1. e \in v10' <=> e \in v10 \/ v2[e].status = "paid"
      BY <1>5
    <3> QED BY <1>3, <1>5, <1>11, <3>1, RecordEnters, PersonTypes, RestsIdle DEF Fits
  <2>2. ExpenseFits(e, job, v2[e], v3[e], v12)'
    BY <1>3, <1>5, <1>11, ExpenseKept, PersonTypes, RestsIdle DEF Fits, Calm
  <2>3. AdvancesFit(e, job, Own(v4, e), Own(v6, e))'
    <3>1. Own(v4, e) = Own(v6, e)
      BY <1>11, RestsIdle DEF Fits, AdvancesFit
    <3> QED BY <1>3, <1>4, <1>5, <1>9, <3>1 DEF AdvancesFit
  <2> QED BY <2>1, <2>2, <2>3 DEF Fits
<1> QED BY <1>3, <1>5, <1>8, <1>10, <1>11, Entering

\* and its drawer row;
LEMMA HandAdvanceKeeps ==
    ASSUME PayInv, NEW w \in Workers, Payroll!HandAdvance(w)
    PROVE  PayInv'
<1> USE DEF PayInv
<1>1. PICK old \in Busy, e \in Employees : old = v7[w] /\ e = old.e
  BY BusyAt DEF Payroll!HandAdvance, Payroll!At
<1>2. PICK row : row = [id |-> old.id, e |-> e]
  OBVIOUS
<1>3. /\ old.at = "hand" /\ UNCHANGED <<v1, v2, v3, v4, v5, v9, v10, v11, v12>>
      /\ v7' = [v7 EXCEPT ![w].at = "recompute"] /\ v6' = v6 \cup {row}
  BY <1>1, <1>2 DEF Payroll!HandAdvance, Payroll!At, Payroll!Inside, Payroll!Goes
<1>4. PICK job : job = [old EXCEPT !.at = "recompute"]
  OBVIOUS
<1>5. job \in Busy /\ job.at = "recompute" /\ job.e = e
  BY <1>1, <1>4, GoesIs DEF Places
<1>6. v7' = [v7 EXCEPT ![w] = job]
  BY <1>1, <1>3, <1>4 DEF PayType
<1>7. row \in Rows /\ row.e = e
  BY <1>2 DEF Rows, Busy
<1>8. IsFiniteSet(v6')
  BY <1>3, FS_AddElement DEF PayType
<1>9. PayType'
  BY <1>3, <1>5, <1>6, <1>7, <1>8 DEF PayType
<1>10. Own(v6', e) = Own(v6, e) \cup {row} /\ \A x \in Employees \ {e} : Own(v6', x) = Own(v6, x)
  BY <1>3, <1>7 DEF Own
<1>11. Elsewhere(e)
  BY <1>3, <1>10 DEF Elsewhere, Own
<1>12. ASSUME Fits(e, old) PROVE Fits(e, job)'
  <2>1. RecordFits(e, job, v1[e], v2[e], v5[e], Out(Own(v4, e)), Out(Own(v6, e)), v10)'
    BY <1>3, <1>5, <1>12, RecordMoves, PersonTypes DEF Fits
  <2>2. ExpenseFits(e, job, v2[e], v3[e], v12)'
    BY <1>3, <1>5, <1>12, ExpenseKept, PersonTypes DEF Fits, Calm
  <2>3. AdvancesFit(e, job, Own(v4, e), Own(v6, e))'
    BY <1>2, <1>3, <1>5, <1>10, <1>12 DEF Fits, AdvancesFit
  <2> QED BY <2>1, <2>2, <2>3 DEF Fits
<1> QED BY <1>1, <1>3, <1>5, <1>6, <1>9, <1>11, <1>12, Moving

\* DELETE: the row,
LEMMA DeleteAdvanceKeeps ==
    ASSUME PayInv, NEW w \in Workers, NEW a \in v4, Payroll!DeleteAdvance(w, a)
    PROVE  PayInv'
<1> USE DEF PayInv
<1>1. PICK e \in Employees : e = a.e
  BY DEF PayType, Rows
<1>2. a.id \in Nat /\ a = [id |-> a.id, e |-> e]
  BY <1>1 DEF PayType, Rows
<1>3. PICK job : job = [[Payroll!resting EXCEPT !.at = "unhand", !.id = a.id] EXCEPT !.e = e]
  OBVIOUS
<1>4. job \in Busy /\ job.at = "unhand" /\ job.e = e /\ job.id = a.id
  <2>1. job = [at |-> "unhand", e |-> e, amount |-> 0, taken |-> 0, rec |-> Payroll!none, id |-> a.id]
    BY <1>3 DEF Payroll!resting
  <2> QED BY <1>2, <2>1, NoneIsRec DEF Busy, Places
<1>5. /\ v7[w].at = "idle" /\ v7' = [v7 EXCEPT ![w] = job]
      /\ v9' = v9 \cup {x \in {e} : \E o \in Workers : v7[o].e = e} /\ v11' = v11
      /\ v10' = v10 \cup {x \in {e} : v2[e].status = "paid"}
      /\ v4' = v4 \ {a} /\ UNCHANGED <<v1, v2, v3, v5, v6, v12>>
  BY <1>1, <1>3 DEF Payroll!DeleteAdvance, Payroll!Enter
<1>6. IsFiniteSet(v4')
  BY <1>5, FS_Subset DEF PayType
<1>7. PayType'
  BY <1>4, <1>5, <1>6 DEF PayType
<1>8. Own(v4', e) = Own(v4, e) \ {a} /\ \A x \in Employees \ {e} : Own(v4', x) = Own(v4, x)
  BY <1>1, <1>5 DEF Own
<1>9. Elsewhere(e)
  BY <1>5, <1>8 DEF Elsewhere, Own
<1>10. ASSUME Fits(e, Payroll!resting) PROVE Fits(e, job)'
  <2>1. RecordFits(e, job, v1[e], v2[e], v5[e], Out(Own(v4, e)), Out(Own(v6, e)), v10)'
    <3>1. e \in v10' <=> e \in v10 \/ v2[e].status = "paid"
      BY <1>5
    <3> QED BY <1>4, <1>5, <1>10, <3>1, RecordEnters, PersonTypes, RestsIdle DEF Fits
  <2>2. ExpenseFits(e, job, v2[e], v3[e], v12)'
    BY <1>4, <1>5, <1>10, ExpenseKept, PersonTypes, RestsIdle DEF Fits, Calm
  <2>3. AdvancesFit(e, job, Own(v4, e), Own(v6, e))'
    <3>1. Own(v4, e) = Own(v6, e)
      BY <1>10, RestsIdle DEF Fits, AdvancesFit
    <3> QED BY <1>2, <1>4, <1>5, <1>8, <3>1 DEF AdvancesFit
  <2> QED BY <2>1, <2>2, <2>3 DEF Fits
<1> QED BY <1>4, <1>5, <1>7, <1>9, <1>10, Entering

\* and its drawer row.
LEMMA UnhandAdvanceKeeps ==
    ASSUME PayInv, NEW w \in Workers, Payroll!UnhandAdvance(w)
    PROVE  PayInv'
<1> USE DEF PayInv
<1>1. PICK old \in Busy, e \in Employees : old = v7[w] /\ e = old.e
  BY BusyAt DEF Payroll!UnhandAdvance, Payroll!At
<1>2. PICK row : row = [id |-> old.id, e |-> e]
  OBVIOUS
<1>3. /\ old.at = "unhand" /\ UNCHANGED <<v1, v2, v3, v4, v5, v9, v10, v11, v12>>
      /\ v7' = [v7 EXCEPT ![w].at = "recompute"] /\ v6' = v6 \ {row}
  BY <1>1, <1>2 DEF Payroll!UnhandAdvance, Payroll!At, Payroll!Inside, Payroll!Goes
<1>4. PICK job : job = [old EXCEPT !.at = "recompute"]
  OBVIOUS
<1>5. job \in Busy /\ job.at = "recompute" /\ job.e = e
  BY <1>1, <1>4, GoesIs DEF Places
<1>6. v7' = [v7 EXCEPT ![w] = job]
  BY <1>1, <1>3, <1>4 DEF PayType
<1>7. row.e = e
  BY <1>2
<1>8. IsFiniteSet(v6')
  BY <1>3, FS_Subset DEF PayType
<1>9. PayType'
  BY <1>3, <1>5, <1>6, <1>8 DEF PayType
<1>10. Own(v6', e) = Own(v6, e) \ {row} /\ \A x \in Employees \ {e} : Own(v6', x) = Own(v6, x)
  BY <1>3, <1>7 DEF Own
<1>11. Elsewhere(e)
  BY <1>3, <1>10 DEF Elsewhere, Own
<1>12. ASSUME Fits(e, old) PROVE Fits(e, job)'
  <2>1. RecordFits(e, job, v1[e], v2[e], v5[e], Out(Own(v4, e)), Out(Own(v6, e)), v10)'
    BY <1>3, <1>5, <1>12, RecordMoves, PersonTypes DEF Fits
  <2>2. ExpenseFits(e, job, v2[e], v3[e], v12)'
    BY <1>3, <1>5, <1>12, ExpenseKept, PersonTypes DEF Fits, Calm
  <2>3. AdvancesFit(e, job, Own(v4, e), Own(v6, e))'
    BY <1>2, <1>3, <1>5, <1>10, <1>12 DEF Fits, AdvancesFit
  <2> QED BY <2>1, <2>2, <2>3 DEF Fits
<1> QED BY <1>1, <1>3, <1>5, <1>6, <1>9, <1>11, <1>12, Moving

\* POST .../pay: the record is read,
LEMMA PayReadKeeps ==
    ASSUME PayInv, NEW w \in Workers, NEW e \in Employees, Payroll!PayRead(w, e)
    PROVE  PayInv'
<1> USE DEF PayInv
<1>1. PICK rec \in Rec : rec = v2[e]
  BY PersonTypes
<1>2. PICK job : job = [[Payroll!resting EXCEPT !.at = "stamp", !.rec = rec] EXCEPT !.e = e]
  OBVIOUS
<1>3. job \in Busy /\ job.at = "stamp" /\ job.e = e /\ job.rec = rec
  <2>1. job = [at |-> "stamp", e |-> e, amount |-> 0, taken |-> 0, rec |-> rec, id |-> 0]
    BY <1>2 DEF Payroll!resting
  <2> QED BY <2>1 DEF Busy, Places
<1>4. /\ v7[w].at = "idle" /\ v7' = [v7 EXCEPT ![w] = job]
      /\ v9' = v9 \cup {x \in {e} : \E o \in Workers : v7[o].e = e} /\ v11' = v11
      /\ rec.exists /\ rec.status # "paid"
      /\ UNCHANGED <<v1, v2, v3, v4, v5, v6, v12>>
  BY <1>1, <1>2 DEF Payroll!PayRead, Payroll!Enter, Payroll!Books
<1>5. v10' = v10
  BY DEF Payroll!PayRead, Payroll!Enter
<1>6. PayType'
  BY <1>3, <1>4 DEF PayType
<1>7. Elsewhere(e)
  BY <1>4, <1>5 DEF Elsewhere
<1>8. ASSUME Fits(e, Payroll!resting) PROVE Fits(e, job)'
  <2>1. RecordFits(e, job, v1[e], v2[e], v5[e], Out(Own(v4, e)), Out(Own(v6, e)), v10)'
    BY <1>1, <1>3, <1>4, <1>5, <1>8, RecordEnters, PersonTypes, RestsIdle DEF Fits
  <2>2. ExpenseFits(e, job, v2[e], v3[e], v12)'
    BY <1>3, <1>4, <1>8, ExpenseKept, PersonTypes, RestsIdle DEF Fits, Calm
  <2>3. AdvancesFit(e, job, Own(v4, e), Own(v6, e))'
    BY <1>3, <1>4, <1>8, RestsIdle DEF Fits, AdvancesFit
  <2> QED BY <2>1, <2>2, <2>3 DEF Fits
<1> QED BY <1>3, <1>4, <1>6, <1>7, <1>8, Entering

\* stamped,
LEMMA PayStampKeeps ==
    ASSUME PayInv, NEW w \in Workers, Payroll!PayStamp(w)
    PROVE  PayInv'
<1> USE DEF PayInv
<1>1. PICK old \in Busy, e \in Employees : old = v7[w] /\ e = old.e
  BY BusyAt DEF Payroll!PayStamp, Payroll!At
<1>2. /\ old.at = "stamp" /\ UNCHANGED <<v1, v3, v4, v5, v6, v9, v10, v11, v12>>
      /\ v7' = [v7 EXCEPT ![w].at = "payout"]
  BY <1>1 DEF Payroll!PayStamp, Payroll!At, Payroll!Inside, Payroll!Goes
<1>3. PICK job : job = [old EXCEPT !.at = "payout"]
  OBVIOUS
<1>4. job \in Busy /\ job.at = "payout" /\ job.e = e /\ job.rec = old.rec
  BY <1>1, <1>3, GoesIs DEF Places
<1>5. v7' = [v7 EXCEPT ![w] = job]
  BY <1>1, <1>2, <1>3 DEF PayType
<1>6. PICK s \in {"draft", "paid"} : s = IF v2[e].exists THEN "paid" ELSE v2[e].status
  BY PersonTypes DEF Rec
<1>7. v2' = [v2 EXCEPT ![e].status = s]
  BY <1>1, <1>6 DEF Payroll!PayStamp, PayType
<1>8. PICK rec : rec = [v2[e] EXCEPT !.status = s]
  OBVIOUS
<1>9. /\ rec \in Rec /\ rec.exists = v2[e].exists /\ rec.linked = v2[e].linked
      /\ rec.salary = v2[e].salary /\ rec.extra = v2[e].extra
  BY <1>8, SetStatusIs, PersonTypes
<1>10. v2' = [v2 EXCEPT ![e] = rec]
  BY <1>7, <1>8 DEF PayType
<1>11. PayType'
  BY <1>2, <1>4, <1>5, <1>9, <1>10 DEF PayType
<1>12. Elsewhere(e)
  BY <1>2, <1>10 DEF Elsewhere, PayType
<1>13. v2'[e] = rec
  BY <1>10 DEF PayType
<1>14. ASSUME Fits(e, old) PROVE Fits(e, job)'
  <2>0. s = "paid" /\ Cost(rec) = Cost(v2[e])
    BY <1>2, <1>6, <1>9, <1>14 DEF Fits, RecordFits, Cost
  <2>1. RecordFits(e, job, v1[e], v2[e], v5[e], Out(Own(v4, e)), Out(Own(v6, e)), v10)'
    BY <1>2, <1>4, <1>8, <1>13, <1>14, <2>0, RecordStamped, PersonTypes DEF Fits
  <2>2. ExpenseFits(e, job, v2[e], v3[e], v12)'
    BY <1>2, <1>4, <1>9, <1>13, <1>14, <2>0, ExpenseKept, PersonTypes DEF Fits, Calm
  <2>3. AdvancesFit(e, job, Own(v4, e), Own(v6, e))'
    BY <1>2, <1>4, <1>14 DEF Fits, AdvancesFit
  <2> QED BY <2>1, <2>2, <2>3 DEF Fits
<1> QED BY <1>1, <1>2, <1>4, <1>5, <1>11, <1>12, <1>14, Moving

\* and the money leaves the drawer.
LEMMA PayOutKeeps ==
    ASSUME PayInv, NEW w \in Workers, Payroll!PayOut(w)
    PROVE  PayInv'
<1> USE DEF PayInv
<1>1. PICK old \in Busy, e \in Employees : old = v7[w] /\ e = old.e
  BY BusyAt DEF Payroll!PayOut, Payroll!At
<1>2. PICK c \in Int : c = v5[e] + old.rec.payable
  BY PersonTypes DEF Busy, Rec
<1>3. /\ old.at = "payout" /\ UNCHANGED <<v1, v2, v3, v4, v6, v9, v10, v11, v12>>
      /\ v7' = [v7 EXCEPT ![w] = Payroll!resting] /\ v5' = [v5 EXCEPT ![e] = c]
  BY <1>1, <1>2 DEF Payroll!PayOut, Payroll!At, Payroll!Inside, Payroll!Done
<1>4. PayType'
  BY <1>3 DEF PayType
<1>5. Elsewhere(e)
  BY <1>3 DEF Elsewhere, PayType
<1>6. v5'[e] = c
  BY <1>3 DEF PayType
<1>7. ASSUME Fits(e, old) PROVE Fits(e, Payroll!resting)'
  <2>0. Own(v4, e) = Own(v6, e)
    BY <1>3, <1>7 DEF Fits, AdvancesFit
  <2>1. RecordFits(e, Payroll!resting, v1[e], v2[e], v5[e], Out(Own(v4, e)), Out(Own(v6, e)), v10)'
    BY <1>2, <1>3, <1>6, <1>7, <2>0, RecordPaid, PersonTypes, RestsIdle DEF Fits
  <2>2. ExpenseFits(e, Payroll!resting, v2[e], v3[e], v12)'
    BY <1>3, <1>7, ExpenseKept, PersonTypes, RestsIdle DEF Fits, Calm
  <2>3. AdvancesFit(e, Payroll!resting, Own(v4, e), Own(v6, e))'
    BY <1>3, <1>7, RestsIdle DEF Fits, AdvancesFit
  <2> QED BY <2>1, <2>2, <2>3 DEF Fits
<1> QED BY <1>1, <1>3, <1>4, <1>5, <1>7, Moving

\* DELETE /api/salary/records: the expense,
LEMMA DeleteReadKeeps ==
    ASSUME PayInv, NEW w \in Workers, NEW e \in Employees, Payroll!DeleteRead(w, e)
    PROVE  PayInv'
<1> USE DEF PayInv
<1>1. PICK job : job = [[Payroll!resting EXCEPT !.at = "uncash"] EXCEPT !.e = e]
  OBVIOUS
<1>2. job \in Busy /\ job.at = "uncash" /\ job.e = e
  BY <1>1, NoneIsRec DEF Busy, Places, Payroll!resting
<1>3. /\ v7[w].at = "idle" /\ v7' = [v7 EXCEPT ![w] = job] /\ v2[e].exists
      /\ v9' = v9 \cup {x \in {e} : \E o \in Workers : v7[o].e = e} /\ v11' = v11
      /\ UNCHANGED <<v1, v2, v4, v5, v6, v12>>
      /\ v3' = IF v2[e].linked THEN [v3 EXCEPT ![e] = [rows |-> 0, amount |-> 0]] ELSE v3
  BY <1>1 DEF Payroll!DeleteRead, Payroll!Enter
<1>4. v10' = v10
  BY DEF Payroll!DeleteRead, Payroll!Enter
<1>5. v3' \in [Employees -> Post] /\ \A x \in Employees \ {e} : v3'[x] = v3[x]
  BY <1>3 DEF PayType, Post
<1>6. v3'[e] = IF v2[e].linked THEN [rows |-> 0, amount |-> 0] ELSE v3[e]
  BY <1>3 DEF PayType
<1>7. PayType'
  BY <1>2, <1>3, <1>5 DEF PayType
<1>8. Elsewhere(e)
  BY <1>3, <1>4, <1>5 DEF Elsewhere
<1>9. ASSUME Fits(e, Payroll!resting) PROVE Fits(e, job)'
  <2>1. RecordFits(e, job, v1[e], v2[e], v5[e], Out(Own(v4, e)), Out(Own(v6, e)), v10)'
    BY <1>2, <1>3, <1>4, <1>9, RecordEnters, PersonTypes, RestsIdle DEF Fits
  <2>2. ExpenseFits(e, job, v2[e], v3[e], v12)'
    BY <1>2, <1>3, <1>6, <1>9, ExpenseRemoved, PersonTypes, RestsIdle DEF Fits
  <2>3. AdvancesFit(e, job, Own(v4, e), Own(v6, e))'
    BY <1>2, <1>3, <1>9, RestsIdle DEF Fits, AdvancesFit
  <2> QED BY <2>1, <2>2, <2>3 DEF Fits
<1> QED BY <1>2, <1>3, <1>7, <1>8, <1>9, Entering

\* the drawer rows
LEMMA DeleteCashKeeps ==
    ASSUME PayInv, NEW w \in Workers, Payroll!DeleteCash(w)
    PROVE  PayInv'
<1> USE DEF PayInv
<1>1. PICK old \in Busy, e \in Employees : old = v7[w] /\ e = old.e
  BY BusyAt DEF Payroll!DeleteCash, Payroll!At
<1>2. /\ old.at = "uncash" /\ UNCHANGED <<v1, v2, v3, v4, v6, v9, v10, v11, v12>>
      /\ v7' = [v7 EXCEPT ![w].at = "drop"] /\ v5' = [v5 EXCEPT ![e] = 0]
  BY <1>1 DEF Payroll!DeleteCash, Payroll!At, Payroll!Inside, Payroll!Goes
<1>3. PICK job : job = [old EXCEPT !.at = "drop"]
  OBVIOUS
<1>4. job \in Busy /\ job.at = "drop" /\ job.e = e
  BY <1>1, <1>3, GoesIs DEF Places
<1>5. v7' = [v7 EXCEPT ![w] = job]
  BY <1>1, <1>2, <1>3 DEF PayType
<1>6. PayType'
  BY <1>2, <1>4, <1>5 DEF PayType
<1>7. Elsewhere(e)
  BY <1>2 DEF Elsewhere, PayType
<1>8. v5'[e] = 0
  BY <1>2 DEF PayType
<1>9. ASSUME Fits(e, old) PROVE Fits(e, job)'
  <2>1. RecordFits(e, job, v1[e], v2[e], v5[e], Out(Own(v4, e)), Out(Own(v6, e)), v10)'
    BY <1>2, <1>4, <1>8, <1>9, RecordUncashed, PersonTypes DEF Fits
  <2>2. ExpenseFits(e, job, v2[e], v3[e], v12)'
    BY <1>2, <1>4, <1>9, ExpenseGone, PersonTypes DEF Fits
  <2>3. AdvancesFit(e, job, Own(v4, e), Own(v6, e))'
    BY <1>2, <1>4, <1>9 DEF Fits, AdvancesFit
  <2> QED BY <2>1, <2>2, <2>3 DEF Fits
<1> QED BY <1>1, <1>2, <1>4, <1>5, <1>6, <1>7, <1>9, Moving

\* and the record.
LEMMA DeleteRecordKeeps ==
    ASSUME PayInv, NEW w \in Workers, Payroll!DeleteRecord(w)
    PROVE  PayInv'
<1> USE DEF PayInv
<1>1. PICK old \in Busy, e \in Employees : old = v7[w] /\ e = old.e
  BY BusyAt DEF Payroll!DeleteRecord, Payroll!At
<1>2. /\ old.at = "drop" /\ UNCHANGED <<v1, v3, v4, v5, v6, v9, v11, v12>>
      /\ v10' = v10 \ {e}
      /\ v7' = [v7 EXCEPT ![w] = Payroll!resting] /\ v2' = [v2 EXCEPT ![e] = Payroll!none]
  BY <1>1 DEF Payroll!DeleteRecord, Payroll!At, Payroll!Done
<1>3. PayType'
  BY <1>2, NoneIsRec DEF PayType
<1>4. Elsewhere(e)
  BY <1>2 DEF Elsewhere, PayType
<1>5. v2'[e] = Payroll!none
  BY <1>2 DEF PayType
<1>6. ASSUME Fits(e, old) PROVE Fits(e, Payroll!resting)'
  <2>1. RecordFits(e, Payroll!resting, v1[e], v2[e], v5[e], Out(Own(v4, e)), Out(Own(v6, e)), v10)'
    BY <1>2, <1>5, <1>6, RecordDropped, PersonTypes, RestsIdle DEF Fits
  <2>2. ExpenseFits(e, Payroll!resting, v2[e], v3[e], v12)'
    BY <1>2, <1>5, <1>6, ExpenseGone, PersonTypes, RestsIdle DEF Fits
  <2>3. AdvancesFit(e, Payroll!resting, Own(v4, e), Own(v6, e))'
    BY <1>2, <1>6, RestsIdle DEF Fits, AdvancesFit
  <2> QED BY <2>1, <2>2, <2>3 DEF Fits
<1> QED BY <1>1, <1>2, <1>3, <1>4, <1>6, Moving

\* The process stops: whoever a request was busy with is no longer spoken of.
LEMMA DieKeeps ==
    ASSUME PayInv, Payroll!Die
    PROVE  PayInv'
<1> USE DEF PayInv
<1>1. /\ v7' = [w \in Workers |-> Payroll!resting]
      /\ v11' = v11 \cup ({v7[w].e : w \in Workers} \ {"none"})
      /\ UNCHANGED <<v1, v2, v3, v4, v5, v6, v9, v10, v12>>
  BY DEF Payroll!Die
<1>2. PayType'
  BY <1>1 DEF PayType
<1>3. ASSUME NEW x \in Employees, x \notin v9', x \notin v11' PROVE Person(x)'
  <2>1. Person(x) /\ \A w \in Workers : v7[w].e # x
    BY <1>1, <1>3, OfficeAssumption
  <2>2. Fits(x, Payroll!resting)'
    BY <1>1, <2>1 DEF Person, Fits
  <2>3. \A w \in Workers : v7'[w].e = "none"
    BY <1>1 DEF Payroll!resting
  <2>4. \A w \in Workers : v7'[w].e # x
    BY <2>3, OfficeAssumption
  <2> QED BY <2>2, <2>4 DEF Person
<1> QED BY <1>2, <1>3

-----------------------------------------------------------------------------
LEMMA PayInit == part = "payroll" /\ Payroll!Init => PayInv
<1> SUFFICES ASSUME Payroll!Init PROVE PayInv
  OBVIOUS
<1>1. /\ v1 \in [Employees -> Salaries] /\ v2 = [e \in Employees |-> Payroll!none]
      /\ v3 = [e \in Employees |-> [rows |-> 0, amount |-> 0]]
      /\ v4 = {} /\ v6 = {} /\ v5 = [e \in Employees |-> 0]
      /\ v7 = [w \in Workers |-> Payroll!resting]
  BY DEF Payroll!Init
<1>2. PayType
  <2>1. v1 \in [Employees -> Nat]
    BY <1>1, OfficeAssumption
  <2>2. v2 \in [Employees -> Rec] /\ v5 \in [Employees -> Int]
    BY <1>1, NoneIsRec
  <2>3. v3 \in [Employees -> Post]
    BY <1>1 DEF Post
  <2>4. IsFiniteSet(v4) /\ IsFiniteSet(v6) /\ v4 \in SUBSET Rows /\ v6 \in SUBSET Rows
    BY <1>1, FS_EmptySet
  <2>5. v7 \in [Workers -> {Payroll!resting} \cup Busy]
    BY <1>1
  <2> QED BY <2>1, <2>2, <2>3, <2>4, <2>5 DEF PayType
<1>3. \A w \in Workers : v7[w].e = "none"
  BY <1>1 DEF Payroll!resting
<1>4. ASSUME NEW e \in Employees PROVE Person(e)
  <2>1. \A w \in Workers : v7[w].e # e
    BY <1>3, OfficeAssumption
  <2>2. RecordFits(e, Payroll!resting, v1[e], v2[e], v5[e], Out(Own(v4, e)), Out(Own(v6, e)), v10)
    BY <1>1, RestsIdle, <1>2 DEF RecordFits, Payroll!none, Payroll!resting
  <2>3. ExpenseFits(e, Payroll!resting, v2[e], v3[e], v12)
    BY <1>1 DEF ExpenseFits, Payroll!none, Payroll!resting
  <2>4. AdvancesFit(e, Payroll!resting, Own(v4, e), Own(v6, e))
    BY <1>1 DEF AdvancesFit, Payroll!resting, Own
  <2> QED BY <2>1, <2>2, <2>3, <2>4 DEF Person, Fits
<1> QED BY <1>2, <1>4 DEF PayInv

LEMMA PayNext == PayInv /\ Payroll!Next => PayInv'
<1> SUFFICES ASSUME PayInv, Payroll!Next PROVE PayInv'
  OBVIOUS
<1>1. CASE \E w \in Workers, e \in Employees :
              \/ \E s \in Salaries : Payroll!SetSalary(w, e, s)
              \/ \E taken \in OffDays : Payroll!UpsertRead(w, e, taken)
              \/ Payroll!RecordAdvance(w, e) \/ Payroll!PayRead(w, e) \/ Payroll!DeleteRead(w, e)
  BY <1>1, SetSalaryKeeps, UpsertReadKeeps, RecordAdvanceKeeps, PayReadKeeps, DeleteReadKeeps
<1>2. CASE \E w \in Workers, a \in v4 : Payroll!DeleteAdvance(w, a)
  BY <1>2, DeleteAdvanceKeeps
<1>3. CASE \E w \in Workers :
              \/ Payroll!RefreshDraft(w) \/ Payroll!UpsertWrite(w) \/ Payroll!RecomputeRead(w)
              \/ Payroll!RecomputeWrite(w) \/ Payroll!SyncExpense(w) \/ Payroll!HandAdvance(w)
              \/ Payroll!UnhandAdvance(w) \/ Payroll!PayStamp(w) \/ Payroll!PayOut(w)
              \/ Payroll!DeleteCash(w) \/ Payroll!DeleteRecord(w)
  BY <1>3, RefreshDraftKeeps, UpsertWriteKeeps, RecomputeReadKeeps, RecomputeWriteKeeps,
     SyncExpenseKeeps, HandAdvanceKeeps, UnhandAdvanceKeeps, PayStampKeeps, PayOutKeeps,
     DeleteCashKeeps, DeleteRecordKeeps
<1>4. CASE \E e \in Employees : Payroll!DeleteExpense(e)
  BY <1>4, DeleteExpenseKeeps
<1>5. CASE Payroll!Die
  BY <1>5, DieKeeps
<1> QED BY <1>1, <1>2, <1>3, <1>4, <1>5 DEF Payroll!Next

LEMMA PaySame == PayInv /\ UNCHANGED allVars => PayInv'
<1> SUFFICES ASSUME PayInv, UNCHANGED allVars PROVE PayInv'
  OBVIOUS
<1>1. UNCHANGED <<v1, v2, v3, v4, v5, v6, v7, v9, v10, v11, v12>>
  BY DEF allVars
<1>2. PayType'
  BY <1>1 DEF PayInv, PayType
<1>3. ASSUME NEW e \in Employees, Person(e) PROVE Person(e)'
  BY <1>1, <1>3 DEF Person, Fits
<1> QED BY <1>1, <1>2, <1>3 DEF PayInv

\* At rest, what fits an employee is what PayrollCountedOnce asks.
LEMMA PayCounted == PayInv => Payroll!PayrollCountedOnce
<1> DEFINE out(e) == v5[e] + AdvancePay * Payroll!Cardinality({a \in v6 : a.e = e})
           cost(e) == v2[e].salary + v2[e].extra
           full(e) == /\ e \notin v12 => v3[e] = [rows |-> 1, amount |-> cost(e)]
                      /\ v2[e].payable = cost(e) - Payroll!Given(e)
                      /\ v2[e].status = "paid" /\ e \notin v10 => out(e) = cost(e)
                      /\ v2[e].status = "draft" => v5[e] = 0 /\ ~Payroll!NeedsSave(e)
           bare(e) == v3[e].rows = 0 /\ v5[e] = 0
<1> SUFFICES ASSUME PayInv, Payroll!Quiet, NEW e \in Employees \ (v9 \cup v11)
             PROVE  IF v2[e].exists THEN full(e) ELSE bare(e)
  BY DEF Payroll!PayrollCountedOnce
<1> USE DEF PayInv
<1>1. \A w \in Workers : v7[w].e # e
  <2>1. \A w \in Workers : v7[w].at = "idle"
    BY DEF Payroll!Quiet
  <2> QED BY <2>1, RestsIdle
<1>2. Fits(e, Payroll!resting) /\ Payroll!resting.at = "idle"
  BY <1>1 DEF Person, Payroll!resting
<1>3. PICK given \in Int : given = Payroll!Given(e) /\ given = Out(Own(v4, e))
  BY GivenIs, PersonTypes
<1>4. Own(v4, e) = Own(v6, e)
  BY <1>2 DEF Fits, AdvancesFit
<1>5. AdvancePay * Payroll!Cardinality({a \in v6 : a.e = e}) = given
  <2>1. \A S : Payroll!Cardinality(S) = Cardinality(S)
    BY Zenon DEF Payroll!Cardinality, Cardinality
  <2> QED BY <1>3, <1>4, <2>1 DEF Out, Own
<1>6. PICK rec \in Rec, post \in Post, cash \in Int, sal \in Nat :
        rec = v2[e] /\ post = v3[e] /\ cash = v5[e] /\ sal = v1[e]
  BY PersonTypes
<1>7. RecordFits(e, Payroll!resting, sal, rec, cash, given, given, v10)
  BY <1>2, <1>3, <1>4, <1>6 DEF Fits
<1>8. ExpenseFits(e, Payroll!resting, rec, post, v12)
  BY <1>2, <1>6 DEF Fits
<1>9. CASE ~rec.exists
  BY <1>2, <1>6, <1>7, <1>8, <1>9 DEF RecordFits, ExpenseFits
<1>10. CASE rec.exists
  <2>1. Owes(rec, given)
    BY <1>2, <1>7, <1>10 DEF RecordFits, Calm
  <2>2. e \notin v12 => post = [rows |-> 1, amount |-> rec.salary + rec.extra]
    <3>1. e \notin v12 => post.rows = 1 /\ post.amount = rec.salary + rec.extra
      BY <1>2, <1>8, <1>10 DEF ExpenseFits, Calm, Cost
    <3> QED BY <3>1 DEF Post
  <2>3. rec.payable = rec.salary + rec.extra - given
    <3>1. PICK c \in Int : c = rec.salary + rec.extra
      BY DEF Rec
    <3>2. c = Cost(rec)
      BY <3>1 DEF Cost
    <3>3. rec.payable = c - given
      BY <2>1, <3>2 DEF Owes
    <3> QED BY <3>1, <3>3 DEF Rec
  <2>4. rec.status = "paid" /\ e \notin v10 => given + cash = rec.salary + rec.extra
    BY <1>2, <1>7 DEF RecordFits, Cost
  <2>5. ASSUME rec.status = "draft" PROVE cash = 0 /\ ~Payroll!NeedsSave(e)
    <3>1. cash = 0 /\ rec.salary = sal
      BY <1>2, <1>7, <1>10, <2>5 DEF RecordFits
    <3>2. PICK next : next = [rec EXCEPT !.salary = sal]
      OBVIOUS
    <3>3. next = rec
      BY <3>1, <3>2 DEF Rec
    <3>4. PICK slip : slip = Payroll!Computed(rec, given)
      OBVIOUS
    <3>5. slip \in Rec /\ Owes(slip, given) /\ slip.salary = rec.salary /\ slip.taken = rec.taken
      BY <3>4, SlipComputed
    <3>6. slip.payable = rec.payable
      BY <2>1, <3>5 DEF Owes, Cost
    <3>7. Payroll!NeedsSave(e) => rec.payable # slip.payable
      BY <1>3, <1>6, <3>2, <3>3, <3>4 DEF Payroll!NeedsSave
    <3> QED BY <3>1, <3>6, <3>7
  <2>6. v5[e] + AdvancePay * Payroll!Cardinality({a \in v6 : a.e = e}) = given + cash
    BY <1>5, <1>6
  <2>7. e \notin v12 => v3[e] = [rows |-> 1, amount |-> cost(e)]
    BY <1>6, <2>2
  <2>8. v2[e].payable = cost(e) - Payroll!Given(e)
    <3>1. PICK c \in Int : c = rec.salary + rec.extra
      BY DEF Rec
    <3>2. cost(e) = c
      BY <1>6, <3>1
    <3>3. rec.payable = c - given
      BY <2>3, <3>1 DEF Rec
    <3> HIDE DEF cost
    <3>4. v2[e].payable = c - given
      BY <1>6, <3>3
    <3> QED BY <1>3, <3>2, <3>4
  <2>9. v2[e].status = "paid" /\ e \notin v10 => out(e) = cost(e)
    BY <1>6, <2>4, <2>6
  <2>10. v2[e].status = "draft" => v5[e] = 0 /\ ~Payroll!NeedsSave(e)
    BY <1>6, <2>5
  <2>11. v2[e].exists
    BY <1>6, <1>10
  <2>12. full(e)
    <3> HIDE DEF out, cost
    <3> QED BY <2>7, <2>8, <2>9, <2>10
  <2> QED BY <2>11, <2>12
<1> QED BY <1>9, <1>10

-----------------------------------------------------------------------------
(***************************************************************************)
(* The approval queue.  v1 = queue, v2 = expenses, v3 = drawer,            *)
(* v4 = worker, v5 = carried, v6 = refused, v7 = lapped, v8 = doubled,     *)
(* v9 = torn.  The parts "answers" and "proposals" differ in constants     *)
(* that only guard a step or choose its inputs: a step of either is an     *)
(* AskNext.                                                                *)
(***************************************************************************)
Asks == AskedKinds \cup {"note"}
Ask == [kind : Asks, want : Int, source : {"ai", "auditor", "season"}, group : Int,
        status : {"pending", "executed", "rejected", "expired"}, timed : BOOLEAN]
Working == {"expire", "execute", "drawer", "mark", "edit"}
Hand == [at : Working \cup {"idle", "insert", "plan"}, act : Int, kind : Asks \cup {"none"},
         want : Int, left : Seq(Asks)]
Works(w, i) == v4[w].at \in Working /\ v4[w].act = i

AskType ==
    /\ v1 \in Seq(Ask) /\ v5 \in Seq(Seq(Int)) /\ Len(v5) = Len(v1)
    /\ v2 \in Int /\ v3 \in Int
    /\ v4 \in [Workers -> Hand]
    /\ v6 \subseteq DOMAIN v1
    /\ v8 \in BOOLEAN /\ v9 \in BOOLEAN
    /\ \A w \in Workers : /\ v4[w].at \in Working => v4[w].act \in DOMAIN v1
                          /\ v4[w].at = "plan" => v4[w].left # <<>>

\* An action nobody overtook is in the hands of at most one request, and what it
\* has done is what that request's place says.
ActionOk(i) ==
    /\ \A w, x \in Workers : Works(w, i) /\ Works(x, i) => w = x
    /\ (\A w \in Workers : ~Works(w, i))
          => v5[i] = IF v1[i].status = "executed" THEN <<v1[i].want>> ELSE <<>>
    /\ \A w \in Workers : Works(w, i) =>
          /\ v1[i].status # "executed" /\ i \notin v6
          /\ v4[w].at \in {"expire", "execute", "edit"} => v5[i] = <<>>
          /\ v4[w].at \in {"drawer", "mark"} => v5[i] = <<v1[i].want>>
          /\ v4[w].at \in {"execute", "drawer", "mark"} => v4[w].want = v1[i].want
    /\ i \in v6 => v1[i].status = "rejected" /\ v5[i] = <<>>

\* what is in the expenses and not in the drawer yet
Due(w) == IF v4[w].at = "drawer" THEN v4[w].want ELSE 0
Owed == SumFunctionOnSet([w \in Workers |-> Due(w)], Workers)
MoneyOk == ~v9 => v3 = Owed - v2

Waits(i, source) == i \in DOMAIN v1 /\ v1[i].source = source /\ v1[i].status = "pending"

\* A proposal under way has made room for its own rows.
OpenOk == ~v8 =>
    /\ \A i, j : Waits(i, "auditor") /\ Waits(j, "auditor") /\ v1[i].group = v1[j].group => i = j
    /\ \A i, j : Waits(i, "season") /\ Waits(j, "season") => v1[i].group = v1[j].group
    /\ \A w, x \in Workers : v4[w].at = "insert" /\ v4[x].at = "insert" => w = x
    /\ \A w, x \in Workers : v4[w].at = "plan" /\ v4[x].at = "plan" => w = x
    /\ \A w \in Workers : v4[w].at = "insert" =>
          \A i : Waits(i, "auditor") => v1[i].group # v4[w].want
    /\ \A w \in Workers : v4[w].at = "plan" =>
          \A i : Waits(i, "season") => v1[i].group = v4[w].want

AskInv == AskType /\ (\A i \in DOMAIN v1 \ v7 : ActionOk(i)) /\ MoneyOk /\ OpenOk

Propose == /\ \E kind \in Asks, want \in Int : Answers!Insert(Answers!Row(kind, want, "ai", 0, TRUE))
           /\ UNCHANGED <<v2, v3, v4, v6, v7, v8, v9>>

Audited(w) == \E key \in Int :
    /\ v4[w] = Answers!idle
    /\ v1' = [i \in DOMAIN v1 |-> IF i \in Answers!Pending("auditor") /\ v1[i].group = key
                                  THEN [v1[i] EXCEPT !.status = "expired"] ELSE v1[i]]
    /\ v4' = [v4 EXCEPT ![w] = [Answers!idle EXCEPT !.at = "insert", !.want = key]]
    /\ v8' = (v8 \/ Answers!Busy({"insert"}) /= {})
    /\ UNCHANGED <<v2, v3, v5, v6, v7, v9>>

Planning(w) ==
    /\ v4[w] = Answers!idle
    /\ Answers!Pending("season") = {}
    /\ v4' = [v4 EXCEPT ![w] = [Answers!idle EXCEPT !.at = "plan", !.want = Len(v1) + 1, !.left = Season]]
    /\ v8' = (v8 \/ Answers!Busy({"plan"}) /= {})
    /\ UNCHANGED <<v1, v2, v3, v5, v6, v7, v9>>

AskNext ==
    \/ Propose \/ Answers!Boot
    \/ \E i \in DOMAIN v1 : Answers!RejectPendingAction(i)
    \/ \E w \in Workers :
          \/ Audited(w) \/ Answers!AuditInsert(w) \/ Planning(w) \/ Answers!PrepareInsert(w)
          \/ \E i \in DOMAIN v1, late, pin \in BOOLEAN : Answers!ApproveRead(w, i, late, pin)
          \/ \E i \in DOMAIN v1, want \in Int : Answers!EditRead(w, i, want)
          \/ Answers!ApproveExpire(w) \/ Answers!ExecutePendingAction(w)
          \/ Answers!ExpenseDrawer(w) \/ Answers!ApproveMark(w) \/ Answers!EditWrite(w)

LEMMA AnswersAsk == Answers!Next => AskNext
<1> SUFFICES ASSUME Answers!Next PROVE AskNext
  OBVIOUS
<1>1. ASSUME NEW kind \in AskedKinds, NEW want \in AskedValues,
             Answers!CreatePendingAction(kind, want)
      PROVE  Propose
  <2>1. kind \in Asks
    BY DEF Asks
  <2>2. want \in Int
    BY OfficeAssumption
  <2> QED BY <1>1, <2>1, <2>2 DEF Propose, Answers!CreatePendingAction, Answers!history
<1>2. ASSUME NEW w \in Workers, NEW key \in {1}, Answers!AuditExpire(w, key) PROVE Audited(w)
  <2>1. key \in Int
    OBVIOUS
  <2> QED BY <1>2, <2>1 DEF Audited, Answers!AuditExpire, Answers!effects
<1>3. ASSUME NEW w \in Workers, Answers!PrepareRead(w) PROVE Planning(w)
  BY <1>3 DEF Planning, Answers!PrepareRead, Answers!effects
<1>4. AskedValues \subseteq Int
  BY OfficeAssumption
<1> QED BY <1>1, <1>2, <1>3, <1>4 DEF Answers!Next, AskNext

LEMMA ProposalsAsk == Proposals!Next => AskNext
<1> SUFFICES ASSUME Proposals!Next PROVE AskNext
  OBVIOUS
<1>2. ASSUME NEW w \in Workers, NEW key \in {1}, Proposals!AuditExpire(w, key) PROVE Audited(w)
  <2>1. key \in Int
    OBVIOUS
  <2> QED BY <1>2, <2>1 DEF Audited, Proposals!AuditExpire, Proposals!effects,
            Proposals!idle, Answers!idle, Proposals!Pending, Answers!Pending,
            Proposals!Busy, Answers!Busy
<1>3. ASSUME NEW w \in Workers, Proposals!PrepareRead(w) PROVE Planning(w)
  BY <1>3 DEF Planning, Proposals!PrepareRead, Proposals!effects,
            Proposals!idle, Answers!idle, Proposals!Pending, Answers!Pending,
            Proposals!Busy, Answers!Busy
<1>4. ASSUME NEW w \in Workers, Proposals!AuditInsert(w) PROVE Answers!AuditInsert(w)
  BY <1>4 DEF Proposals!AuditInsert, Answers!AuditInsert, Proposals!Insert, Answers!Insert,
       Proposals!Row, Answers!Row, Proposals!Done, Answers!Done, Proposals!idle, Answers!idle,
       Proposals!history, Answers!history
<1>5. ASSUME NEW w \in Workers, Proposals!PrepareInsert(w) PROVE Answers!PrepareInsert(w)
  BY <1>5 DEF Proposals!PrepareInsert, Answers!PrepareInsert, Proposals!Insert, Answers!Insert,
       Proposals!Row, Answers!Row, Proposals!Done, Answers!Done, Proposals!idle, Answers!idle,
       Proposals!history, Answers!history
<1>6. \A i : Proposals!Lapping(i) => Answers!Lapping(i)
  BY DEF Proposals!Lapping, Answers!Lapping, Proposals!WorkedOn, Answers!WorkedOn,
       Proposals!Busy, Answers!Busy
<1>7. ASSUME NEW w \in Workers, NEW i \in DOMAIN v1, NEW late \in BOOLEAN, NEW pin \in BOOLEAN,
             Proposals!ApproveRead(w, i, late, pin)
      PROVE  Answers!ApproveRead(w, i, late, pin)
  BY <1>6, <1>7 DEF Proposals!ApproveRead, Answers!ApproveRead, Proposals!Open, Answers!Open,
       Proposals!idle, Answers!idle, Proposals!effects, Answers!effects
<1>8. ASSUME NEW i \in DOMAIN v1, Proposals!RejectPendingAction(i)
      PROVE  Answers!RejectPendingAction(i)
  BY <1>6, <1>8 DEF Proposals!RejectPendingAction, Answers!RejectPendingAction, Proposals!Open,
       Answers!Open, Proposals!Mark, Answers!Mark, Proposals!effects, Answers!effects
<1>9. ASSUME NEW w \in Workers
      PROVE  /\ Proposals!ApproveExpire(w) => Answers!ApproveExpire(w)
             /\ Proposals!ApproveMark(w) => Answers!ApproveMark(w)
             /\ Proposals!EditWrite(w) => Answers!EditWrite(w)
  BY DEF Proposals!ApproveExpire, Answers!ApproveExpire, Proposals!ApproveMark, Answers!ApproveMark,
       Proposals!EditWrite, Answers!EditWrite, Proposals!Mark, Answers!Mark, Proposals!Done,
       Answers!Done, Proposals!idle, Answers!idle, Proposals!effects, Answers!effects,
       Proposals!history, Answers!history
<1>10. ASSUME NEW w \in Workers
       PROVE  /\ Proposals!ExecutePendingAction(w) => Answers!ExecutePendingAction(w)
              /\ Proposals!ExpenseDrawer(w) => Answers!ExpenseDrawer(w)
  BY DEF Proposals!ExecutePendingAction, Answers!ExecutePendingAction, Proposals!ExpenseDrawer,
       Answers!ExpenseDrawer, Proposals!history, Answers!history
<1>11. Proposals!Boot => Answers!Boot
  BY DEF Proposals!Boot, Answers!Boot, Proposals!Busy, Answers!Busy, Proposals!idle, Answers!idle,
       Proposals!WorkedOn, Answers!WorkedOn, Proposals!Open, Answers!Open, Proposals!effects,
       Answers!effects
<1> QED BY <1>2, <1>3, <1>4, <1>5, <1>7, <1>8, <1>9, <1>10, <1>11 DEF Proposals!Next, AskNext

-----------------------------------------------------------------------------
(***************************************************************************)
(* What a step leaves alone.                                               *)
(***************************************************************************)

\* An action that the step does not change, in the same hands.
LEMMA ActionStays ==
    ASSUME NEW i, ActionOk(i), v5'[i] = v5[i], v1'[i].want = v1[i].want,
           v1'[i].status = v1[i].status
              \/ (i \notin v6 /\ v1[i].status # "executed" /\ v1'[i].status # "executed"),
           i \in v6' => i \in v6,
           \A w \in Workers : Works(w, i) \/ (v4'[w].at \in Working /\ v4'[w].act = i) =>
               v4'[w].at = v4[w].at /\ v4'[w].act = v4[w].act /\ v4'[w].want = v4[w].want
    PROVE  ActionOk(i)'
<1>1. ASSUME NEW w \in Workers PROVE Works(w, i)' <=> Works(w, i)
  BY DEF Works
<1>2. ASSUME NEW w \in Workers, Works(w, i)
      PROVE  v4'[w].at = v4[w].at /\ v4'[w].want = v4[w].want
  BY <1>2
<1> HIDE DEF Works
<1>3. (\A w, x \in Workers : Works(w, i) /\ Works(x, i) => w = x)'
  BY <1>1 DEF ActionOk
<1>4. ((\A w \in Workers : ~Works(w, i))
          => v5[i] = IF v1[i].status = "executed" THEN <<v1[i].want>> ELSE <<>>)'
  BY <1>1 DEF ActionOk
<1>5. ASSUME NEW w \in Workers, Works(w, i)'
      PROVE  (/\ v1[i].status # "executed" /\ i \notin v6
              /\ v4[w].at \in {"expire", "execute", "edit"} => v5[i] = <<>>
              /\ v4[w].at \in {"drawer", "mark"} => v5[i] = <<v1[i].want>>
              /\ v4[w].at \in {"execute", "drawer", "mark"} => v4[w].want = v1[i].want)'
  BY <1>1, <1>2, <1>5 DEF ActionOk
<1>6. (i \in v6 => v1[i].status = "rejected" /\ v5[i] = <<>>)'
  BY DEF ActionOk
<1> QED BY <1>3, <1>4, <1>5, <1>6 DEF ActionOk

LEMMA MoneyStays ==
    ASSUME MoneyOk, UNCHANGED <<v2, v3>>, v9' = v9, \A w \in Workers : Due(w)' = Due(w)
    PROVE  MoneyOk'
<1>1. [w \in Workers |-> Due(w)'] = [w \in Workers |-> Due(w)]
  OBVIOUS
<1>2. Owed' = Owed
  BY <1>1 DEF Owed
<1> QED BY <1>2 DEF MoneyOk

LEMMA OpenStays ==
    ASSUME OpenOk, v8' = v8,
           \A i : \A s \in {"auditor", "season"} :
               Waits(i, s)' => Waits(i, s) /\ v1'[i].group = v1[i].group,
           \A w \in Workers : v4'[w].at \in {"insert", "plan"} =>
               v4'[w].at = v4[w].at /\ v4'[w].want = v4[w].want
    PROVE  OpenOk'
<1>1. \A i : /\ Waits(i, "auditor")' => Waits(i, "auditor") /\ v1'[i].group = v1[i].group
             /\ Waits(i, "season")' => Waits(i, "season") /\ v1'[i].group = v1[i].group
  OBVIOUS
<1> QED BY <1>1 DEF OpenOk, Waits

\* What a new row is.
LEMMA InsertIs ==
    ASSUME AskType, NEW row \in Ask, Answers!Insert(row), NEW n, n = Len(v1) + 1
    PROVE  /\ v1' \in Seq(Ask) /\ v5' \in Seq(Seq(Int)) /\ Len(v5') = Len(v1')
           /\ n \in Nat /\ n \notin DOMAIN v1 /\ DOMAIN v1' = DOMAIN v1 \cup {n}
           /\ v1'[n] = row /\ v5'[n] = <<>>
           /\ \A i \in DOMAIN v1 : v1'[i] = v1[i] /\ v5'[i] = v5[i]
<1>1. v1' = Append(v1, row) /\ v5' = Append(v5, <<>>)
  BY DEF Answers!Insert
<1>2. v1 \in Seq(Ask) /\ v5 \in Seq(Seq(Int)) /\ Len(v5) = Len(v1) /\ <<>> \in Seq(Int)
  BY DEF AskType
<1> QED BY <1>1, <1>2

\* A new row that is in nobody's hands, and the others stay.
LEMMA InsertKeeps ==
    ASSUME AskType, \A i \in DOMAIN v1 \ v7 : ActionOk(i),
           NEW row \in Ask, Answers!Insert(row), row.status = "pending", UNCHANGED <<v6, v7>>,
           \A w \in Workers : v4[w].at \in Working \/ v4'[w].at \in Working => v4'[w] = v4[w]
    PROVE  \A i \in DOMAIN v1' \ v7' : ActionOk(i)'
<1>1. PICK n : n = Len(v1) + 1
  OBVIOUS
<1>2. /\ n \notin DOMAIN v1 /\ DOMAIN v1' = DOMAIN v1 \cup {n}
      /\ v1'[n] = row /\ v5'[n] = <<>>
      /\ \A i \in DOMAIN v1 : v1'[i] = v1[i] /\ v5'[i] = v5[i]
  BY <1>1, InsertIs
<1>3. ASSUME NEW i \in DOMAIN v1 \ v7 PROVE ActionOk(i)'
  <2>1. \A w \in Workers : Works(w, i) \/ (v4'[w].at \in Working /\ v4'[w].act = i) => v4'[w] = v4[w]
    BY DEF Works
  <2> QED BY <1>2, <2>1, ActionStays
<1>4. ActionOk(n)'
  <2>1. \A w \in Workers : ~Works(w, n)'
    BY <1>2 DEF Works, AskType
  <2>2. n \notin v6'
    BY <1>2 DEF AskType
  <2> QED BY <1>2, <2>1, <2>2 DEF ActionOk
<1> QED BY <1>2, <1>3, <1>4

LEMMA IdleIs == Answers!idle \in Hand /\ Answers!idle.at = "idle"
<1>1. <<>> \in Seq(Asks)
  OBVIOUS
<1> QED BY <1>1 DEF Answers!idle, Hand

-----------------------------------------------------------------------------
(***************************************************************************)
(* The steps.                                                              *)
(***************************************************************************)
LEMMA ProposeKeeps == ASSUME AskInv, Propose PROVE AskInv'
<1> USE DEF AskInv
<1>1. PICK kind \in Asks, want \in Int : Answers!Insert(Answers!Row(kind, want, "ai", 0, TRUE))
  BY DEF Propose
<1>2. UNCHANGED <<v2, v3, v4, v6, v7, v8, v9>>
  BY DEF Propose
<1>3. PICK row \in Ask : /\ row.source = "ai" /\ row.status = "pending"
                         /\ Answers!Insert(row)
  <2>1. PICK row : row = Answers!Row(kind, want, "ai", 0, TRUE)
    OBVIOUS
  <2>2. row \in Ask /\ row.source = "ai" /\ row.status = "pending"
    BY <2>1 DEF Answers!Row, Ask
  <2> QED BY <1>1, <2>1, <2>2
<1>4. PICK n : n = Len(v1) + 1
  OBVIOUS
<1>5. /\ v1' \in Seq(Ask) /\ v5' \in Seq(Seq(Int)) /\ Len(v5') = Len(v1')
      /\ DOMAIN v1' = DOMAIN v1 \cup {n} /\ v1'[n] = row
      /\ \A i \in DOMAIN v1 : v1'[i] = v1[i]
  BY <1>3, <1>4, InsertIs
<1>6. AskType'
  BY <1>2, <1>5 DEF AskType
<1>7. \A i \in DOMAIN v1' \ v7' : ActionOk(i)'
  BY <1>2, <1>3, InsertKeeps
<1>8. MoneyOk'
  BY <1>2, MoneyStays DEF Due
<1>9. OpenOk'
  BY <1>2, <1>3, <1>5, OpenStays DEF Waits
<1> QED BY <1>6, <1>7, <1>8, <1>9

\* The auditor expires what is open, and takes its place.
LEMMA AuditedKeeps == ASSUME AskInv, NEW w \in Workers, Audited(w) PROVE AskInv'
<1> USE DEF AskInv
<1>1. PICK key \in Int :
        /\ v4[w] = Answers!idle
        /\ v1' = [i \in DOMAIN v1 |-> IF i \in Answers!Pending("auditor") /\ v1[i].group = key
                                      THEN [v1[i] EXCEPT !.status = "expired"] ELSE v1[i]]
        /\ v4' = [v4 EXCEPT ![w] = [Answers!idle EXCEPT !.at = "insert", !.want = key]]
        /\ v8' = (v8 \/ Answers!Busy({"insert"}) /= {})
        /\ UNCHANGED <<v2, v3, v5, v6, v7, v9>>
  BY DEF Audited
<1>2. PICK new : new = [Answers!idle EXCEPT !.at = "insert", !.want = key]
  OBVIOUS
<1>3. new \in Hand /\ new.at = "insert" /\ new.want = key
  BY <1>2, IdleIs DEF Hand
<1>4. \A x \in Workers : v4'[x] = IF x = w THEN new ELSE v4[x]
  BY <1>1, <1>2 DEF AskType
<1>5. v1 \in Seq(Ask) /\ DOMAIN v1' = DOMAIN v1
  BY <1>1 DEF AskType
<1>6. \A i \in DOMAIN v1 :
         IF Waits(i, "auditor") /\ v1[i].group = key
         THEN /\ v1'[i] \in Ask /\ v1'[i].status = "expired" /\ v1'[i].source = "auditor"
              /\ v1'[i].want = v1[i].want /\ v1[i].status = "pending"
         ELSE v1'[i] = v1[i]
  <2> SUFFICES ASSUME NEW i \in DOMAIN v1
               PROVE IF Waits(i, "auditor") /\ v1[i].group = key
                     THEN /\ v1'[i] \in Ask /\ v1'[i].status = "expired" /\ v1'[i].source = "auditor"
                          /\ v1'[i].want = v1[i].want /\ v1[i].status = "pending"
                     ELSE v1'[i] = v1[i]
    OBVIOUS
  <2>1. v1[i] \in Ask
    BY <1>5
  <2>2. i \in Answers!Pending("auditor") <=> Waits(i, "auditor")
    BY DEF Answers!Pending, Waits
  <2>3. v1'[i] = IF Waits(i, "auditor") /\ v1[i].group = key
                 THEN [v1[i] EXCEPT !.status = "expired"] ELSE v1[i]
    BY <1>1, <2>2
  <2> QED BY <2>1, <2>3 DEF Waits, Ask
<1>7. AskType'
  <2>1. v1' \in Seq(Ask)
    <3>1. \A i \in DOMAIN v1 : v1'[i] \in Ask
      BY <1>5, <1>6
    <3>2. DOMAIN v1' = 1 .. Len(v1) /\ v1' = [i \in DOMAIN v1' |-> v1'[i]]
      BY <1>1, <1>5
    <3>3. v1' \in [1 .. Len(v1) -> Ask]
      BY <1>5, <3>1, <3>2
    <3> QED BY <1>5, <3>3
  <2>2. Len(v1') = Len(v1)
    BY <1>5, <2>1
  <2>3. v4' \in [Workers -> Hand]
    BY <1>1, <1>2, <1>3 DEF AskType
  <2>4. \A x \in Workers : /\ v4'[x].at \in Working => v4'[x].act \in DOMAIN v1
                           /\ v4'[x].at = "plan" => v4'[x].left # <<>>
    BY <1>3, <1>4 DEF AskType, Working
  <2>5. v8' \in BOOLEAN
    BY <1>1 DEF AskType
  <2> QED BY <1>1, <1>5, <2>1, <2>2, <2>3, <2>4, <2>5 DEF AskType
<1>8. \A x \in Workers : v4[x].at \in Working \/ v4'[x].at \in Working => v4'[x] = v4[x]
  BY <1>1, <1>3, <1>4, IdleIs DEF Working
<1>9. ASSUME NEW i \in DOMAIN v1' \ v7' PROVE ActionOk(i)'
  <2>1. v1'[i].want = v1[i].want
    BY <1>5, <1>6
  <2>2. \/ v1'[i].status = v1[i].status
        \/ v1[i].status = "pending" /\ v1'[i].status = "expired"
    BY <1>5, <1>6
  <2>3. i \in v6 => v1[i].status = "rejected"
    BY <1>1, <1>5 DEF ActionOk
  <2>4. \A x \in Workers : Works(x, i) \/ (v4'[x].at \in Working /\ v4'[x].act = i) => v4'[x] = v4[x]
    BY <1>8 DEF Works
  <2> QED BY <1>1, <1>5, <2>1, <2>2, <2>3, <2>4, ActionStays
<1>10. MoneyOk'
  <2>1. \A x \in Workers : Due(x)' = Due(x)
    BY <1>1, <1>3, <1>4, IdleIs DEF Due
  <2> QED BY <1>1, <2>1, MoneyStays
<1>11. OpenOk'
  <2> SUFFICES ASSUME ~v8' PROVE OpenOk'
    BY DEF OpenOk
  <2>1. ~v8 /\ \A x \in Workers : v4[x].at # "insert"
    BY <1>1 DEF Answers!Busy, AskType
  <2>2. \A i : Waits(i, "auditor")' => /\ Waits(i, "auditor")
                                       /\ v1'[i].group = v1[i].group /\ v1[i].group # key
    BY <1>5, <1>6 DEF Waits
  <2>3. \A i : Waits(i, "season")' => Waits(i, "season") /\ v1'[i].group = v1[i].group
    BY <1>5, <1>6 DEF Waits
  <2>4. \A x \in Workers : v4'[x].at = "plan" => v4'[x] = v4[x]
    BY <1>3, <1>4
  <2>5. \A x \in Workers : v4'[x].at = "insert" => x = w /\ v4'[x].want = key
    BY <1>3, <1>4, <2>1
  <2> QED BY <2>1, <2>2, <2>3, <2>4, <2>5 DEF OpenOk, Waits
<1> QED BY <1>7, <1>9, <1>10, <1>11

\* the auditor's own proposal
LEMMA AuditInsertKeeps == ASSUME AskInv, NEW w \in Workers, Answers!AuditInsert(w) PROVE AskInv'
<1> USE DEF AskInv
<1>1. /\ v4[w].at = "insert" /\ v4' = [v4 EXCEPT ![w] = Answers!idle]
      /\ Answers!Insert(Answers!Row("note", 0, "auditor", v4[w].want, FALSE))
      /\ UNCHANGED <<v2, v3, v6, v7, v8, v9>>
  BY DEF Answers!AuditInsert, Answers!Done, Answers!history
<1>2. v4[w] \in Hand
  BY DEF AskType
<1>3. PICK row \in Ask : /\ row.source = "auditor" /\ row.status = "pending"
                         /\ row.group = v4[w].want /\ Answers!Insert(row)
  <2>1. PICK row : row = Answers!Row("note", 0, "auditor", v4[w].want, FALSE)
    OBVIOUS
  <2>2. /\ row \in Ask /\ row.source = "auditor" /\ row.status = "pending"
        /\ row.group = v4[w].want
    BY <1>2, <2>1 DEF Answers!Row, Ask, Hand, Asks
  <2> QED BY <1>1, <2>1, <2>2
<1>4. PICK n : n = Len(v1) + 1
  OBVIOUS
<1>5. /\ v1' \in Seq(Ask) /\ v5' \in Seq(Seq(Int)) /\ Len(v5') = Len(v1')
      /\ DOMAIN v1' = DOMAIN v1 \cup {n} /\ v1'[n] = row /\ n \notin DOMAIN v1
      /\ \A i \in DOMAIN v1 : v1'[i] = v1[i]
  BY <1>3, <1>4, InsertIs
<1>6. \A x \in Workers : v4'[x] = IF x = w THEN Answers!idle ELSE v4[x]
  BY <1>1 DEF AskType
<1>7. AskType'
  <2>1. v4' \in [Workers -> Hand]
    BY <1>1, IdleIs DEF AskType
  <2>2. \A x \in Workers : /\ v4'[x].at \in Working => v4'[x].act \in DOMAIN v1'
                           /\ v4'[x].at = "plan" => v4'[x].left # <<>>
    BY <1>5, <1>6, IdleIs DEF AskType, Working
  <2> QED BY <1>1, <1>5, <2>1, <2>2 DEF AskType
<1>8. \A x \in Workers : v4[x].at \in Working \/ v4'[x].at \in Working => v4'[x] = v4[x]
  BY <1>1, <1>6, IdleIs DEF Working
<1>9. \A i \in DOMAIN v1' \ v7' : ActionOk(i)'
  BY <1>1, <1>3, <1>8, InsertKeeps
<1>10. MoneyOk'
  <2>1. \A x \in Workers : Due(x)' = Due(x)
    BY <1>1, <1>6, IdleIs DEF Due
  <2> QED BY <1>1, <2>1, MoneyStays
<1>11. OpenOk'
  <2> SUFFICES ASSUME ~v8' PROVE OpenOk'
    BY DEF OpenOk
  <2>1. /\ ~v8 /\ \A x \in Workers : v4[x].at = "insert" => x = w
        /\ \A i : Waits(i, "auditor") => v1[i].group # row.group
    BY <1>1, <1>3 DEF OpenOk
  <2>2. \A i : Waits(i, "auditor")' => \/ i = n
                                       \/ Waits(i, "auditor") /\ v1'[i].group = v1[i].group
    BY <1>5 DEF Waits
  <2>3. \A i : Waits(i, "season")' => Waits(i, "season") /\ v1'[i].group = v1[i].group
    BY <1>3, <1>5 DEF Waits
  <2>4. \A x \in Workers : v4'[x].at = "plan" => v4'[x] = v4[x]
    BY <1>6, IdleIs
  <2>5. \A x \in Workers : v4'[x].at # "insert"
    BY <1>6, <2>1, IdleIs
  <2>6. (\A i, j : Waits(i, "auditor") /\ Waits(j, "auditor") /\ v1[i].group = v1[j].group => i = j)'
    BY <1>3, <1>5, <2>1, <2>2 DEF OpenOk, Waits
  <2> QED BY <2>1, <2>3, <2>4, <2>5, <2>6 DEF OpenOk, Waits
<1> QED BY <1>7, <1>9, <1>10, <1>11

\* A season's plan, when nothing of a season is open ...
LEMMA PlanningKeeps == ASSUME AskInv, NEW w \in Workers, Planning(w) PROVE AskInv'
<1> USE DEF AskInv
<1>1. /\ v4[w] = Answers!idle /\ Answers!Pending("season") = {}
      /\ v8' = (v8 \/ Answers!Busy({"plan"}) /= {})
      /\ UNCHANGED <<v1, v2, v3, v5, v6, v7, v9>>
  BY DEF Planning
<1>2. PICK new : new = [Answers!idle EXCEPT !.at = "plan", !.want = Len(v1) + 1, !.left = Season]
  OBVIOUS
<1>3. new \in Hand /\ new.at = "plan" /\ new.left # <<>>
  <2>1. Season \in Seq(Asks) /\ Season # <<>>
    BY DEF Season, Asks
  <2>2. Len(v1) + 1 \in Int
    BY DEF AskType
  <2> QED BY <1>2, <2>1, <2>2, IdleIs DEF Hand
<1>4. \A x \in Workers : v4'[x] = IF x = w THEN new ELSE v4[x]
  BY <1>2 DEF Planning, AskType
<1>5. AskType'
  <2>1. v4' \in [Workers -> Hand]
    BY <1>2, <1>3 DEF Planning, AskType
  <2>2. v8' \in BOOLEAN
    BY <1>1 DEF AskType
  <2>3. \A x \in Workers : /\ v4'[x].at \in Working => v4'[x].act \in DOMAIN v1
                           /\ v4'[x].at = "plan" => v4'[x].left # <<>>
    BY <1>3, <1>4 DEF AskType, Working
  <2> QED BY <1>1, <2>1, <2>2, <2>3 DEF AskType
<1>6. \A x \in Workers : v4[x].at \in Working \/ v4'[x].at \in Working => v4'[x] = v4[x]
  BY <1>1, <1>3, <1>4, IdleIs DEF Working
<1>7. ASSUME NEW i \in DOMAIN v1' \ v7' PROVE ActionOk(i)'
  <2>1. \A x \in Workers : Works(x, i) \/ (v4'[x].at \in Working /\ v4'[x].act = i) => v4'[x] = v4[x]
    BY <1>6 DEF Works
  <2> QED BY <1>1, <2>1, ActionStays
<1>8. MoneyOk'
  <2>1. \A x \in Workers : Due(x)' = Due(x)
    BY <1>1, <1>3, <1>4, IdleIs DEF Due
  <2> QED BY <1>1, <2>1, MoneyStays
<1>9. OpenOk'
  <2> SUFFICES ASSUME ~v8' PROVE OpenOk'
    BY DEF OpenOk
  <2>1. ~v8 /\ \A x \in Workers : v4[x].at # "plan"
    BY <1>1 DEF Answers!Busy, AskType
  <2>2. \A i : ~Waits(i, "season")
    BY <1>1 DEF Answers!Pending, Waits
  <2>3. \A x \in Workers : v4'[x].at = "insert" => v4'[x] = v4[x]
    BY <1>3, <1>4
  <2>4. \A x \in Workers : v4'[x].at = "plan" => x = w
    BY <1>3, <1>4, <2>1
  <2> QED BY <1>1, <2>1, <2>2, <2>3, <2>4 DEF OpenOk, Waits
<1> QED BY <1>5, <1>7, <1>8, <1>9

\* ... goes in row by row.
LEMMA PrepareInsertKeeps == ASSUME AskInv, NEW w \in Workers, Answers!PrepareInsert(w) PROVE AskInv'
<1> USE DEF AskInv
<1>1. PICK old \in Hand : old = v4[w]
  BY DEF AskType
<1>2. /\ old.at = "plan"
      /\ Answers!Insert(Answers!Row(Head(old.left), 0, "season", old.want, TRUE))
      /\ v4' = IF Tail(old.left) = <<>> THEN [v4 EXCEPT ![w] = Answers!idle]
               ELSE [v4 EXCEPT ![w].left = Tail(old.left)]
      /\ UNCHANGED <<v2, v3, v6, v7, v8, v9>>
  BY <1>1 DEF Answers!PrepareInsert, Answers!Done, Answers!history
<1>0. Head(old.left) \in Asks /\ Tail(old.left) \in Seq(Asks)
  <2>1. old.left \in Seq(Asks) /\ old.left # <<>>
    BY <1>1, <1>2 DEF Hand, AskType
  <2> QED BY <2>1
<1>3. PICK row \in Ask : /\ row.source = "season" /\ row.status = "pending"
                         /\ row.group = old.want /\ Answers!Insert(row)
  <2>1. PICK row : row = Answers!Row(Head(old.left), 0, "season", old.want, TRUE)
    OBVIOUS
  <2>2. /\ row \in Ask /\ row.source = "season" /\ row.status = "pending"
        /\ row.group = old.want
    BY <1>0, <2>1 DEF Answers!Row, Ask, Hand
  <2> QED BY <1>2, <2>1, <2>2
<1>4. PICK n : n = Len(v1) + 1
  OBVIOUS
<1>5. /\ v1' \in Seq(Ask) /\ v5' \in Seq(Seq(Int)) /\ Len(v5') = Len(v1')
      /\ DOMAIN v1' = DOMAIN v1 \cup {n} /\ v1'[n] = row /\ n \notin DOMAIN v1
      /\ \A i \in DOMAIN v1 : v1'[i] = v1[i]
  BY <1>3, <1>4, InsertIs
<1>6. PICK new \in Hand :
         /\ v4' = [v4 EXCEPT ![w] = new]
         /\ \/ new.at = "idle"
            \/ new.at = "plan" /\ new.want = old.want /\ new.left # <<>>
  <2>1. CASE Tail(old.left) = <<>>
    BY <1>2, <2>1, IdleIs
  <2>2. CASE Tail(old.left) # <<>>
    <3>1. PICK new : new = [old EXCEPT !.left = Tail(old.left)]
      OBVIOUS
    <3>2. new \in Hand /\ new.at = "plan" /\ new.want = old.want /\ new.left = Tail(old.left)
      BY <1>0, <1>2, <3>1 DEF Hand
    <3>3. v4' = [v4 EXCEPT ![w] = new]
      BY <1>1, <1>2, <2>2, <3>1
    <3> QED BY <2>2, <3>2, <3>3
  <2> QED BY <2>1, <2>2
<1>7. \A x \in Workers : v4'[x] = IF x = w THEN new ELSE v4[x]
  BY <1>6 DEF AskType
<1>8. AskType'
  <2>1. v4' \in [Workers -> Hand]
    BY <1>6 DEF AskType
  <2>2. \A x \in Workers : /\ v4'[x].at \in Working => v4'[x].act \in DOMAIN v1'
                           /\ v4'[x].at = "plan" => v4'[x].left # <<>>
    BY <1>5, <1>6, <1>7 DEF AskType, Working
  <2> QED BY <1>2, <1>5, <2>1, <2>2 DEF AskType
<1>9. \A x \in Workers : v4[x].at \in Working \/ v4'[x].at \in Working => v4'[x] = v4[x]
  BY <1>1, <1>2, <1>6, <1>7 DEF Working
<1>10. \A i \in DOMAIN v1' \ v7' : ActionOk(i)'
  BY <1>2, <1>3, <1>9, InsertKeeps
<1>11. MoneyOk'
  <2>1. \A x \in Workers : Due(x)' = Due(x)
    BY <1>1, <1>2, <1>6, <1>7 DEF Due
  <2> QED BY <1>2, <2>1, MoneyStays
<1>12. OpenOk'
  <2> SUFFICES ASSUME ~v8' PROVE OpenOk'
    BY DEF OpenOk
  <2>1. /\ ~v8 /\ \A x \in Workers : v4[x].at = "plan" => x = w
        /\ \A i : Waits(i, "season") => v1[i].group = old.want
    BY <1>1, <1>2 DEF OpenOk
  <2>2. \A i : Waits(i, "auditor")' => Waits(i, "auditor") /\ v1'[i].group = v1[i].group
    BY <1>3, <1>5 DEF Waits
  <2>3. \A i : Waits(i, "season")' => v1'[i].group = old.want
    BY <1>3, <1>5, <2>1 DEF Waits
  <2>4. \A x \in Workers : v4'[x].at = "plan" => x = w /\ v4'[x].want = old.want
    BY <1>6, <1>7, <2>1
  <2>5. \A x \in Workers : v4'[x].at = "insert" => v4'[x] = v4[x]
    BY <1>6, <1>7
  <2> QED BY <2>1, <2>2, <2>3, <2>4, <2>5 DEF OpenOk, Waits
<1> QED BY <1>8, <1>10, <1>11, <1>12

\* A request that takes an open action into its hands.
LEMMA TakeKeeps ==
    ASSUME AskInv, NEW w \in Workers, NEW i \in DOMAIN v1, v4[w] = Answers!idle,
           v1[i].status = "pending", Answers!Lapping(i),
           NEW new \in Hand, new.at \in {"expire", "execute", "edit"}, new.act = i,
           new.at = "execute" => new.want = v1[i].want,
           v4' = [v4 EXCEPT ![w] = new], UNCHANGED <<v1, v2, v3, v5, v6, v8, v9>>
    PROVE  AskInv'
<1> USE DEF AskInv
<1>1. \A x \in Workers : v4'[x] = IF x = w THEN new ELSE v4[x]
  BY DEF AskType
<1>2. AskType'
  <2>1. \A x \in Workers : /\ v4'[x].at \in Working => v4'[x].act \in DOMAIN v1
                           /\ v4'[x].at = "plan" => v4'[x].left # <<>>
    BY <1>1 DEF AskType, Working
  <2> QED BY <2>1 DEF AskType
<1>3. ASSUME NEW j \in DOMAIN v1' \ v7' PROVE ActionOk(j)'
  <2>1. j \in DOMAIN v1 \ v7 /\ (j = i => \A x \in Workers : ~Works(x, i))
    BY <1>3 DEF Answers!Lapping, Answers!WorkedOn, Answers!Busy, Works, Working
  <2>2. CASE j # i
    <3>1. \A x \in Workers : Works(x, j) \/ (v4'[x].at \in Working /\ v4'[x].act = j)
                                => v4'[x] = v4[x]
      BY <1>1, <2>2, IdleIs DEF Works, Working
    <3> QED BY <2>1, <3>1, ActionStays
  <2>3. CASE j = i
    <3>1. ActionOk(i) /\ v5[i] = <<>> /\ i \notin v6
      BY <2>1, <2>3 DEF ActionOk
    <3>2. \A x \in Workers : Works(x, i)' => x = w
      BY <1>1, <2>1, <2>3 DEF Works
    <3>3. Works(w, i)'
      BY <1>1 DEF Works, Working
    <3>4. \A x \in Workers : Works(x, i)' => v4'[x] = new
      BY <1>1, <3>2
    <3> HIDE DEF Works
    <3> QED BY <2>3, <3>1, <3>2, <3>3, <3>4 DEF ActionOk
  <2> QED BY <2>2, <2>3
<1>4. MoneyOk'
  <2>1. \A x \in Workers : Due(x)' = Due(x)
    BY <1>1, IdleIs DEF Due
  <2> QED BY <2>1, MoneyStays
<1>5. OpenOk'
  <2>1. \A x \in Workers : v4'[x].at \in {"insert", "plan"} => v4'[x] = v4[x]
    BY <1>1
  <2> QED BY <2>1, OpenStays DEF Waits
<1> QED BY <1>2, <1>3, <1>4, <1>5

LEMMA ApproveReadKeeps ==
    ASSUME AskInv, NEW w \in Workers, NEW i \in DOMAIN v1, NEW late \in BOOLEAN,
           NEW pin \in BOOLEAN, Answers!ApproveRead(w, i, late, pin)
    PROVE  AskInv'
<1>1. v1[i] \in Ask
  BY DEF AskInv, AskType
<1>2. PICK new : new = [Answers!idle EXCEPT !.at = IF late THEN "expire" ELSE "execute",
                                            !.act = i, !.kind = v1[i].kind, !.want = v1[i].want]
  OBVIOUS
<1>3. i \in Int
  BY DEF AskInv, AskType
<1>4. /\ new \in Hand /\ new.at \in {"expire", "execute", "edit"} /\ new.act = i
      /\ new.at = "execute" => new.want = v1[i].want
  <2>1. v1[i].kind \in Asks /\ v1[i].want \in Int
    BY <1>1 DEF Ask
  <2> QED BY <1>2, <1>3, <2>1, IdleIs DEF Hand, Working
<1> QED BY <1>2, <1>4, TakeKeeps DEF Answers!ApproveRead, Answers!Open, Answers!effects

LEMMA EditReadKeeps ==
    ASSUME AskInv, NEW w \in Workers, NEW i \in DOMAIN v1, NEW want \in Int,
           Answers!EditRead(w, i, want)
    PROVE  AskInv'
<1>1. i \in Int
  BY DEF AskInv, AskType
<1>2. PICK new : new = [Answers!idle EXCEPT !.at = "edit", !.act = i, !.want = want]
  OBVIOUS
<1>3. new \in Hand /\ new.at = "edit" /\ new.act = i
  BY <1>1, <1>2, IdleIs DEF Hand, Working
<1> QED BY <1>2, <1>3, TakeKeeps DEF Answers!EditRead, Answers!Open, Answers!effects

\* A row whose status is written.
LEMMA MarkIs ==
    ASSUME AskType, NEW i \in DOMAIN v1, NEW s \in {"pending", "executed", "rejected", "expired"},
           Answers!Mark(i, s)
    PROVE  /\ v1' \in Seq(Ask) /\ Len(v1') = Len(v1) /\ DOMAIN v1' = DOMAIN v1
           /\ \A j \in DOMAIN v1 : j # i => v1'[j] = v1[j]
           /\ v1'[i].status = s /\ v1'[i].want = v1[i].want
           /\ v1'[i].group = v1[i].group /\ v1'[i].source = v1[i].source
<1>1. v1 \in Seq(Ask) /\ v1[i] \in Ask
  BY DEF AskType
<1>2. PICK row : row = [v1[i] EXCEPT !.status = s]
  OBVIOUS
<1>3. /\ row \in Ask /\ row.status = s /\ row.want = v1[i].want
      /\ row.group = v1[i].group /\ row.source = v1[i].source
  BY <1>1, <1>2 DEF Ask
<1>4. v1' = [v1 EXCEPT ![i] = row]
  BY <1>2 DEF Answers!Mark
<1> QED BY <1>1, <1>3, <1>4

\* A request that lets its action go, after writing its status.
LEMMA LetGoKeeps ==
    ASSUME AskInv, NEW w \in Workers, v4[w].at \in Working,
           NEW i, i = v4[w].act, NEW s \in {"executed", "expired"}, Answers!Mark(i, s),
           IF s = "executed" THEN v4[w].at = "mark" ELSE v4[w].at = "expire",
           v4' = [v4 EXCEPT ![w] = Answers!idle], UNCHANGED <<v2, v3, v5, v6, v7, v8, v9>>
    PROVE  AskInv'
<1> USE DEF AskInv
<1>0. i \in DOMAIN v1
  BY DEF AskType
<1>1. /\ v1' \in Seq(Ask) /\ Len(v1') = Len(v1) /\ DOMAIN v1' = DOMAIN v1
      /\ \A j \in DOMAIN v1 : j # i => v1'[j] = v1[j]
      /\ v1'[i].status = s /\ v1'[i].want = v1[i].want
      /\ v1'[i].group = v1[i].group /\ v1'[i].source = v1[i].source
  BY <1>0, MarkIs
<1>2. \A x \in Workers : v4'[x] = IF x = w THEN Answers!idle ELSE v4[x]
  BY DEF AskType
<1>3. AskType'
  <2>1. \A x \in Workers : /\ v4'[x].at \in Working => v4'[x].act \in DOMAIN v1
                           /\ v4'[x].at = "plan" => v4'[x].left # <<>>
    BY <1>2, IdleIs DEF AskType, Working
  <2>2. v4' \in [Workers -> Hand]
    BY IdleIs DEF AskType
  <2> QED BY <1>1, <2>1, <2>2 DEF AskType
<1>4. ASSUME NEW j \in DOMAIN v1' \ v7' PROVE ActionOk(j)'
  <2>1. j \in DOMAIN v1 \ v7 /\ ActionOk(j)
    BY <1>1
  <2>2. CASE j # i
    <3>1. \A x \in Workers : Works(x, j) \/ (v4'[x].at \in Working /\ v4'[x].act = j)
                                => v4'[x] = v4[x]
      BY <1>2, <2>2, IdleIs DEF Works, Working
    <3> QED BY <1>1, <2>1, <2>2, <3>1, ActionStays
  <2>3. CASE j = i
    <3>1. Works(w, i)
      BY DEF Works
    <3>2. /\ \A x \in Workers : Works(x, i) => x = w
          /\ i \notin v6
          /\ v5[i] = IF s = "executed" THEN <<v1[i].want>> ELSE <<>>
      BY <2>1, <2>3, <3>1 DEF ActionOk
    <3>3. \A x \in Workers : ~Works(x, i)'
      BY <1>2, <3>2, IdleIs DEF Works, Working
    <3> HIDE DEF Works
    <3> QED BY <1>1, <2>3, <3>2, <3>3 DEF ActionOk
  <2> QED BY <2>2, <2>3
<1>5. MoneyOk'
  <2>1. \A x \in Workers : Due(x)' = Due(x)
    BY <1>2, IdleIs DEF Due
  <2> QED BY <2>1, MoneyStays
<1>6. OpenOk'
  <2>1. \A x \in Workers : v4'[x].at \in {"insert", "plan"} => v4'[x] = v4[x]
    BY <1>2, IdleIs
  <2>2. \A j : \A g \in {"auditor", "season"} :
            Waits(j, g)' => Waits(j, g) /\ v1'[j].group = v1[j].group
    BY <1>1 DEF Waits
  <2> QED BY <2>1, <2>2, OpenStays
<1> QED BY <1>3, <1>4, <1>5, <1>6

LEMMA ApproveExpireKeeps == ASSUME AskInv, NEW w \in Workers, Answers!ApproveExpire(w) PROVE AskInv'
BY LetGoKeeps DEF Answers!ApproveExpire, Answers!Done, Answers!effects, Answers!history, Working

LEMMA ApproveMarkKeeps == ASSUME AskInv, NEW w \in Workers, Answers!ApproveMark(w) PROVE AskInv'
BY LetGoKeeps DEF Answers!ApproveMark, Answers!Done, Answers!effects, Answers!history, Working

\* A row of carried grows by what the request asks for.
LEMMA CarriedIs ==
    ASSUME AskType, NEW i \in DOMAIN v1, NEW want \in Int,
           v5' = [v5 EXCEPT ![i] = Append(@, want)]
    PROVE  /\ v5' \in Seq(Seq(Int)) /\ Len(v5') = Len(v5)
           /\ v5'[i] = Append(v5[i], want)
           /\ \A j \in DOMAIN v1 : j # i => v5'[j] = v5[j]
<1>1. v5 \in Seq(Seq(Int)) /\ DOMAIN v5 = DOMAIN v1
  BY DEF AskType
<1>2. PICK new \in Seq(Int) : new = Append(v5[i], want)
  <2>1. PICK s \in Seq(Int) : s = v5[i]
    BY <1>1
  <2>2. Append(s, want) \in Seq(Int)
    OBVIOUS
  <2> QED BY <2>1, <2>2
<1>3. v5' = [v5 EXCEPT ![i] = new]
  BY <1>2
<1> QED BY <1>1, <1>2, <1>3

\* The action is carried out.
LEMMA ExecuteKeeps == ASSUME AskInv, NEW w \in Workers, Answers!ExecutePendingAction(w) PROVE AskInv'
<1> USE DEF AskInv
<1>1. PICK old \in Hand, i \in DOMAIN v1 : old = v4[w] /\ i = old.act /\ old.at = "execute"
  BY DEF AskType, Answers!ExecutePendingAction, Working
<1>2. PICK place \in {"drawer", "mark"} : place = IF old.kind = "expense" THEN "drawer" ELSE "mark"
  OBVIOUS
<1>3. /\ v2' = IF old.kind = "expense" THEN v2 + old.want ELSE v2
      /\ v5' = [v5 EXCEPT ![i] = Append(@, old.want)]
      /\ v4' = [v4 EXCEPT ![w].at = place]
      /\ UNCHANGED <<v1, v3, v6, v7, v8, v9>>
  BY <1>1, <1>2 DEF Answers!ExecutePendingAction, Answers!history
<1>4. PICK new : new = [old EXCEPT !.at = place]
  OBVIOUS
<1>5. new \in Hand /\ new.at = place /\ new.act = i /\ new.want = old.want
  BY <1>1, <1>2, <1>4 DEF Hand, Working
<1>6. v4' = [v4 EXCEPT ![w] = new] /\ \A x \in Workers : v4'[x] = IF x = w THEN new ELSE v4[x]
  BY <1>1, <1>3, <1>4 DEF AskType
<1>7. old.want \in Int
  BY DEF Hand
<1>8. /\ v5' \in Seq(Seq(Int)) /\ Len(v5') = Len(v5) /\ v5'[i] = Append(v5[i], old.want)
      /\ \A j \in DOMAIN v1 : j # i => v5'[j] = v5[j]
  BY <1>3, <1>7, CarriedIs
<1>9. AskType'
  <2>1. v4' \in [Workers -> Hand]
    BY <1>5, <1>6 DEF AskType
  <2>2. \A x \in Workers : /\ v4'[x].at \in Working => v4'[x].act \in DOMAIN v1
                           /\ v4'[x].at = "plan" => v4'[x].left # <<>>
    BY <1>2, <1>5, <1>6 DEF AskType
  <2>3. v2' \in Int
    BY <1>3, <1>7 DEF AskType
  <2> QED BY <1>3, <1>8, <2>1, <2>2, <2>3 DEF AskType
<1>10. ASSUME NEW j \in DOMAIN v1' \ v7' PROVE ActionOk(j)'
  <2>1. j \in DOMAIN v1 \ v7 /\ ActionOk(j)
    BY <1>3
  <2>2. CASE j # i
    <3>1. \A x \in Workers : Works(x, j) \/ (v4'[x].at \in Working /\ v4'[x].act = j)
                                => v4'[x] = v4[x]
      BY <1>1, <1>5, <1>6, <2>2 DEF Works
    <3> QED BY <1>3, <1>8, <2>1, <2>2, <3>1, ActionStays
  <2>3. CASE j = i
    <3>1. Works(w, i)
      BY <1>1 DEF Works, Working
    <3>2. /\ \A x \in Workers : Works(x, i) => x = w
          /\ i \notin v6 /\ v1[i].status # "executed"
          /\ v5[i] = <<>> /\ old.want = v1[i].want
      BY <1>1, <2>1, <2>3, <3>1 DEF ActionOk
    <3>3. v5'[i] = <<v1[i].want>>
      BY <1>8, <3>2
    <3>4. \A x \in Workers : Works(x, i)' => x = w
      BY <1>6, <3>2 DEF Works
    <3>5. Works(w, i)'
      BY <1>2, <1>5, <1>6 DEF Works, Working
    <3>6. \A x \in Workers : Works(x, i)' => v4'[x] = new
      BY <1>6, <3>4
    <3> HIDE DEF Works
    <3> QED BY <1>2, <1>3, <1>5, <2>3, <3>2, <3>3, <3>4, <3>5, <3>6 DEF ActionOk
  <2> QED BY <2>2, <2>3
<1>11. MoneyOk'
  <2>0. /\ \A x \in Workers : Due(x) \in Int
        /\ \A x \in Workers : x # w => Due(x)' = Due(x)
        /\ Due(w) = 0 /\ Due(w)' = IF place = "drawer" THEN old.want ELSE 0
    <3>1. \A x \in Workers : v4[x].want \in Int
      BY DEF AskType, Hand
    <3> QED BY <1>1, <1>5, <1>6, <3>1 DEF Due
  <2>1. PICK F, G : F = [x \in Workers |-> Due(x)] /\ G = [x \in Workers |-> Due(x)']
    OBVIOUS
  <2>2. Owed = SumFunctionOnSet(F, Workers) /\ Owed' = SumFunctionOnSet(G, Workers)
    BY <2>1 DEF Owed
  <2>3. /\ G[w] \in Int /\ \A x \in Workers : F[x] \in Int
        /\ \A x \in Workers : x # w => G[x] = F[x]
        /\ F[w] = 0 /\ G[w] = IF place = "drawer" THEN old.want ELSE 0
    BY <1>7, <2>0, <2>1
  <2>4. SumFunctionOnSet(G, Workers) = SumFunctionOnSet(F, Workers) - F[w] + G[w]
    BY <2>3, SumOneChanged, PartsAssumption
  <2>5. Owed \in Int
    BY <2>2, <2>3, SumType, PartsAssumption
  <2>6. Owed' - Owed = v2' - v2
    BY <1>2, <1>3, <1>7, <2>2, <2>3, <2>4, <2>5 DEF AskType
  <2>7. Owed' \in Int
    BY <1>7, <2>2, <2>3, <2>4, <2>5
  <2> QED BY <1>3, <1>9, <2>5, <2>6, <2>7 DEF MoneyOk, AskType
<1>12. OpenOk'
  <2>1. \A x \in Workers : v4'[x].at \in {"insert", "plan"} => v4'[x] = v4[x]
    BY <1>2, <1>5, <1>6
  <2> QED BY <1>3, <2>1, OpenStays DEF Waits
<1> QED BY <1>9, <1>10, <1>11, <1>12

\* An expense's second row.
LEMMA ExpenseDrawerKeeps == ASSUME AskInv, NEW w \in Workers, Answers!ExpenseDrawer(w) PROVE AskInv'
<1> USE DEF AskInv
<1>1. PICK old \in Hand, i \in DOMAIN v1 : old = v4[w] /\ i = old.act /\ old.at = "drawer"
  BY DEF AskType, Answers!ExpenseDrawer, Working
<1>3. /\ v3' = v3 - old.want
      /\ v4' = [v4 EXCEPT ![w].at = "mark"]
      /\ UNCHANGED <<v1, v2, v5, v6, v7, v8, v9>>
  BY <1>1 DEF Answers!ExpenseDrawer, Answers!history
<1>4. PICK new : new = [old EXCEPT !.at = "mark"]
  OBVIOUS
<1>5. new \in Hand /\ new.at = "mark" /\ new.act = i /\ new.want = old.want
  BY <1>1, <1>4 DEF Hand, Working
<1>6. v4' = [v4 EXCEPT ![w] = new] /\ \A x \in Workers : v4'[x] = IF x = w THEN new ELSE v4[x]
  BY <1>1, <1>3, <1>4 DEF AskType
<1>7. old.want \in Int
  BY DEF Hand
<1>9. AskType'
  <2>1. v4' \in [Workers -> Hand]
    BY <1>5, <1>6 DEF AskType
  <2>2. \A x \in Workers : /\ v4'[x].at \in Working => v4'[x].act \in DOMAIN v1
                           /\ v4'[x].at = "plan" => v4'[x].left # <<>>
    BY <1>5, <1>6 DEF AskType
  <2>3. v3' \in Int
    BY <1>3, <1>7 DEF AskType
  <2> QED BY <1>3, <2>1, <2>2, <2>3 DEF AskType
<1>10. ASSUME NEW j \in DOMAIN v1' \ v7' PROVE ActionOk(j)'
  <2>1. j \in DOMAIN v1 \ v7 /\ ActionOk(j)
    BY <1>3
  <2>2. CASE j # i
    <3>1. \A x \in Workers : Works(x, j) \/ (v4'[x].at \in Working /\ v4'[x].act = j)
                                => v4'[x] = v4[x]
      BY <1>1, <1>5, <1>6, <2>2 DEF Works
    <3> QED BY <1>3, <2>1, <2>2, <3>1, ActionStays
  <2>3. CASE j = i
    <3>1. Works(w, i)
      BY <1>1 DEF Works, Working
    <3>2. /\ \A x \in Workers : Works(x, i) => x = w
          /\ i \notin v6 /\ v1[i].status # "executed"
          /\ v5[i] = <<v1[i].want>> /\ old.want = v1[i].want
      BY <1>1, <2>1, <2>3, <3>1 DEF ActionOk
    <3>4. \A x \in Workers : Works(x, i)' => x = w
      BY <1>6, <3>2 DEF Works
    <3>5. Works(w, i)'
      BY <1>5, <1>6 DEF Works, Working
    <3>6. \A x \in Workers : Works(x, i)' => v4'[x] = new
      BY <1>6, <3>4
    <3> HIDE DEF Works
    <3> QED BY <1>3, <1>5, <2>3, <3>2, <3>4, <3>5, <3>6 DEF ActionOk
  <2> QED BY <2>2, <2>3
<1>11. MoneyOk'
  <2>0. /\ \A x \in Workers : Due(x) \in Int
        /\ \A x \in Workers : x # w => Due(x)' = Due(x)
        /\ Due(w) = old.want /\ Due(w)' = 0
    <3>1. \A x \in Workers : v4[x].want \in Int
      BY DEF AskType, Hand
    <3> QED BY <1>1, <1>5, <1>6, <3>1 DEF Due
  <2>1. PICK F, G : F = [x \in Workers |-> Due(x)] /\ G = [x \in Workers |-> Due(x)']
    OBVIOUS
  <2>2. Owed = SumFunctionOnSet(F, Workers) /\ Owed' = SumFunctionOnSet(G, Workers)
    BY <2>1 DEF Owed
  <2>3. /\ G[w] \in Int /\ \A x \in Workers : F[x] \in Int
        /\ \A x \in Workers : x # w => G[x] = F[x]
        /\ F[w] = old.want /\ G[w] = 0
    BY <1>7, <2>0, <2>1
  <2>4. SumFunctionOnSet(G, Workers) = SumFunctionOnSet(F, Workers) - F[w] + G[w]
    BY <2>3, SumOneChanged, PartsAssumption
  <2>5. Owed \in Int
    BY <2>2, <2>3, SumType, PartsAssumption
  <2>6. Owed' = Owed - old.want
    BY <1>7, <2>2, <2>3, <2>4, <2>5
  <2> QED BY <1>3, <1>7, <2>5, <2>6 DEF MoneyOk, AskType
<1>12. OpenOk'
  <2>1. \A x \in Workers : v4'[x].at \in {"insert", "plan"} => v4'[x] = v4[x]
    BY <1>5, <1>6
  <2> QED BY <1>3, <2>1, OpenStays DEF Waits
<1> QED BY <1>9, <1>10, <1>11, <1>12

\* The new payload of an action that is in nobody else's hands.
LEMMA EditWriteKeeps == ASSUME AskInv, NEW w \in Workers, Answers!EditWrite(w) PROVE AskInv'
<1> USE DEF AskInv
<1>1. PICK old \in Hand, i \in DOMAIN v1 : old = v4[w] /\ i = old.act /\ old.at = "edit"
  BY DEF AskType, Answers!EditWrite, Working
<1>2. /\ v1' = [v1 EXCEPT ![i].want = old.want]
      /\ v4' = [v4 EXCEPT ![w] = Answers!idle]
      /\ UNCHANGED <<v2, v3, v5, v6, v7, v8, v9>>
  BY <1>1 DEF Answers!EditWrite, Answers!Done, Answers!effects, Answers!history
<1>3. PICK row : row = [v1[i] EXCEPT !.want = old.want]
  OBVIOUS
<1>4. /\ row \in Ask /\ row.status = v1[i].status /\ row.group = v1[i].group
      /\ row.source = v1[i].source
  <2>1. v1[i] \in Ask /\ old.want \in Int
    BY DEF AskType, Hand
  <2> QED BY <1>3, <2>1 DEF Ask
<1>5. v1' = [v1 EXCEPT ![i] = row]
  BY <1>2, <1>3
<1>6. /\ v1' \in Seq(Ask) /\ Len(v1') = Len(v1) /\ DOMAIN v1' = DOMAIN v1 /\ v1'[i] = row
      /\ \A j \in DOMAIN v1 : j # i => v1'[j] = v1[j]
  BY <1>4, <1>5 DEF AskType
<1>7. \A x \in Workers : v4'[x] = IF x = w THEN Answers!idle ELSE v4[x]
  BY <1>2 DEF AskType
<1>8. AskType'
  <2>1. \A x \in Workers : /\ v4'[x].at \in Working => v4'[x].act \in DOMAIN v1
                           /\ v4'[x].at = "plan" => v4'[x].left # <<>>
    BY <1>7, IdleIs DEF AskType, Working
  <2>2. v4' \in [Workers -> Hand]
    BY <1>2, IdleIs DEF AskType
  <2> QED BY <1>2, <1>6, <2>1, <2>2 DEF AskType
<1>9. ASSUME NEW j \in DOMAIN v1' \ v7' PROVE ActionOk(j)'
  <2>1. j \in DOMAIN v1 \ v7 /\ ActionOk(j)
    BY <1>2, <1>6
  <2>2. CASE j # i
    <3>1. \A x \in Workers : Works(x, j) \/ (v4'[x].at \in Working /\ v4'[x].act = j)
                                => v4'[x] = v4[x]
      BY <1>1, <1>7, <2>2, IdleIs DEF Works, Working
    <3> QED BY <1>2, <1>6, <2>1, <2>2, <3>1, ActionStays
  <2>3. CASE j = i
    <3>1. Works(w, i)
      BY <1>1 DEF Works, Working
    <3>2. /\ \A x \in Workers : Works(x, i) => x = w
          /\ i \notin v6 /\ v5[i] = <<>> /\ v1[i].status # "executed"
      BY <1>1, <2>1, <2>3, <3>1 DEF ActionOk
    <3>3. \A x \in Workers : ~Works(x, i)'
      BY <1>7, <3>2, IdleIs DEF Works, Working
    <3> HIDE DEF Works
    <3> QED BY <1>2, <1>4, <1>6, <2>3, <3>2, <3>3 DEF ActionOk
  <2> QED BY <2>2, <2>3
<1>10. MoneyOk'
  <2>1. \A x \in Workers : Due(x)' = Due(x)
    BY <1>1, <1>7, IdleIs DEF Due
  <2> QED BY <1>2, <2>1, MoneyStays
<1>11. OpenOk'
  <2>1. \A x \in Workers : v4'[x].at \in {"insert", "plan"} => v4'[x] = v4[x]
    BY <1>7, IdleIs
  <2>2. \A j : \A g \in {"auditor", "season"} :
            Waits(j, g)' => Waits(j, g) /\ v1'[j].group = v1[j].group
    BY <1>4, <1>6 DEF Waits
  <2> QED BY <1>2, <2>1, <2>2, OpenStays
<1> QED BY <1>8, <1>9, <1>10, <1>11

\* A rejection is one statement.
LEMMA RejectKeeps ==
    ASSUME AskInv, NEW i \in DOMAIN v1, Answers!RejectPendingAction(i)
    PROVE  AskInv'
<1> USE DEF AskInv
<1>1. /\ v1[i].status = "pending" /\ Answers!Mark(i, "rejected")
      /\ v6' = v6 \cup {i} /\ Answers!Lapping(i)
      /\ UNCHANGED <<v2, v3, v4, v5, v8, v9>>
  BY DEF Answers!RejectPendingAction, Answers!Open, Answers!effects
<1>2. /\ v1' \in Seq(Ask) /\ Len(v1') = Len(v1) /\ DOMAIN v1' = DOMAIN v1
      /\ \A j \in DOMAIN v1 : j # i => v1'[j] = v1[j]
      /\ v1'[i].status = "rejected" /\ v1'[i].want = v1[i].want
      /\ v1'[i].group = v1[i].group /\ v1'[i].source = v1[i].source
  BY <1>1, MarkIs
<1>3. AskType'
  BY <1>1, <1>2 DEF AskType
<1>4. ASSUME NEW j \in DOMAIN v1' \ v7' PROVE ActionOk(j)'
  <2>1. j \in DOMAIN v1 \ v7 /\ ActionOk(j) /\ (j = i => \A x \in Workers : ~Works(x, i))
    BY <1>1, <1>2, <1>4 DEF Answers!Lapping, Answers!WorkedOn, Answers!Busy, Works, Working
  <2>2. CASE j # i
    BY <1>1, <1>2, <2>1, <2>2, ActionStays DEF Works
  <2>3. CASE j = i
    <3>1. v5[i] = <<>>
      BY <1>1, <2>1, <2>3 DEF ActionOk
    <3>2. \A x \in Workers : ~Works(x, i)'
      BY <1>1, <2>1, <2>3 DEF Works
    <3> HIDE DEF Works
    <3> QED BY <1>1, <1>2, <2>3, <3>1, <3>2 DEF ActionOk
  <2> QED BY <2>2, <2>3
<1>5. MoneyOk'
  <2>1. \A x \in Workers : Due(x)' = Due(x)
    BY <1>1 DEF Due
  <2> QED BY <1>1, <2>1, MoneyStays
<1>6. OpenOk'
  <2>2. \A j : \A g \in {"auditor", "season"} :
            Waits(j, g)' => Waits(j, g) /\ v1'[j].group = v1[j].group
    BY <1>2 DEF Waits
  <2> QED BY <1>1, <2>2, OpenStays
<1> QED BY <1>3, <1>4, <1>5, <1>6

\* A boot: nobody works on anything any more, and what was worked on is lapped.
LEMMA BootKeepsAsks == ASSUME AskInv, Answers!Boot PROVE AskInv'
<1> USE DEF AskInv
<1>1. PICK late \in SUBSET {i \in DOMAIN v1 : v1[i].status = "pending" /\ v1[i].timed} :
          v1' = [i \in DOMAIN v1 |-> IF i \in late THEN [v1[i] EXCEPT !.status = "expired"] ELSE v1[i]]
  BY DEF Answers!Boot, Answers!Open
<1>2. /\ v4' = [w \in Workers |-> Answers!idle]
      /\ v9' = (v9 \/ Answers!Busy({"idle"}) /= Workers)
      /\ v7' = v7 \cup {i \in DOMAIN v1 : Answers!WorkedOn(i)}
      /\ UNCHANGED <<v2, v3, v5, v6, v8>>
  BY DEF Answers!Boot, Answers!effects
<1>3. v1 \in Seq(Ask) /\ DOMAIN v1' = DOMAIN v1
  BY <1>1 DEF AskType
<1>4. \A i \in DOMAIN v1 :
         IF i \in late
         THEN /\ v1'[i] \in Ask /\ v1'[i].status = "expired" /\ v1[i].status = "pending"
              /\ v1'[i].want = v1[i].want
         ELSE v1'[i] = v1[i]
  <2> SUFFICES ASSUME NEW i \in DOMAIN v1
               PROVE IF i \in late
                     THEN /\ v1'[i] \in Ask /\ v1'[i].status = "expired" /\ v1[i].status = "pending"
                          /\ v1'[i].want = v1[i].want
                     ELSE v1'[i] = v1[i]
    OBVIOUS
  <2>1. v1[i] \in Ask
    BY <1>3
  <2>2. v1'[i] = IF i \in late THEN [v1[i] EXCEPT !.status = "expired"] ELSE v1[i]
    BY <1>1
  <2> QED BY <2>1, <2>2 DEF Ask
<1>5. v1' \in Seq(Ask) /\ Len(v1') = Len(v1)
  <2>1. \A i \in DOMAIN v1 : v1'[i] \in Ask
    BY <1>3, <1>4
  <2>2. v1' \in [1 .. Len(v1) -> Ask]
    <3>1. DOMAIN v1' = 1 .. Len(v1) /\ v1' = [i \in DOMAIN v1' |-> v1'[i]]
      BY <1>1, <1>3
    <3> QED BY <1>3, <2>1, <3>1
  <2>3. v1' \in Seq(Ask)
    BY <1>3, <2>2
  <2> QED BY <1>3, <2>3
<1>6. \A x \in Workers : v4'[x] = Answers!idle
  BY <1>2
<1>7. AskType'
  <2>1. v4' \in [Workers -> Hand]
    BY <1>2, IdleIs
  <2>2. \A x \in Workers : v4'[x].at = "idle"
    BY <1>6, IdleIs
  <2>3. v9' \in BOOLEAN
    BY <1>2 DEF AskType
  <2> QED BY <1>2, <1>3, <1>5, <2>1, <2>2, <2>3 DEF AskType, Working
<1>8. ASSUME NEW j \in DOMAIN v1' \ v7' PROVE ActionOk(j)'
  <2>1. j \in DOMAIN v1 \ v7 /\ ActionOk(j) /\ (\A x \in Workers : ~Works(x, j))
    BY <1>2, <1>3, <1>8 DEF Answers!WorkedOn, Answers!Busy, Works, Working
  <2>2. v1'[j].want = v1[j].want
    BY <1>4, <2>1
  <2>3. \/ v1'[j].status = v1[j].status
        \/ v1[j].status = "pending" /\ v1'[j].status = "expired"
    BY <1>4, <2>1
  <2>4. j \in v6 => v1[j].status = "rejected"
    BY <2>1 DEF ActionOk
  <2>5. \A x \in Workers : Works(x, j) \/ (v4'[x].at \in Working /\ v4'[x].act = j) => v4'[x] = v4[x]
    BY <1>6, <2>1, IdleIs DEF Works, Working
  <2> QED BY <1>2, <2>1, <2>2, <2>3, <2>4, <2>5, ActionStays
<1>9. MoneyOk'
  <2> SUFFICES ASSUME ~v9' PROVE MoneyOk'
    BY DEF MoneyOk
  <2>1. ~v9 /\ \A x \in Workers : v4[x].at = "idle"
    BY <1>2 DEF Answers!Busy, AskType
  <2>2. \A x \in Workers : Due(x)' = Due(x)
    BY <1>6, <2>1, IdleIs DEF Due
  <2>3. v9' = v9
    BY <2>1, <1>7 DEF AskType
  <2> QED BY <1>2, <2>2, <2>3, MoneyStays
<1>10. OpenOk'
  <2>1. \A x \in Workers : v4'[x].at \notin {"insert", "plan"}
    BY <1>6, IdleIs
  <2>2. \A i \in DOMAIN v1 : v1'[i].status = "pending" => v1'[i] = v1[i]
    BY <1>4
  <2>3. \A i : \A g \in {"auditor", "season"} :
            Waits(i, g)' => Waits(i, g) /\ v1'[i].group = v1[i].group
    BY <1>3, <2>2 DEF Waits
  <2> QED BY <1>2, <2>1, <2>3, OpenStays
<1> QED BY <1>7, <1>8, <1>9, <1>10

LEMMA AskKeeps == AskInv /\ AskNext => AskInv'
BY ProposeKeeps, BootKeepsAsks, RejectKeeps, AuditedKeeps, AuditInsertKeeps, PlanningKeeps,
   PrepareInsertKeeps, ApproveReadKeeps, EditReadKeeps, ApproveExpireKeeps, ExecuteKeeps,
   ExpenseDrawerKeeps, ApproveMarkKeeps, EditWriteKeeps DEF AskNext

\* Nothing is asked and nothing is under way.
LEMMA AskInit == Answers!Init => AskInv
<1> SUFFICES ASSUME Answers!Init PROVE AskInv
  OBVIOUS
<1>1. /\ v1 = <<>> /\ v5 = <<>> /\ v2 = 0 /\ v3 = 0 /\ v6 = {} /\ v7 = {} /\ v8 = FALSE /\ v9 = FALSE
      /\ v4 = [w \in Workers |-> Answers!idle]
  BY DEF Answers!Init
<1>2. \A w \in Workers : v4[w].at = "idle"
  BY <1>1, IdleIs
<1>3. AskType
  <2>1. v4 \in [Workers -> Hand]
    BY <1>1, IdleIs
  <2>2. v1 \in Seq(Ask) /\ v5 \in Seq(Seq(Int)) /\ Len(v5) = Len(v1)
    BY <1>1
  <2>3. v8 \in BOOLEAN /\ v9 \in BOOLEAN
    BY <1>1
  <2> QED BY <1>1, <1>2, <2>1, <2>2, <2>3 DEF AskType, Working
<1>4. MoneyOk
  <2>1. PICK F : F = [w \in Workers |-> Due(w)]
    OBVIOUS
  <2>2. \A w \in Workers : F[w] = 0
    BY <1>2, <2>1 DEF Due
  <2>3. Owed = 0
    BY <2>1, <2>2, SumZero, PartsAssumption DEF Owed
  <2> QED BY <1>1, <2>3 DEF MoneyOk
<1>5. OpenOk
  BY <1>1, <1>2 DEF OpenOk, Waits
<1>6. DOMAIN v1 = {}
  BY <1>1
<1> QED BY <1>3, <1>4, <1>5, <1>6 DEF AskInv

\* What the invariant means when nobody is at work.
LEMMA AskMeans == AskInv => Answers!ApprovedOnce
<1> SUFFICES ASSUME AskInv PROVE Answers!ApprovedOnce
  OBVIOUS
<1> USE DEF AskInv
<1>1. ASSUME NEW i \in DOMAIN v1 \ v7
      PROVE  /\ ~Answers!WorkedOn(i) =>
                    v5[i] = IF v1[i].status = "executed" THEN <<v1[i].want>> ELSE <<>>
             /\ i \in v6 => v5[i] = <<>>
  <2>1. ~Answers!WorkedOn(i) => \A w \in Workers : ~Works(w, i)
    BY DEF Answers!WorkedOn, Answers!Busy, Works, Working
  <2> QED BY <1>1, <2>1 DEF ActionOk
<1>2. ~v9 /\ Answers!Busy({"drawer"}) = {} => v3 = -v2
  <2> SUFFICES ASSUME ~v9, Answers!Busy({"drawer"}) = {} PROVE v3 = -v2
    OBVIOUS
  <2>1. PICK F : F = [w \in Workers |-> Due(w)]
    OBVIOUS
  <2>2. \A w \in Workers : F[w] = 0
    BY <2>1 DEF Due, Answers!Busy
  <2>3. Owed = 0
    BY <2>1, <2>2, SumZero, PartsAssumption DEF Owed
  <2> QED BY <2>3 DEF MoneyOk, AskType
<1>3. ~v8 => /\ \A i, j \in Answers!Pending("auditor") : v1[i].group = v1[j].group => i = j
             /\ \A i, j \in Answers!Pending("season") : v1[i].group = v1[j].group
  BY DEF OpenOk, Waits, Answers!Pending
<1> QED BY <1>1, <1>2, <1>3 DEF Answers!ApprovedOnce

LEMMA AskStart == Answers!Init \/ Proposals!Init => AskInv
<1>1. Proposals!Init => Answers!Init
  BY DEF Proposals!Init, Answers!Init, Proposals!idle, Answers!idle
<1> QED BY <1>1, AskInit

LEMMA AsksNext == ASSUME AskInv, Answers!Next \/ Proposals!Next PROVE AskInv'
BY AnswersAsk, ProposalsAsk, AskKeeps

LEMMA AskSame == ASSUME AskInv, UNCHANGED allVars PROVE AskInv'
BY DEF allVars, AskInv, AskType, ActionOk, Works, MoneyOk, Owed, Due, OpenOk, Waits

LEMMA AskMeansBoth == AskInv => Answers!ApprovedOnce /\ Proposals!ApprovedOnce
<1>1. Answers!ApprovedOnce => Proposals!ApprovedOnce
  BY DEF Proposals!ApprovedOnce, Answers!ApprovedOnce, Proposals!WorkedOn, Answers!WorkedOn,
       Proposals!Busy, Answers!Busy, Proposals!Pending, Answers!Pending
<1> QED BY <1>1, AskMeans

-----------------------------------------------------------------------------
(***************************************************************************)
(* The cash desk.  v1 = drawer, v2 = shifts, v3 = closes, v4 = paper,      *)
(* v5 = month, v6 = till, v7 = worker, v8 = raced, v9 = torn,              *)
(* v10 = removed.                                                          *)
(***************************************************************************)
PaperKinds == {"expense", "supplier_advance", "bank_deposit", "payment_in"}
OneRow == {"sale", "cash_in", "extra_sale", "cash_out", "return", "refund", "salary", "owner_withdrawal"}
RowTypes == PaperKinds \cup OneRow \cup {"opening", "closing"}
DrawerEntry == [type : RowTypes, amount : Int, settled : BOOLEAN]
ShiftEntry == [from : Int, open : BOOLEAN, by : {"start", "drawer"}, variance : Int, fresh : BOOLEAN]
Generating == {"post", "genrow", "mark"}
Counting == {"closing", "close", "closed"}
Teller == [at : {"idle", "row", "opening", "second"} \cup Generating \cup Counting,
           kind : PaperKinds \cup {"none"}, shift : Nat, sum : Int, counted : Int, fresh : BOOLEAN]

CashType ==
    /\ v1 \in Seq(DrawerEntry)
    /\ v2 \in Seq(ShiftEntry)
    /\ v3 \in [difference : Int, upto : Nat, fresh : BOOLEAN] /\ v3.upto <= Len(v1)
    /\ v4 \in [PaperKinds -> Int]
    /\ v5 \in [rows : Nat, marked : BOOLEAN]
    /\ v6 \in Int /\ v10 \in Int
    /\ v7 \in [Workers -> Teller]
    /\ \A w \in Workers : v7[w].at = "row" => v7[w].kind \in PaperKinds
    /\ v8 \in BOOLEAN /\ v9 \in BOOLEAN

\* what the rows at some places of the table add up to
Booked(rows, places) == SumFunctionOnSet([i \in DOMAIN rows |-> rows[i].amount], places)
Typed(rows, types) == {i \in DOMAIN rows : rows[i].type \in types}

\* what a request has done to the till and not written to the drawer yet
Owing(job, k) == IF job.at = "row" /\ job.kind = k THEN CashDesk!Signed(k)
                 ELSE IF job.at = "genrow" /\ k = "expense" THEN -CashAmount ELSE 0
DueIn(job) == IF job.at = "row" THEN CashDesk!Signed(job.kind)
            ELSE IF job.at = "genrow" THEN -CashAmount ELSE 0
OnTheWay(jobs, k) == SumFunctionOnSet([w \in Workers |-> Owing(jobs[w], k)], Workers)
Pending(jobs) == SumFunctionOnSet([w \in Workers |-> DueIn(jobs[w])], Workers)
Adjusted(papers, gone, k) == papers[k] - (IF k = "expense" THEN gone ELSE 0)

\* Every kind's rows, and those on the way, are what their papers say.
BooksOk == ~v9 => \A k \in PaperKinds : Booked(v1, Typed(v1, {k})) 
                               + OnTheWay(v7, k) = Adjusted(v4, v10, k)

\* A month's bill is in one pair of hands.
MonthOk == ~v9 /\ ~v8 =>
    /\ \A w, x \in Workers : v7[w].at \in Generating /\ v7[x].at \in Generating => w = x
    /\ (\A w \in Workers : v7[w].at \notin Generating) => v5.rows = (IF v5.marked THEN 1 ELSE 0)
    /\ \A w \in Workers : v7[w].at \in Generating =>
          ~v5.marked /\ v5.rows = (IF v7[w].at = "post" THEN 0 ELSE 1)

\* The till holds what an opening counted and the rows since, and what is on its way.
Counted(rows, i) == {j \in DOMAIN rows : j = i \/ (j > i /\ rows[j].type \notin {"opening", "closing"})}
TillOk == ~v9 /\ ~v8 =>
    \A i \in DOMAIN v1 : v1[i].type = "opening" /\ v1[i].settled
        => v6 = Booked(v1, Counted(v1, i)) + Pending(v7)

CountsOk == ~v9 /\ ~v8 =>
    \A w \in Workers : v7[w].at = "closing" /\ v7[w].fresh => v7[w].counted = v7[w].sum
ShiftsOk == ~v9 /\ ~v8 => \A s \in DOMAIN v2 : v2[s].fresh => v2[s].variance = 0

Ignored == {"return", "refund", "salary", "owner_withdrawal", "extra_sale",
            "supplier_advance", "bank_deposit", "payment_in"}
UpTo(rows, types, n) == {i \in Typed(rows, types) : i <= n}
CloseOk == ~v9 /\ ~v8 =>
    (v3.fresh /\ UpTo(v1, {"opening"}, v3.upto) = {1} /\ v1[1].settled
        => v3.difference = Booked(v1, UpTo(v1, Ignored, v3.upto)))

CashInv == CashType /\ BooksOk /\ MonthOk /\ TillOk /\ CountsOk /\ ShiftsOk /\ CloseOk

-----------------------------------------------------------------------------
\* The sums of the model are those of the lemmas.
LEMMA SumIsBooked == \A places : CashDesk!Sum(places) = Booked(v1, places)
  BY Zenon DEF CashDesk!Sum, Booked, CashDesk!SumFunctionOnSet, CashDesk!FoldFunctionOnSet,
     CashDesk!MapThenFoldSet, SumFunctionOnSet, FoldFunctionOnSet, MapThenFoldSet

LEMMA SignedIs ==
    /\ \A k \in {"expense", "supplier_advance", "bank_deposit", "cash_out"} : CashDesk!Signed(k) = -CashAmount
    /\ \A k \in {"payment_in", "sale", "cash_in"} : CashDesk!Signed(k) = CashAmount
    /\ CashAmount \in Nat
  BY OfficeAssumption DEF CashDesk!Signed, CashDesk!Paid, CashDesk!GivenOut

LEMMA SignedType == \A k : CashDesk!Signed(k) \in Int
  BY OfficeAssumption DEF CashDesk!Signed

LEMMA BookedType ==
    ASSUME NEW rows \in Seq(DrawerEntry), NEW places \in SUBSET DOMAIN rows
    PROVE  IsFiniteSet(places) /\ Booked(rows, places) \in Int
<1>1. IsFiniteSet(DOMAIN rows)
  <2>1. DOMAIN rows = 1 .. Len(rows) /\ Len(rows) \in Nat
    OBVIOUS
  <2> QED BY <2>1, FS_Interval
<1>2. IsFiniteSet(places)
  BY <1>1, FS_Subset
<1>3. PICK F : F = [i \in DOMAIN rows |-> rows[i].amount]
  OBVIOUS
<1>4. \A i \in places : F[i] \in Int
  <2>1. \A i \in DOMAIN rows : rows[i] \in DrawerEntry
    OBVIOUS
  <2> QED BY <1>3, <2>1 DEF DrawerEntry
<1> QED BY <1>2, <1>3, <1>4, SumType DEF Booked

\* A row more.
Grows(rows, row, more, n) ==
    rows \in Seq(DrawerEntry) /\ row \in DrawerEntry /\ more = Append(rows, row) /\ n = Len(rows) + 1

LEMMA RowAdded ==
    ASSUME NEW rows, NEW row, NEW more, NEW n, Grows(rows, row, more, n)
    PROVE  /\ n \notin DOMAIN rows /\ DOMAIN more = DOMAIN rows \cup {n}
           /\ more[n] = row /\ \A i \in DOMAIN rows : more[i] = rows[i]
BY DEF Grows

LEMMA RowAddedLast ==
    ASSUME NEW rows, NEW row, NEW more, NEW n, Grows(rows, row, more, n)
    PROVE  /\ n \in Nat /\ DOMAIN rows \subseteq Nat
           /\ \A i \in DOMAIN rows : i < n
BY DEF Grows

LEMMA RowAddedType ==
    ASSUME NEW rows, NEW row, NEW more, NEW n, Grows(rows, row, more, n)
    PROVE  /\ rows \in Seq(DrawerEntry) /\ more \in Seq(DrawerEntry)
           /\ Len(more) = n /\ row.amount \in Int
BY DEF Grows, DrawerEntry

LEMMA BookedMore ==
    ASSUME NEW rows, NEW row, NEW more, NEW n, Grows(rows, row, more, n),
           NEW places \in SUBSET DOMAIN rows
    PROVE  /\ Booked(more, places) = Booked(rows, places)
           /\ Booked(more, places \cup {n}) = Booked(rows, places) + row.amount
<1>1. /\ n \notin DOMAIN rows /\ DOMAIN more = DOMAIN rows \cup {n}
      /\ more[n] = row /\ \A i \in DOMAIN rows : more[i] = rows[i]
  BY RowAdded
<1>2. PICK F, G : F = [i \in DOMAIN rows |-> rows[i].amount] /\ G = [i \in DOMAIN more |-> more[i].amount]
  OBVIOUS
<1>3. \A i \in places : F[i] \in Int /\ G[i] = F[i]
  <2>1. \A i \in DOMAIN rows : rows[i] \in DrawerEntry
    BY RowAddedType
  <2> QED BY <1>1, <1>2, <2>1 DEF DrawerEntry
<1>4. G[n] = row.amount /\ row.amount \in Int
  BY <1>1, <1>2, RowAddedType
<1>5. IsFiniteSet(places) /\ n \notin places
  BY <1>1, BookedType, RowAddedType
<1>6. SumFunctionOnSet(G, places) = SumFunctionOnSet(F, places)
  BY <1>3, <1>5, SumEqual
<1>7. SumFunctionOnSet(G, places \cup {n}) = SumFunctionOnSet(F, places) + G[n]
  BY <1>3, <1>4, <1>5, SumJoin
<1> QED BY <1>2, <1>4, <1>6, <1>7 DEF Booked

LEMMA TypedMore ==
    ASSUME NEW rows, NEW row, NEW more, NEW n, Grows(rows, row, more, n), NEW types
    PROVE  /\ Booked(rows, Typed(rows, types)) \in Int /\ row.amount \in Int
           /\ Booked(more, Typed(more, types))
                = Booked(rows, Typed(rows, types)) + (IF row.type \in types THEN row.amount ELSE 0)
<1>1. /\ n \notin DOMAIN rows /\ DOMAIN more = DOMAIN rows \cup {n}
      /\ more[n] = row /\ \A i \in DOMAIN rows : more[i] = rows[i]
  BY RowAdded
<1>2. PICK places : places = Typed(rows, types)
  OBVIOUS
<1>3. places \in SUBSET DOMAIN rows
  BY <1>2 DEF Typed
<1>4. Typed(more, types) = IF row.type \in types THEN places \cup {n} ELSE places
  BY <1>1, <1>2 DEF Typed
<1>5. Booked(rows, places) \in Int
  BY <1>3, BookedType, RowAddedType
<1>6. /\ Booked(more, places) = Booked(rows, places)
      /\ Booked(more, places \cup {n}) = Booked(rows, places) + row.amount
  BY <1>3, BookedMore
<1>7. row.amount \in Int
  BY RowAddedType
<1> QED BY <1>2, <1>4, <1>5, <1>6, <1>7

LEMMA UpToMore ==
    ASSUME NEW rows, NEW row, NEW more, NEW n, Grows(rows, row, more, n),
           NEW m \in Nat, m < n, NEW types
    PROVE  /\ UpTo(more, types, m) = UpTo(rows, types, m)
           /\ Booked(more, UpTo(more, types, m)) = Booked(rows, UpTo(rows, types, m))
<1>0. /\ n \notin DOMAIN rows /\ DOMAIN more = DOMAIN rows \cup {n}
      /\ more[n] = row /\ \A i \in DOMAIN rows : more[i] = rows[i]
  BY RowAdded
<1>1. n \in Nat
  BY RowAddedLast
<1>2. ~(n <= m)
  BY <1>1
<1>3. UpTo(more, types, m) = UpTo(rows, types, m)
  BY <1>0, <1>2 DEF UpTo, Typed
<1>4. PICK places : places = UpTo(rows, types, m)
  OBVIOUS
<1>5. places \in SUBSET DOMAIN rows
  BY <1>4 DEF UpTo, Typed
<1>6. /\ Booked(more, places) = Booked(rows, places)
      /\ Booked(more, places \cup {n}) = Booked(rows, places) + row.amount
  BY <1>5, BookedMore
<1> QED BY <1>3, <1>4, <1>6

\* What has been counted since an opening, with a row more.
LEMMA CountedMore ==
    ASSUME NEW rows, NEW row, NEW more, NEW n, Grows(rows, row, more, n)
    PROVE  \A i \in DOMAIN rows :
               /\ Booked(rows, Counted(rows, i)) \in Int
               /\ Booked(more, Counted(more, i)) = Booked(rows, Counted(rows, i))
                    + (IF row.type \in {"opening", "closing"} THEN 0 ELSE row.amount)
<1>1. /\ n \notin DOMAIN rows /\ DOMAIN more = DOMAIN rows \cup {n}
      /\ more[n] = row /\ \A i \in DOMAIN rows : more[i] = rows[i]
  BY RowAdded
<1>0. n \in Nat /\ \A i \in DOMAIN rows : i < n
  BY RowAddedLast
<1>2. row.amount \in Int
  BY RowAddedType
<1>3. DOMAIN rows \subseteq Nat
  BY RowAddedLast
<1>4. ASSUME NEW i \in DOMAIN rows
      PROVE  /\ Booked(rows, Counted(rows, i)) \in Int
             /\ Booked(more, Counted(more, i)) = Booked(rows, Counted(rows, i))
                  + (IF row.type \in {"opening", "closing"} THEN 0 ELSE row.amount)
  <2>1. PICK places : places = Counted(rows, i)
    OBVIOUS
  <2>2. places \in SUBSET DOMAIN rows
    BY <2>1 DEF Counted
  <2>3. Counted(more, i) = IF row.type \in {"opening", "closing"} THEN places ELSE places \cup {n}
    <3>1. \A j \in DOMAIN rows : j \in Counted(more, i) <=> j \in places
      BY <1>1, <2>1 DEF Counted
    <3>2. n \in Counted(more, i) <=> row.type \notin {"opening", "closing"}
      <4>1. n # i /\ n > i
        BY <1>0, <1>3
      <4> QED BY <1>1, <4>1 DEF Counted
    <3>3. Counted(more, i) \subseteq DOMAIN rows \cup {n}
      BY <1>1 DEF Counted
    <3> QED BY <2>2, <3>1, <3>2, <3>3, <1>1
  <2>4. Booked(rows, places) \in Int
    BY <2>2, BookedType, RowAddedType
  <2>5. /\ Booked(more, places) = Booked(rows, places)
        /\ Booked(more, places \cup {n}) = Booked(rows, places) + row.amount
    BY <2>2, BookedMore
  <2> QED BY <1>2, <2>1, <2>3, <2>4, <2>5
<1> QED BY <1>4

LEMMA CountedMoreNew ==
    ASSUME NEW rows, NEW row, NEW more, NEW n, Grows(rows, row, more, n)
    PROVE  Booked(more, Counted(more, n)) = row.amount
<1>1. /\ n \notin DOMAIN rows /\ DOMAIN more = DOMAIN rows \cup {n}
      /\ more[n] = row /\ \A i \in DOMAIN rows : more[i] = rows[i]
  BY RowAdded
<1>2. row.amount \in Int
  BY RowAddedType
<1>3. n \in Nat /\ DOMAIN rows \subseteq Nat /\ \A i \in DOMAIN rows : i < n
  BY RowAddedLast
<1>4. Counted(more, n) = {} \cup {n}
  <2>1. \A j \in DOMAIN rows : ~(j > n) /\ j # n
    BY <1>3
  <2> QED BY <1>1, <2>1 DEF Counted
<1>5. Booked(rows, {}) = 0
  BY SumEmpty DEF Booked
<1>6. {} \in SUBSET DOMAIN rows
  OBVIOUS
<1>7. /\ Booked(more, {}) = Booked(rows, {})
      /\ Booked(more, {} \cup {n}) = Booked(rows, {}) + row.amount
  BY <1>6, BookedMore
<1> QED BY <1>2, <1>4, <1>5, <1>7

-----------------------------------------------------------------------------
\* What is on its way, when one request moves.
LEMMA OwingType ==
    ASSUME NEW job PROVE DueIn(job) \in Int /\ \A k : Owing(job, k) \in Int
<1>1. CashAmount \in Int /\ -CashAmount \in Int
  BY OfficeAssumption
<1> QED BY <1>1, SignedType DEF DueIn, Owing

LEMMA WayType == ASSUME NEW jobs PROVE Pending(jobs) \in Int /\ \A k : OnTheWay(jobs, k) \in Int
<1>1. IsFiniteSet(Workers)
  BY PartsAssumption
<1>2. Pending(jobs) \in Int
  <2>1. PICK F : F = [w \in Workers |-> DueIn(jobs[w])]
    OBVIOUS
  <2>2. \A w \in Workers : F[w] \in Int
    BY <2>1, OwingType
  <2> QED BY <1>1, <2>1, <2>2, SumType DEF Pending
<1>3. ASSUME NEW k PROVE OnTheWay(jobs, k) \in Int
  <2>1. PICK F : F = [w \in Workers |-> Owing(jobs[w], k)]
    OBVIOUS
  <2>2. \A w \in Workers : F[w] \in Int
    BY <2>1, OwingType
  <2> QED BY <1>1, <2>1, <2>2, SumType DEF OnTheWay
<1> QED BY <1>2, <1>3

Turns(jobs, after, w, old, new) ==
    w \in Workers /\ old = jobs[w] /\ \A x \in Workers : after[x] = IF x = w THEN new ELSE jobs[x]

LEMMA WayMoves ==
    ASSUME NEW jobs, NEW after, NEW w, NEW old, NEW new, Turns(jobs, after, w, old, new)
    PROVE  /\ Pending(after) = Pending(jobs) - DueIn(old) + DueIn(new)
           /\ \A k : OnTheWay(after, k) = OnTheWay(jobs, k) - Owing(old, k) + Owing(new, k)
<1>0. w \in Workers /\ old = jobs[w] /\ \A x \in Workers : after[x] = IF x = w THEN new ELSE jobs[x]
  BY DEF Turns
<1>1. IsFiniteSet(Workers)
  BY PartsAssumption
<1>2. Pending(after) = Pending(jobs) - DueIn(old) + DueIn(new)
  <2>1. PICK F, G : F = [x \in Workers |-> DueIn(jobs[x])] /\ G = [x \in Workers |-> DueIn(after[x])]
    OBVIOUS
  <2>2. \A x \in Workers : F[x] \in Int /\ G[x] \in Int
    BY <2>1, OwingType
  <2>3. F[w] = DueIn(old) /\ G[w] = DueIn(new)
    BY <1>0, <2>1
  <2>4. \A x \in Workers : x # w => G[x] = F[x]
    BY <1>0, <2>1
  <2>5. SumFunctionOnSet(G, Workers) = SumFunctionOnSet(F, Workers) - F[w] + G[w]
    BY <1>0, <1>1, <2>2, <2>4, SumOneChanged
  <2>6. Pending(jobs) = SumFunctionOnSet(F, Workers) /\ Pending(after) = SumFunctionOnSet(G, Workers)
    BY <2>1 DEF Pending
  <2> QED BY <2>3, <2>5, <2>6
<1>3. ASSUME NEW k PROVE OnTheWay(after, k) = OnTheWay(jobs, k) - Owing(old, k) + Owing(new, k)
  <2>1. PICK F, G : F = [x \in Workers |-> Owing(jobs[x], k)] /\ G = [x \in Workers |-> Owing(after[x], k)]
    OBVIOUS
  <2>2. \A x \in Workers : F[x] \in Int /\ G[x] \in Int
    BY <2>1, OwingType
  <2>3. F[w] = Owing(old, k) /\ G[w] = Owing(new, k)
    BY <1>0, <2>1
  <2>4. \A x \in Workers : x # w => G[x] = F[x]
    BY <1>0, <2>1
  <2>5. SumFunctionOnSet(G, Workers) = SumFunctionOnSet(F, Workers) - F[w] + G[w]
    BY <1>0, <1>1, <2>2, <2>4, SumOneChanged
  <2>6. OnTheWay(jobs, k) = SumFunctionOnSet(F, Workers) /\ OnTheWay(after, k) = SumFunctionOnSet(G, Workers)
    BY <2>1 DEF OnTheWay
  <2> QED BY <2>3, <2>5, <2>6
<1> QED BY <1>2, <1>3

\* Nothing is on its way when no request stands between its two writes.
LEMMA NoneOnTheWay ==
    ASSUME NEW jobs, \A w \in Workers : jobs[w].at \notin {"row", "genrow"}
    PROVE  Pending(jobs) = 0 /\ \A k : OnTheWay(jobs, k) = 0
<1>1. IsFiniteSet(Workers)
  BY PartsAssumption
<1>2. Pending(jobs) = 0
  <2>1. PICK F : F = [x \in Workers |-> DueIn(jobs[x])]
    OBVIOUS
  <2>2. \A x \in Workers : F[x] = 0
    BY <2>1 DEF DueIn
  <2> QED BY <1>1, <2>1, <2>2, SumZero DEF Pending
<1>3. ASSUME NEW k PROVE OnTheWay(jobs, k) = 0
  <2>1. PICK F : F = [x \in Workers |-> Owing(jobs[x], k)]
    OBVIOUS
  <2>2. \A x \in Workers : F[x] = 0
    BY <2>1 DEF Owing
  <2> QED BY <1>1, <2>1, <2>2, SumZero DEF OnTheWay
<1> QED BY <1>2, <1>3

-----------------------------------------------------------------------------
(***************************************************************************)
(* What a step leaves alone.                                               *)
(***************************************************************************)
LEMMA AdjustedType == CashType => \A k \in PaperKinds : Adjusted(v4, v10, k) \in Int
BY DEF CashType, Adjusted

LEMMA BooksStay ==
    ASSUME CashType, CashType', BooksOk, v1' = v1, v9' = v9,
           \A k \in PaperKinds : OnTheWay(v7', k)
               = OnTheWay(v7, k) + (Adjusted(v4', v10', k) - Adjusted(v4, v10, k))
    PROVE  BooksOk'
<1>0. (\A k \in PaperKinds : Adjusted(v4, v10, k) \in Int)'
  BY AdjustedType, PTL
<1>1. ASSUME NEW k \in PaperKinds
      PROVE  /\ Booked(v1, Typed(v1, {k})) \in Int
             /\ Adjusted(v4, v10, k) \in Int /\ Adjusted(v4', v10', k) \in Int
             /\ OnTheWay(v7, k) \in Int
  <2>1. v1 \in Seq(DrawerEntry)
    BY DEF CashType
  <2>2. PICK places : places = Typed(v1, {k})
    OBVIOUS
  <2>3. places \in SUBSET DOMAIN v1
    BY <2>2 DEF Typed
  <2>4. Booked(v1, places) \in Int
    BY <2>1, <2>3, BookedType
  <2> QED BY <1>0, <2>2, <2>4, AdjustedType, WayType
<1>2. ASSUME NEW k \in PaperKinds, ~v9
      PROVE  Booked(v1, Typed(v1, {k})) + OnTheWay(v7', k) = Adjusted(v4', v10', k)
  <2>1. Booked(v1, Typed(v1, {k})) + OnTheWay(v7, k) = Adjusted(v4, v10, k)
    BY <1>2 DEF BooksOk
  <2>2. OnTheWay(v7', k) = OnTheWay(v7, k) + (Adjusted(v4', v10', k) - Adjusted(v4, v10, k))
    OBVIOUS
  <2> QED BY <1>1, <2>1, <2>2
<1> QED BY <1>2 DEF BooksOk

LEMMA BooksGrow ==
    ASSUME CashType, BooksOk, NEW row, NEW n, Grows(v1, row, v1', n),
           v9' = v9, v4' = v4, v10' = v10,
           \A k \in PaperKinds : OnTheWay(v7', k)
               = OnTheWay(v7, k) - (IF row.type = k THEN row.amount ELSE 0)
    PROVE  BooksOk'
<1>1. ASSUME NEW k \in PaperKinds
      PROVE  ~v9 => Booked(v1', Typed(v1', {k})) + OnTheWay(v7', k) = Adjusted(v4, v10, k)
  <2>1. /\ Booked(v1, Typed(v1, {k})) \in Int /\ row.amount \in Int
        /\ Booked(v1', Typed(v1', {k}))
             = Booked(v1, Typed(v1, {k})) + (IF row.type \in {k} THEN row.amount ELSE 0)
    BY TypedMore
  <2>2. OnTheWay(v7, k) \in Int
    BY WayType
  <2>3. ~v9 => Booked(v1, Typed(v1, {k})) + OnTheWay(v7, k) = Adjusted(v4, v10, k)
    BY DEF BooksOk
  <2> QED BY <2>1, <2>2, <2>3
<1>2. ASSUME NEW k \in PaperKinds PROVE Adjusted(v4', v10', k) = Adjusted(v4, v10, k)
  OBVIOUS
<1> QED BY <1>1, <1>2 DEF BooksOk

LEMMA MonthStays ==
    ASSUME MonthOk, v5' = v5, v8 => v8', v9' = v9,
           \A w \in Workers : v7'[w].at \in Generating \/ v7[w].at \in Generating
               => v7'[w].at = v7[w].at
    PROVE  MonthOk'
BY DEF MonthOk

LEMMA TillStays ==
    ASSUME CashType, TillOk, v1' = v1, v8 => v8', v9' = v9,
           v6' = v6 + (Pending(v7') - Pending(v7))
    PROVE  TillOk'
<1>1. ASSUME NEW i \in DOMAIN v1 PROVE Booked(v1, Counted(v1, i)) \in Int
  <2>1. v1 \in Seq(DrawerEntry)
    BY DEF CashType
  <2>2. PICK places : places = Counted(v1, i)
    OBVIOUS
  <2>3. places \in SUBSET DOMAIN v1
    BY <2>2 DEF Counted
  <2>4. Booked(v1, places) \in Int
    BY <2>1, <2>3, BookedType
  <2> QED BY <2>2, <2>4
<1>2. v6 \in Int /\ Pending(v7) \in Int /\ Pending(v7') \in Int
  BY WayType DEF CashType
<1> QED BY <1>1, <1>2 DEF TillOk

\* The rows before the new one.
LEMMA TillGrowsOld ==
    ASSUME CashType, TillOk, NEW row, NEW n, Grows(v1, row, v1', n), v8 => v8', v9' = v9,
           v6' = v6 + (Pending(v7') - Pending(v7))
                  + (IF row.type \in {"opening", "closing"} THEN 0 ELSE row.amount)
    PROVE  ~v9' /\ ~v8' => \A i \in DOMAIN v1 : v1'[i].type = "opening" /\ v1'[i].settled
               => v6' = Booked(v1', Counted(v1', i)) + Pending(v7')
<1>1. v6 \in Int /\ Pending(v7) \in Int /\ Pending(v7') \in Int /\ row.amount \in Int
  BY WayType, RowAddedType DEF CashType
<1>2. \A i \in DOMAIN v1 :
          /\ Booked(v1, Counted(v1, i)) \in Int
          /\ Booked(v1', Counted(v1', i)) = Booked(v1, Counted(v1, i))
               + (IF row.type \in {"opening", "closing"} THEN 0 ELSE row.amount)
  BY CountedMore
<1>3. \A i \in DOMAIN v1 : v1'[i] = v1[i]
  BY RowAdded
<1> QED BY <1>1, <1>2, <1>3 DEF TillOk

LEMMA TillGrows ==
    ASSUME CashType, TillOk, NEW row, NEW n, Grows(v1, row, v1', n), v8 => v8', v9' = v9,
           row.type # "opening",
           v6' = v6 + (Pending(v7') - Pending(v7))
                  + (IF row.type \in {"opening", "closing"} THEN 0 ELSE row.amount)
    PROVE  TillOk'
<1>1. /\ n \notin DOMAIN v1 /\ DOMAIN v1' = DOMAIN v1 \cup {n}
      /\ v1'[n] = row /\ \A i \in DOMAIN v1 : v1'[i] = v1[i]
  BY RowAdded
<1>2. ~v9' /\ ~v8' => \A i \in DOMAIN v1 : v1'[i].type = "opening" /\ v1'[i].settled
               => v6' = Booked(v1', Counted(v1', i)) + Pending(v7')
  BY TillGrowsOld
<1> QED BY <1>1, <1>2 DEF TillOk

LEMMA CountsStay ==
    ASSUME CountsOk, v8 => v8', v9' = v9,
           \A w \in Workers : v7'[w].at = "closing" => v7'[w] = v7[w]
    PROVE  CountsOk'
BY DEF CountsOk

LEMMA ShiftsStay == ASSUME ShiftsOk, v8 => v8', v9' = v9, v2' = v2 PROVE ShiftsOk'
BY DEF ShiftsOk

LEMMA ShiftsGrow ==
    ASSUME CashType, ShiftsOk, v8 => v8', v9' = v9,
           NEW entry \in ShiftEntry, ~entry.fresh, v2' = Append(v2, entry)
    PROVE  ShiftsOk' /\ v2' \in Seq(ShiftEntry)
<1>1. v2 \in Seq(ShiftEntry)
  BY DEF CashType
<1>2. v2' \in Seq(ShiftEntry)
  BY <1>1
<1>3. PICK n : n = Len(v2) + 1
  OBVIOUS
<1>4. DOMAIN v2' = DOMAIN v2 \cup {n} /\ v2'[n] = entry /\ \A s \in DOMAIN v2 : v2'[s] = v2[s]
  BY <1>1, <1>3
<1>5. ShiftsOk'
  BY <1>4 DEF ShiftsOk
<1> QED BY <1>2, <1>5

LEMMA CloseStays == ASSUME CloseOk, v8 => v8', v9' = v9, v1' = v1, v3' = v3 PROVE CloseOk'
BY DEF CloseOk

LEMMA CloseGrows ==
    ASSUME CashType, CloseOk, v8 => v8', v9' = v9, v3' = v3,
           NEW row, NEW n, Grows(v1, row, v1', n)
    PROVE  CloseOk' /\ v3'.upto <= Len(v1')
<1>1. PICK m \in Nat : m = v3.upto
  BY DEF CashType
<1>2. m < n /\ v3'.upto = m /\ Len(v1') = n /\ n \in Nat
  <2>1. v1 \in Seq(DrawerEntry) /\ m <= Len(v1) /\ n = Len(v1) + 1
    BY <1>1 DEF CashType, Grows
  <2>2. Len(v1) \in Nat
    BY <2>1
  <2> QED BY <1>1, <2>1, <2>2, RowAddedType, RowAddedLast
<1>3. /\ UpTo(v1', {"opening"}, m) = UpTo(v1, {"opening"}, m)
      /\ Booked(v1', UpTo(v1', Ignored, m)) = Booked(v1, UpTo(v1, Ignored, m))
  BY <1>2, UpToMore
<1>4. UpTo(v1, {"opening"}, m) = {1} => v1'[1] = v1[1]
  <2>1. \A i \in DOMAIN v1 : v1'[i] = v1[i]
    BY RowAdded
  <2> QED BY <2>1 DEF UpTo, Typed
<1>5. CloseOk'
  BY <1>1, <1>2, <1>3, <1>4 DEF CloseOk
<1> QED BY <1>2, <1>5

-----------------------------------------------------------------------------
(***************************************************************************)
(* The steps.                                                              *)
(***************************************************************************)
LEMMA TellerMoves ==
    ASSUME CashType, NEW w \in Workers, NEW new \in Teller, v7' = [v7 EXCEPT ![w] = new],
           new.at = "row" => new.kind \in PaperKinds
    PROVE  /\ v7' \in [Workers -> Teller]
           /\ \A x \in Workers : v7'[x] = IF x = w THEN new ELSE v7[x]
           /\ \A x \in Workers : v7'[x].at = "row" => v7'[x].kind \in PaperKinds
           /\ Turns(v7, v7', w, v7[w], new)
<1>1. v7 \in [Workers -> Teller] /\ \A x \in Workers : v7[x].at = "row" => v7[x].kind \in PaperKinds
  BY DEF CashType
<1> HIDE DEF Teller
<1> QED BY <1>1 DEF Turns

LEMMA RestingIs ==
    /\ CashDesk!resting \in Teller /\ CashDesk!resting.at = "idle"
    /\ CashDesk!resting.fresh = FALSE
BY DEF CashDesk!resting, Teller

\* A request that only moves on.
LEMMA TellerGoes ==
    ASSUME NEW old \in Teller, NEW place \in {"idle"} \cup Generating \cup Counting \cup {"opening", "second"},
           NEW new, new = [old EXCEPT !.at = place]
    PROVE  /\ new \in Teller /\ new.at = place /\ new.kind = old.kind /\ new.shift = old.shift
           /\ new.sum = old.sum /\ new.counted = old.counted /\ new.fresh = old.fresh
BY DEF Teller, Generating, Counting

\* A request that has nothing on its way moves on and the table stays.
LEMMA HandsMove ==
    ASSUME CashInv, CashType', NEW w, NEW old, NEW new, Turns(v7, v7', w, old, new),
           old.at \notin {"row", "genrow"}, new.at \notin {"row", "genrow"},
           UNCHANGED <<v1, v4, v6, v9, v10>>, v8 => v8'
    PROVE  BooksOk' /\ TillOk'
<1>1. DueIn(old) = 0 /\ DueIn(new) = 0 /\ \A k : Owing(old, k) = 0 /\ Owing(new, k) = 0
  BY DEF DueIn, Owing
<1>2. /\ Pending(v7') = Pending(v7) - DueIn(old) + DueIn(new)
      /\ \A k : OnTheWay(v7', k) = OnTheWay(v7, k) - Owing(old, k) + Owing(new, k)
  BY WayMoves
<1>3. Pending(v7) \in Int /\ \A k : OnTheWay(v7, k) \in Int
  BY WayType
<1>4. v6' = v6 + (Pending(v7') - Pending(v7))
  <2>1. v6 \in Int /\ v6' = v6
    BY DEF CashInv, CashType
  <2> QED BY <1>1, <1>2, <1>3, <2>1
<1>5. ASSUME NEW k \in PaperKinds
      PROVE  OnTheWay(v7', k) = OnTheWay(v7, k) + (Adjusted(v4', v10', k) - Adjusted(v4, v10, k))
  <2>1. Adjusted(v4, v10, k) \in Int /\ Adjusted(v4', v10', k) = Adjusted(v4, v10, k)
    BY AdjustedType DEF CashInv
  <2> QED BY <1>1, <1>2, <1>3, <2>1
<1> QED BY <1>4, <1>5, BooksStay, TillStays DEF CashInv

\* A request writes the row of what it had on its way.
LEMMA RowsMove ==
    ASSUME CashInv, NEW w, NEW old, NEW new, Turns(v7, v7', w, old, new),
           NEW row, NEW n, Grows(v1, row, v1', n), row.type \notin {"opening", "closing"},
           DueIn(old) = row.amount, new.at \notin {"row", "genrow"},
           \A k \in PaperKinds : Owing(old, k) = IF row.type = k THEN row.amount ELSE 0,
           UNCHANGED <<v3, v4, v6, v8, v9, v10>>
    PROVE  BooksOk' /\ TillOk' /\ CloseOk'
<1>1. DueIn(new) = 0 /\ \A k : Owing(new, k) = 0
  BY DEF DueIn, Owing
<1>2. /\ Pending(v7') = Pending(v7) - DueIn(old) + DueIn(new)
      /\ \A k : OnTheWay(v7', k) = OnTheWay(v7, k) - Owing(old, k) + Owing(new, k)
  BY WayMoves
<1>3. Pending(v7) \in Int /\ \A k : OnTheWay(v7, k) \in Int
  BY WayType
<1>4. row.amount \in Int
  BY RowAddedType
<1>5. v6' = v6 + (Pending(v7') - Pending(v7))
             + (IF row.type \in {"opening", "closing"} THEN 0 ELSE row.amount)
  <2>1. v6 \in Int /\ v6' = v6
    BY DEF CashInv, CashType
  <2> QED BY <1>1, <1>2, <1>3, <1>4, <2>1
<1>6. ASSUME NEW k \in PaperKinds
      PROVE  OnTheWay(v7', k) = OnTheWay(v7, k) - (IF row.type = k THEN row.amount ELSE 0)
  BY <1>1, <1>2, <1>3, <1>4
<1>7. TillOk'
  BY <1>5, TillGrows DEF CashInv
<1>8. BooksOk'
  BY <1>6, BooksGrow DEF CashInv
<1>9. CloseOk'
  BY CloseGrows DEF CashInv
<1> QED BY <1>7, <1>8, <1>9

LEMMA SettledType == CashDesk!Settled \in BOOLEAN
BY DEF CashDesk!Settled

\* What Row writes.
LEMMA RowIs ==
    ASSUME CashType, NEW type \in RowTypes, NEW amount \in Int, CashDesk!Row(type, amount)
    PROVE  \E row, n : /\ Grows(v1, row, v1', n) /\ row.type = type /\ row.amount = amount
                       /\ row.settled = CashDesk!Settled
<1>1. PICK row : row = [type |-> type, amount |-> amount, settled |-> CashDesk!Settled]
  OBVIOUS
<1>2. row \in DrawerEntry
  BY <1>1, SettledType DEF DrawerEntry
<1>3. v1' = Append(v1, row)
  BY <1>1 DEF CashDesk!Row
<1>4. Grows(v1, row, v1', Len(v1) + 1)
  BY <1>2, <1>3 DEF Grows, CashType
<1> QED BY <1>1, <1>4

LEMMA PaperChanges ==
    ASSUME NEW papers \in [PaperKinds -> Int], NEW kind, NEW x \in Int, NEW after,
           after = [papers EXCEPT ![kind] = x]
    PROVE  after \in [PaperKinds -> Int]
OBVIOUS

LEMMA EnterKeeps ==
    ASSUME CashInv, NEW w \in Workers, NEW kind \in CashMoves \cap CashDesk!Kinds,
           CashDesk!Enter(w, kind)
    PROVE  CashInv'
<1>1. PICK old, new : old = v7[w] /\ new = [old EXCEPT !.at = "row", !.kind = kind]
  OBVIOUS
<1>2. /\ old \in Teller /\ old.at = "idle"
  BY <1>1 DEF CashInv, CashType, CashDesk!Enter, CashDesk!At
<1>3. kind \in PaperKinds
  BY DEF CashDesk!Kinds, CashDesk!Paid, CashDesk!Received, PaperKinds
<1>4. new \in Teller /\ new.at = "row" /\ new.kind = kind
  BY <1>1, <1>2, <1>3 DEF Teller
<1>5. v7' = [v7 EXCEPT ![w] = new]
  BY <1>1, <1>2 DEF CashDesk!Enter, CashInv, CashType
<1>6. /\ v7' \in [Workers -> Teller]
      /\ \A x \in Workers : v7'[x] = IF x = w THEN new ELSE v7[x]
      /\ \A x \in Workers : v7'[x].at = "row" => v7'[x].kind \in PaperKinds
      /\ Turns(v7, v7', w, old, new)
  BY <1>1, <1>3, <1>4, <1>5, TellerMoves DEF CashInv
<1>7. PICK s \in Int : s = CashDesk!Signed(kind)
  BY SignedType
<1>8. /\ DueIn(old) = 0 /\ DueIn(new) = s
      /\ \A k \in PaperKinds : Owing(old, k) = 0 /\ Owing(new, k) = IF k = kind THEN s ELSE 0
  BY <1>2, <1>4, <1>7 DEF DueIn, Owing
<1>9. /\ Pending(v7') = Pending(v7) - DueIn(old) + DueIn(new)
      /\ \A k : OnTheWay(v7', k) = OnTheWay(v7, k) - Owing(old, k) + Owing(new, k)
  BY <1>6, WayMoves
<1>10. Pending(v7) \in Int /\ \A k : OnTheWay(v7, k) \in Int
  BY WayType
<1>11. /\ UNCHANGED <<v1, v2, v3, v5, v8, v9, v10>>
       /\ v6 \in Int /\ v6' = v6 + s
       /\ v4 \in [PaperKinds -> Int] /\ v4' = [v4 EXCEPT ![kind] = v4[kind] + s]
  BY <1>7 DEF CashDesk!Enter, CashInv, CashType
<1>12. CashType'
  <2>1. v4' \in [PaperKinds -> Int]
    <3>1. v4[kind] + s \in Int
      BY <1>3, <1>11
    <3> QED BY <1>11, <3>1, PaperChanges
  <2>2. v6' \in Int
    BY <1>11
  <2> QED BY <1>6, <1>11, <2>1, <2>2 DEF CashInv, CashType
<1>13. BooksOk'
  <2>1. ASSUME NEW k \in PaperKinds
        PROVE  OnTheWay(v7', k) = OnTheWay(v7, k) + (Adjusted(v4', v10', k) - Adjusted(v4, v10, k))
    <3>1. v10 \in Int /\ v4[k] \in Int
      BY <1>11 DEF CashInv, CashType
    <3>2. v4'[k] = IF k = kind THEN v4[k] + s ELSE v4[k]
      BY <1>3, <1>11
    <3>3. Adjusted(v4', v10', k) - Adjusted(v4, v10, k) = IF k = kind THEN s ELSE 0
      BY <1>11, <3>1, <3>2 DEF Adjusted
    <3> QED BY <1>8, <1>9, <1>10, <3>3
  <2> QED BY <1>11, <1>12, <2>1, BooksStay DEF CashInv
<1>14. TillOk'
  <2>1. v6' = v6 + (Pending(v7') - Pending(v7))
    BY <1>8, <1>9, <1>10, <1>11
  <2> QED BY <1>11, <2>1, TillStays DEF CashInv
<1>15. MonthOk'
  BY <1>1, <1>2, <1>4, <1>6, <1>11, MonthStays DEF CashInv, Generating
<1>16. CountsOk' /\ ShiftsOk' /\ CloseOk'
  BY <1>4, <1>6, <1>11, CountsStay, ShiftsStay, CloseStays DEF CashInv
<1> QED BY <1>12, <1>13, <1>14, <1>15, <1>16 DEF CashInv

LEMMA DrawerRowKeeps ==
    ASSUME CashInv, NEW w \in Workers, CashDesk!DrawerRow(w)
    PROVE  CashInv'
<1>1. PICK old, new : old = v7[w] /\ new = CashDesk!resting
  OBVIOUS
<1>2. old.at = "row" /\ old.kind \in PaperKinds
  BY <1>1 DEF CashInv, CashType, CashDesk!DrawerRow, CashDesk!At
<1>3. v7' = [v7 EXCEPT ![w] = new] /\ new \in Teller /\ new.at = "idle"
  BY <1>1, RestingIs DEF CashDesk!DrawerRow, CashDesk!Done
<1>4. /\ v7' \in [Workers -> Teller]
      /\ \A x \in Workers : v7'[x] = IF x = w THEN new ELSE v7[x]
      /\ \A x \in Workers : v7'[x].at = "row" => v7'[x].kind \in PaperKinds
      /\ Turns(v7, v7', w, old, new)
  BY <1>1, <1>3, TellerMoves DEF CashInv
<1>5. PICK s \in Int : s = CashDesk!Signed(old.kind)
  BY SignedType
<1>6. PICK row, n : Grows(v1, row, v1', n) /\ row.type = old.kind /\ row.amount = s
  <2>1. CashDesk!Row(old.kind, s)
    BY <1>1, <1>5 DEF CashDesk!DrawerRow
  <2>2. old.kind \in RowTypes
    BY <1>2 DEF RowTypes
  <2> QED BY <1>5, <2>1, <2>2, RowIs DEF CashInv
<1>7. UNCHANGED <<v2, v3, v4, v5, v6, v8, v9, v10>>
  BY DEF CashDesk!DrawerRow
<1>8. BooksOk' /\ TillOk' /\ CloseOk'
  <2>1. DueIn(old) = row.amount
    BY <1>2, <1>5, <1>6 DEF DueIn
  <2>2. \A k \in PaperKinds : Owing(old, k) = IF row.type = k THEN row.amount ELSE 0
    BY <1>2, <1>5, <1>6 DEF Owing
  <2>3. row.type \notin {"opening", "closing"}
    BY <1>2, <1>6 DEF PaperKinds
  <2>4. new.at \notin {"row", "genrow"}
    BY <1>3
  <2> QED BY <1>4, <1>6, <1>7, <2>1, <2>2, <2>3, <2>4, RowsMove
<1>9. CashType'
  <2>1. v1' \in Seq(DrawerEntry)
    BY <1>6, RowAddedType
  <2>2. v3'.upto <= Len(v1')
    BY <1>6, <1>7, CloseGrows DEF CashInv
  <2> QED BY <1>4, <1>7, <2>1, <2>2 DEF CashInv, CashType
<1>10. MonthOk'
  BY <1>1, <1>2, <1>3, <1>4, <1>7, MonthStays DEF CashInv, Generating
<1>11. CountsOk' /\ ShiftsOk'
  BY <1>3, <1>4, <1>7, CountsStay, ShiftsStay DEF CashInv
<1> QED BY <1>8, <1>9, <1>10, <1>11 DEF CashInv

LEMMA MoveKeeps ==
    ASSUME CashInv, NEW type \in CashMoves \ CashDesk!Kinds, CashDesk!Move(type)
    PROVE  CashInv'
<1>1. type \in OneRow
  BY OfficeAssumption DEF OneRow, CashDesk!Kinds, CashDesk!Paid, CashDesk!Received
<1>2. PICK s \in Int : s = CashDesk!Signed(type)
  BY SignedType
<1>3. PICK row, n : Grows(v1, row, v1', n) /\ row.type = type /\ row.amount = s
  <2>1. CashDesk!Row(type, s)
    BY <1>2 DEF CashDesk!Move
  <2>2. type \in RowTypes
    BY <1>1 DEF RowTypes
  <2> QED BY <2>1, <2>2, RowIs DEF CashInv
<1>4. UNCHANGED <<v2, v3, v4, v5, v7, v8, v9, v10>> /\ v6' = v6 + s /\ v6 \in Int
  BY <1>2 DEF CashDesk!Move, CashInv, CashType
<1>5. Pending(v7') = Pending(v7) /\ Pending(v7) \in Int
  BY <1>4, WayType
<1>6. TillOk'
  <2>1. v6' = v6 + (Pending(v7') - Pending(v7))
               + (IF row.type \in {"opening", "closing"} THEN 0 ELSE row.amount)
    BY <1>1, <1>3, <1>4, <1>5 DEF OneRow
  <2>2. row.type # "opening"
    BY <1>1, <1>3 DEF OneRow
  <2> QED BY <1>3, <1>4, <2>1, <2>2, TillGrows DEF CashInv
<1>7. BooksOk'
  <2>1. ASSUME NEW k \in PaperKinds
        PROVE  OnTheWay(v7', k) = OnTheWay(v7, k) - (IF row.type = k THEN row.amount ELSE 0)
    <3>1. row.type # k
      BY <1>1, <1>3 DEF PaperKinds, OneRow
    <3>2. OnTheWay(v7', k) = OnTheWay(v7, k) /\ OnTheWay(v7, k) \in Int
      BY <1>4, WayType
    <3> QED BY <3>1, <3>2
  <2> QED BY <1>3, <1>4, <2>1, BooksGrow DEF CashInv
<1>8. CloseOk' /\ v3'.upto <= Len(v1')
  BY <1>3, <1>4, CloseGrows DEF CashInv
<1>9. CashType'
  <2>1. v1' \in Seq(DrawerEntry)
    BY <1>3, RowAddedType
  <2> QED BY <1>4, <1>8, <2>1 DEF CashInv, CashType
<1>10. MonthOk' /\ CountsOk' /\ ShiftsOk'
  BY <1>4, MonthStays, CountsStay, ShiftsStay DEF CashInv
<1> QED BY <1>6, <1>7, <1>8, <1>9, <1>10 DEF CashInv

LEMMA RemovalKeeps == ASSUME CashInv, CashDesk!DeleteExpense PROVE CashInv'
<1>1. /\ UNCHANGED <<v1, v2, v3, v5, v6, v7, v8, v9>>
      /\ v4' = [v4 EXCEPT !["expense"] = v4["expense"] + CashAmount] /\ v10' = v10 + CashAmount
  BY DEF CashDesk!DeleteExpense
<1>2. CashAmount \in Int /\ v10 \in Int /\ v4 \in [PaperKinds -> Int]
  BY OfficeAssumption DEF CashInv, CashType
<1>3. v4' \in [PaperKinds -> Int] /\ v10' \in Int
  <2>1. v4["expense"] + CashAmount \in Int /\ v10' \in Int
    BY <1>1, <1>2 DEF PaperKinds
  <2> QED BY <1>1, <1>2, <2>1, PaperChanges
<1>4. CashType'
  BY <1>1, <1>3 DEF CashInv, CashType
<1>5. BooksOk'
  <2>1. ASSUME NEW k \in PaperKinds
        PROVE  OnTheWay(v7', k) = OnTheWay(v7, k) + (Adjusted(v4', v10', k) - Adjusted(v4, v10, k))
    <3>1. v4[k] \in Int /\ v4'[k] = IF k = "expense" THEN v4[k] + CashAmount ELSE v4[k]
      BY <1>1, <1>2
    <3>2. Adjusted(v4', v10', k) = Adjusted(v4, v10, k) /\ Adjusted(v4, v10, k) \in Int
      BY <1>1, <1>2, <3>1 DEF Adjusted
    <3>3. OnTheWay(v7', k) = OnTheWay(v7, k) /\ OnTheWay(v7, k) \in Int
      BY <1>1, WayType
    <3> QED BY <3>2, <3>3
  <2> QED BY <1>1, <1>4, <2>1, BooksStay DEF CashInv
<1>6. TillOk'
  <2>1. v6' = v6 + (Pending(v7') - Pending(v7))
    <3>1. Pending(v7') = Pending(v7) /\ Pending(v7) \in Int
      BY <1>1, WayType
    <3>2. v6 \in Int /\ v6' = v6
      BY <1>1 DEF CashInv, CashType
    <3> QED BY <3>1, <3>2
  <2> QED BY <1>1, <2>1, TillStays DEF CashInv
<1>7. MonthOk' /\ CountsOk' /\ ShiftsOk' /\ CloseOk'
  BY <1>1, MonthStays, CountsStay, ShiftsStay, CloseStays DEF CashInv
<1> QED BY <1>4, <1>5, <1>6, <1>7 DEF CashInv

LEMMA GenerateReadKeeps == ASSUME CashInv, NEW w \in Workers, CashDesk!GenerateRead(w) PROVE CashInv'
<1>1. PICK old, new : old = v7[w] /\ new = [old EXCEPT !.at = "post"]
  OBVIOUS
<1>2. old \in Teller /\ old.at = "idle"
  BY <1>1 DEF CashInv, CashType, CashDesk!GenerateRead, CashDesk!At
<1>3. new \in Teller /\ new.at = "post"
  BY <1>1, <1>2, TellerGoes DEF Generating
<1>4. v7' = [v7 EXCEPT ![w] = new]
  BY <1>1 DEF CashDesk!GenerateRead, CashDesk!Goes, CashInv, CashType
<1>5. /\ v7' \in [Workers -> Teller]
      /\ \A x \in Workers : v7'[x] = IF x = w THEN new ELSE v7[x]
      /\ \A x \in Workers : v7'[x].at = "row" => v7'[x].kind \in PaperKinds
      /\ Turns(v7, v7', w, old, new)
  BY <1>1, <1>3, <1>4, TellerMoves DEF CashInv
<1>6. /\ UNCHANGED <<v1, v2, v3, v4, v5, v6, v9, v10>> /\ ~v5.marked
      /\ v8' = (v8 \/ \E o \in Workers : v7[o].at \in Generating)
  BY DEF CashDesk!GenerateRead, Generating
<1>7. (v8 => v8') /\ v8' \in BOOLEAN
  BY <1>6 DEF CashInv, CashType
<1>8. CashType'
  BY <1>5, <1>6, <1>7 DEF CashInv, CashType
<1>9. BooksOk' /\ TillOk'
  BY <1>2, <1>3, <1>5, <1>6, <1>7, <1>8, HandsMove
<1>10. MonthOk'
  <2> SUFFICES ASSUME ~v9', ~v8' PROVE MonthOk'
    BY DEF MonthOk
  <2>1. ~v9 /\ ~v8 /\ \A o \in Workers : v7[o].at \notin Generating
    BY <1>6
  <2>2. v5.rows = 0
    BY <1>6, <2>1 DEF CashInv, MonthOk
  <2>3. \A x \in Workers : v7'[x].at \in Generating => x = w /\ v7'[x].at = "post"
    BY <1>3, <1>5, <2>1
  <2>4. w \in Workers /\ v7'[w].at \in Generating
    BY <1>3, <1>5 DEF Generating
  <2> QED BY <1>6, <2>2, <2>3, <2>4 DEF MonthOk
<1>11. CountsOk' /\ ShiftsOk' /\ CloseOk'
  BY <1>3, <1>5, <1>6, <1>7, CountsStay, ShiftsStay, CloseStays DEF CashInv
<1> QED BY <1>8, <1>9, <1>10, <1>11 DEF CashInv

LEMMA GenerateInsertKeeps == ASSUME CashInv, NEW w \in Workers, CashDesk!GenerateInsert(w) PROVE CashInv'
<1>1. PICK old, new : old = v7[w] /\ new = [old EXCEPT !.at = "genrow"]
  OBVIOUS
<1>2. old \in Teller /\ old.at = "post"
  BY <1>1 DEF CashInv, CashType, CashDesk!GenerateInsert, CashDesk!At
<1>3. new \in Teller /\ new.at = "genrow"
  BY <1>1, <1>2, TellerGoes DEF Generating
<1>4. v7' = [v7 EXCEPT ![w] = new]
  BY <1>1 DEF CashDesk!GenerateInsert, CashDesk!Goes, CashInv, CashType
<1>5. /\ v7' \in [Workers -> Teller]
      /\ \A x \in Workers : v7'[x] = IF x = w THEN new ELSE v7[x]
      /\ \A x \in Workers : v7'[x].at = "row" => v7'[x].kind \in PaperKinds
      /\ Turns(v7, v7', w, old, new)
  BY <1>1, <1>3, <1>4, TellerMoves DEF CashInv
<1>6. PICK a \in Int : a = CashAmount
  BY OfficeAssumption
<1>7. /\ UNCHANGED <<v1, v2, v3, v8, v9, v10>>
      /\ v6' = IF v5.rows = 0 THEN v6 - a ELSE v6
      /\ v5' = [v5 EXCEPT !.rows = v5.rows + 1]
      /\ v4' = [v4 EXCEPT !["expense"] = v4["expense"] - a]
  BY <1>6 DEF CashDesk!GenerateInsert
<1>8. v6 \in Int /\ v10 \in Int /\ v4 \in [PaperKinds -> Int] /\ v5 \in [rows : Nat, marked : BOOLEAN]
  BY DEF CashInv, CashType
<1>9. v5'.rows = v5.rows + 1 /\ v5'.marked = v5.marked /\ v5' \in [rows : Nat, marked : BOOLEAN]
  BY <1>7, <1>8
<1>10. CashType'
  <2>1. v4' \in [PaperKinds -> Int]
    <3>1. v4["expense"] - a \in Int
      BY <1>8 DEF PaperKinds
    <3> QED BY <1>7, <1>8, <3>1, PaperChanges
  <2>2. v6' \in Int
    BY <1>7, <1>8
  <2> QED BY <1>5, <1>7, <1>9, <2>1, <2>2 DEF CashInv, CashType
<1>11. /\ DueIn(old) = 0 /\ DueIn(new) = -a
       /\ \A k \in PaperKinds : Owing(old, k) = 0 /\ Owing(new, k) = IF k = "expense" THEN -a ELSE 0
  BY <1>2, <1>3, <1>6 DEF DueIn, Owing
<1>12. /\ Pending(v7') = Pending(v7) - DueIn(old) + DueIn(new)
       /\ \A k : OnTheWay(v7', k) = OnTheWay(v7, k) - Owing(old, k) + Owing(new, k)
  BY <1>5, WayMoves
<1>13. Pending(v7) \in Int /\ \A k : OnTheWay(v7, k) \in Int
  BY WayType
<1>14. BooksOk'
  <2>1. ASSUME NEW k \in PaperKinds
        PROVE  OnTheWay(v7', k) = OnTheWay(v7, k) + (Adjusted(v4', v10', k) - Adjusted(v4, v10, k))
    <3>1. v4[k] \in Int /\ v4'[k] = IF k = "expense" THEN v4[k] - a ELSE v4[k]
      BY <1>7, <1>8
    <3>2. Adjusted(v4', v10', k) - Adjusted(v4, v10, k) = IF k = "expense" THEN -a ELSE 0
      BY <1>7, <1>8, <3>1 DEF Adjusted
    <3> QED BY <1>11, <1>12, <1>13, <3>2
  <2> QED BY <1>7, <1>10, <2>1, BooksStay DEF CashInv
<1>15. v7[w].at \in Generating /\ v7'[w].at = "genrow" /\ "genrow" \in Generating
  BY <1>1, <1>2, <1>3, <1>5 DEF Generating
<1>16. ~v9 /\ ~v8 =>
          /\ \A x \in Workers : v7[x].at \in Generating => x = w
          /\ ~v5.marked /\ v5.rows = 0
  BY <1>1, <1>2, <1>15 DEF CashInv, MonthOk
<1>17. MonthOk'
  <2> SUFFICES ASSUME ~v9', ~v8' PROVE MonthOk'
    BY DEF MonthOk
  <2>1. /\ \A x \in Workers : v7[x].at \in Generating => x = w
        /\ ~v5.marked /\ v5.rows = 0
    BY <1>7, <1>16
  <2>2. \A x \in Workers : v7'[x].at \in Generating => x = w /\ v7'[x].at = "genrow"
    BY <1>5, <1>15, <2>1
  <2>3. v5'.rows = 1 /\ ~v5'.marked
    BY <1>9, <2>1
  <2> QED BY <1>15, <2>2, <2>3 DEF MonthOk
<1>18. TillOk'
  <2> SUFFICES ASSUME ~v9', ~v8' PROVE TillOk'
    BY DEF TillOk
  <2>1. v6' = v6 - a
    BY <1>7, <1>16
  <2>2. v6' = v6 + (Pending(v7') - Pending(v7))
    BY <1>8, <1>11, <1>12, <1>13, <2>1
  <2> QED BY <1>7, <2>2, TillStays DEF CashInv
<1>19. CountsOk' /\ ShiftsOk' /\ CloseOk'
  BY <1>3, <1>5, <1>7, CountsStay, ShiftsStay, CloseStays DEF CashInv
<1> QED BY <1>10, <1>14, <1>17, <1>18, <1>19 DEF CashInv

LEMMA GenerateRowKeeps == ASSUME CashInv, NEW w \in Workers, CashDesk!GenerateRow(w) PROVE CashInv'
<1>1. PICK old, new : old = v7[w] /\ new = [old EXCEPT !.at = "mark"]
  OBVIOUS
<1>2. old \in Teller /\ old.at = "genrow"
  BY <1>1 DEF CashInv, CashType, CashDesk!GenerateRow, CashDesk!At
<1>3. new \in Teller /\ new.at = "mark"
  BY <1>1, <1>2, TellerGoes DEF Generating
<1>4. v7' = [v7 EXCEPT ![w] = new]
  BY <1>1 DEF CashDesk!GenerateRow, CashDesk!Goes, CashInv, CashType
<1>5. /\ v7' \in [Workers -> Teller]
      /\ \A x \in Workers : v7'[x] = IF x = w THEN new ELSE v7[x]
      /\ \A x \in Workers : v7'[x].at = "row" => v7'[x].kind \in PaperKinds
      /\ Turns(v7, v7', w, old, new)
  BY <1>1, <1>3, <1>4, TellerMoves DEF CashInv
<1>6. PICK a \in Int : a = CashAmount
  BY OfficeAssumption
<1>7. PICK row, n : Grows(v1, row, v1', n) /\ row.type = "expense" /\ row.amount = -a
  <2>1. CashDesk!Row("expense", -a) /\ "expense" \in RowTypes /\ -a \in Int
    BY <1>6 DEF CashDesk!GenerateRow, RowTypes, PaperKinds
  <2> QED BY <2>1, RowIs DEF CashInv
<1>8. UNCHANGED <<v2, v3, v4, v5, v6, v8, v9, v10>>
  BY DEF CashDesk!GenerateRow
<1>9. BooksOk' /\ TillOk' /\ CloseOk'
  <2>1. DueIn(old) = row.amount
    BY <1>2, <1>6, <1>7 DEF DueIn
  <2>2. \A k \in PaperKinds : Owing(old, k) = IF row.type = k THEN row.amount ELSE 0
    BY <1>2, <1>6, <1>7 DEF Owing
  <2>3. row.type \notin {"opening", "closing"} /\ new.at \notin {"row", "genrow"}
    BY <1>3, <1>7
  <2> QED BY <1>5, <1>7, <1>8, <2>1, <2>2, <2>3, RowsMove
<1>10. CashType'
  <2>1. v1' \in Seq(DrawerEntry)
    BY <1>7, RowAddedType
  <2>2. v3'.upto <= Len(v1')
    BY <1>7, <1>8, CloseGrows DEF CashInv
  <2> QED BY <1>5, <1>8, <2>1, <2>2 DEF CashInv, CashType
<1>11. MonthOk'
  <2>1. /\ v7[w].at = "genrow" /\ v7'[w].at = "mark"
        /\ \A x \in Workers : x # w => v7'[x].at = v7[x].at
    BY <1>1, <1>2, <1>3, <1>5
  <2>2. \A x \in Workers : (v7'[x].at \in Generating <=> v7[x].at \in Generating)
                          /\ (v7'[x].at = "post" <=> v7[x].at = "post")
    BY <2>1 DEF Generating
  <2> QED BY <1>8, <2>2 DEF CashInv, MonthOk
<1>12. CountsOk' /\ ShiftsOk'
  BY <1>3, <1>5, <1>8, CountsStay, ShiftsStay DEF CashInv
<1> QED BY <1>9, <1>10, <1>11, <1>12 DEF CashInv

LEMMA GenerateMarkKeeps == ASSUME CashInv, NEW w \in Workers, CashDesk!GenerateMark(w) PROVE CashInv'
<1>1. PICK old, new : old = v7[w] /\ new = CashDesk!resting
  OBVIOUS
<1>2. old.at = "mark"
  BY <1>1 DEF CashDesk!GenerateMark, CashDesk!At
<1>3. v7' = [v7 EXCEPT ![w] = new] /\ new \in Teller /\ new.at = "idle"
  BY <1>1, RestingIs DEF CashDesk!GenerateMark, CashDesk!Done
<1>4. /\ v7' \in [Workers -> Teller]
      /\ \A x \in Workers : v7'[x] = IF x = w THEN new ELSE v7[x]
      /\ \A x \in Workers : v7'[x].at = "row" => v7'[x].kind \in PaperKinds
      /\ Turns(v7, v7', w, old, new)
  BY <1>1, <1>3, TellerMoves DEF CashInv
<1>5. UNCHANGED <<v1, v2, v3, v4, v6, v8, v9, v10>> /\ v5' = [v5 EXCEPT !.marked = TRUE]
  BY DEF CashDesk!GenerateMark
<1>6. /\ v5 \in [rows : Nat, marked : BOOLEAN] /\ v5' \in [rows : Nat, marked : BOOLEAN]
      /\ v5'.rows = v5.rows /\ v5'.marked
  BY <1>5 DEF CashInv, CashType
<1>7. CashType'
  BY <1>4, <1>5, <1>6 DEF CashInv, CashType
<1>8. BooksOk' /\ TillOk'
  BY <1>2, <1>3, <1>4, <1>5, <1>7, HandsMove
<1>9. MonthOk'
  <2> SUFFICES ASSUME ~v9', ~v8' PROVE MonthOk'
    BY DEF MonthOk
  <2>1. v7[w].at \in Generating /\ v7[w].at # "post" /\ v7'[w].at = "idle"
    BY <1>1, <1>2, <1>3, <1>4 DEF Generating
  <2>2. /\ \A x \in Workers : v7[x].at \in Generating => x = w
        /\ v5.rows = 1
    BY <1>5, <2>1 DEF CashInv, MonthOk
  <2>3. \A x \in Workers : v7'[x].at \notin Generating
    BY <1>4, <2>1, <2>2 DEF Generating
  <2> QED BY <1>6, <2>2, <2>3 DEF MonthOk
<1>10. CountsOk' /\ ShiftsOk' /\ CloseOk'
  BY <1>3, <1>4, <1>5, CountsStay, ShiftsStay, CloseStays DEF CashInv
<1> QED BY <1>7, <1>8, <1>9, <1>10 DEF CashInv

LEMMA StartShiftKeeps == ASSUME CashInv, NEW w \in Workers, CashDesk!StartShift(w) PROVE CashInv'
<1>1. PICK old, new : old = v7[w] /\ new = [old EXCEPT !.at = "opening"]
  OBVIOUS
<1>2. old \in Teller /\ old.at = "idle"
  BY <1>1 DEF CashInv, CashType, CashDesk!StartShift, CashDesk!At
<1>3. new \in Teller /\ new.at = "opening"
  BY <1>1, <1>2, TellerGoes
<1>4. v7' = [v7 EXCEPT ![w] = new]
  BY <1>1 DEF CashDesk!StartShift, CashDesk!Goes, CashInv, CashType
<1>5. /\ v7' \in [Workers -> Teller]
      /\ \A x \in Workers : v7'[x] = IF x = w THEN new ELSE v7[x]
      /\ \A x \in Workers : v7'[x].at = "row" => v7'[x].kind \in PaperKinds
      /\ Turns(v7, v7', w, old, new)
  BY <1>1, <1>3, <1>4, TellerMoves DEF CashInv
<1>6. UNCHANGED <<v1, v3, v4, v5, v6, v8, v9, v10>>
  BY DEF CashDesk!StartShift
<1>7. PICK entry : entry = [from |-> Len(v1) + 1, open |-> TRUE, by |-> "start", variance |-> 0, fresh |-> FALSE]
  OBVIOUS
<1>8. entry \in ShiftEntry /\ ~entry.fresh
  <2>1. Len(v1) \in Nat
    BY DEF CashInv, CashType
  <2> QED BY <1>7, <2>1 DEF ShiftEntry
<1>9. v2' = Append(v2, entry)
  BY <1>7 DEF CashDesk!StartShift, CashDesk!Shift
<1>10. ShiftsOk' /\ v2' \in Seq(ShiftEntry)
  BY <1>6, <1>8, <1>9, ShiftsGrow DEF CashInv
<1>11. CashType'
  BY <1>5, <1>6, <1>10 DEF CashInv, CashType
<1>12. BooksOk' /\ TillOk'
  BY <1>2, <1>3, <1>5, <1>6, <1>11, HandsMove
<1>13. MonthOk'
  BY <1>1, <1>2, <1>3, <1>5, <1>6, MonthStays DEF CashInv, Generating
<1>14. CountsOk' /\ CloseOk'
  BY <1>3, <1>5, <1>6, CountsStay, CloseStays DEF CashInv
<1> QED BY <1>10, <1>11, <1>12, <1>13, <1>14 DEF CashInv

\* The opening counts the till: nothing is owed when the count is settled.
LEMMA OpenDrawerKeeps == ASSUME CashInv, NEW w \in Workers, CashDesk!OpenDrawer(w) PROVE CashInv'
<1>1. PICK old, new : old = v7[w] /\ new = [old EXCEPT !.at = "second", !.sum = Len(v1)]
  OBVIOUS
<1>2. old \in Teller /\ old.at = "opening"
  BY <1>1 DEF CashInv, CashType, CashDesk!OpenDrawer, CashDesk!At
<1>3. new \in Teller /\ new.at = "second"
  <2>1. Len(v1) \in Int
    BY DEF CashInv, CashType
  <2> QED BY <1>1, <1>2, <2>1 DEF Teller
<1>4. v7' = [v7 EXCEPT ![w] = new]
  BY <1>1, <1>2 DEF CashDesk!OpenDrawer, CashInv, CashType
<1>5. /\ v7' \in [Workers -> Teller]
      /\ \A x \in Workers : v7'[x] = IF x = w THEN new ELSE v7[x]
      /\ \A x \in Workers : v7'[x].at = "row" => v7'[x].kind \in PaperKinds
      /\ Turns(v7, v7', w, old, new)
  BY <1>1, <1>3, <1>4, TellerMoves DEF CashInv
<1>6. UNCHANGED <<v2, v3, v4, v5, v6, v8, v9, v10>>
  BY DEF CashDesk!OpenDrawer
<1>7. PICK ready \in BOOLEAN : ready = \A o \in Workers : v7[o].at \notin {"row", "genrow"}
  OBVIOUS
<1>8. PICK row : row = [type |-> "opening", amount |-> v6, settled |-> ready]
  OBVIOUS
<1>9. PICK n : n = Len(v1) + 1
  OBVIOUS
<1>10. Grows(v1, row, v1', n) /\ row.type = "opening" /\ row.amount = v6 /\ row.settled = ready
  <2>1. v1' = Append(v1, row)
    BY <1>7, <1>8 DEF CashDesk!OpenDrawer
  <2>2. row \in DrawerEntry
    BY <1>8 DEF DrawerEntry, RowTypes, CashInv, CashType
  <2> QED BY <1>8, <1>9, <2>1, <2>2 DEF Grows, CashInv, CashType
<1>11. DueIn(old) = 0 /\ DueIn(new) = 0 /\ \A k : Owing(old, k) = 0 /\ Owing(new, k) = 0
  BY <1>2, <1>3 DEF DueIn, Owing
<1>12. /\ Pending(v7') = Pending(v7) - DueIn(old) + DueIn(new)
       /\ \A k : OnTheWay(v7', k) = OnTheWay(v7, k) - Owing(old, k) + Owing(new, k)
  BY <1>5, WayMoves
<1>13. Pending(v7) \in Int /\ (\A k : OnTheWay(v7, k) \in Int) /\ v6 \in Int
  BY WayType DEF CashInv, CashType
<1>14. CloseOk' /\ v3'.upto <= Len(v1')
  BY <1>6, <1>10, CloseGrows DEF CashInv
<1>15. CashType'
  <2>1. v1' \in Seq(DrawerEntry)
    BY <1>10, RowAddedType
  <2> QED BY <1>5, <1>6, <1>14, <2>1 DEF CashInv, CashType
<1>16. BooksOk'
  <2>1. ASSUME NEW k \in PaperKinds
        PROVE  OnTheWay(v7', k) = OnTheWay(v7, k) - (IF row.type = k THEN row.amount ELSE 0)
    <3>1. row.type # k
      BY <1>10 DEF PaperKinds
    <3> QED BY <1>11, <1>12, <1>13, <3>1
  <2> QED BY <1>6, <1>10, <2>1, BooksGrow DEF CashInv
<1>17. TillOk'
  <2>1. v6' = v6 + (Pending(v7') - Pending(v7))
               + (IF row.type \in {"opening", "closing"} THEN 0 ELSE row.amount)
    BY <1>6, <1>10, <1>11, <1>12, <1>13
  <2>2. ~v9' /\ ~v8' => \A i \in DOMAIN v1 : v1'[i].type = "opening" /\ v1'[i].settled
               => v6' = Booked(v1', Counted(v1', i)) + Pending(v7')
    BY <1>6, <1>10, <2>1, TillGrowsOld DEF CashInv
  <2>3. /\ n \notin DOMAIN v1 /\ DOMAIN v1' = DOMAIN v1 \cup {n}
        /\ v1'[n] = row /\ \A i \in DOMAIN v1 : v1'[i] = v1[i]
    BY <1>10, RowAdded
  <2>4. Booked(v1', Counted(v1', n)) = v6
    BY <1>10, CountedMoreNew
  <2>5. ready => Pending(v7') = 0
    <3>1. ready => Pending(v7) = 0 /\ \A k : OnTheWay(v7, k) = 0
      BY <1>7, NoneOnTheWay
    <3> QED BY <1>11, <1>12, <1>13, <3>1
  <2>6. v1'[n].settled => v6' = Booked(v1', Counted(v1', n)) + Pending(v7')
    BY <1>6, <1>10, <1>13, <2>3, <2>4, <2>5
  <2> QED BY <2>2, <2>3, <2>6 DEF TillOk
<1>18. MonthOk'
  BY <1>1, <1>2, <1>3, <1>5, <1>6, MonthStays DEF CashInv, Generating
<1>19. CountsOk' /\ ShiftsOk'
  BY <1>3, <1>5, <1>6, CountsStay, ShiftsStay DEF CashInv
<1> QED BY <1>14, <1>15, <1>16, <1>17, <1>18, <1>19 DEF CashInv

LEMMA SecondShiftKeeps == ASSUME CashInv, NEW w \in Workers, CashDesk!SecondShift(w) PROVE CashInv'
<1>1. PICK old, new : old = v7[w] /\ new = CashDesk!resting
  OBVIOUS
<1>2. old \in Teller /\ old.at = "second"
  BY <1>1 DEF CashInv, CashType, CashDesk!SecondShift, CashDesk!At
<1>3. new \in Teller /\ new.at = "idle"
  BY <1>1, RestingIs
<1>4. v7' = [v7 EXCEPT ![w] = new]
  BY <1>1 DEF CashDesk!SecondShift, CashDesk!Done
<1>5. /\ v7' \in [Workers -> Teller]
      /\ \A x \in Workers : v7'[x] = IF x = w THEN new ELSE v7[x]
      /\ \A x \in Workers : v7'[x].at = "row" => v7'[x].kind \in PaperKinds
      /\ Turns(v7, v7', w, old, new)
  BY <1>1, <1>3, <1>4, TellerMoves DEF CashInv
<1>6. UNCHANGED <<v1, v3, v4, v5, v6, v8, v9, v10>>
  BY DEF CashDesk!SecondShift
<1>7. PICK from \in {old.sum + 1, Len(v1) + 1} :
          v2' = Append(v2, [from |-> from, open |-> TRUE, by |-> "drawer", variance |-> 0, fresh |-> FALSE])
  BY <1>1 DEF CashDesk!SecondShift
<1>8. PICK entry : entry = [from |-> from, open |-> TRUE, by |-> "drawer", variance |-> 0, fresh |-> FALSE]
  OBVIOUS
<1>9. entry \in ShiftEntry /\ ~entry.fresh
  <2>1. Len(v1) \in Nat /\ old.sum \in Int
    BY <1>2 DEF CashInv, CashType, Teller
  <2>2. from \in Int
    BY <2>1
  <2> QED BY <1>8, <2>2 DEF ShiftEntry
<1>10. ShiftsOk' /\ v2' \in Seq(ShiftEntry)
  BY <1>6, <1>7, <1>8, <1>9, ShiftsGrow DEF CashInv
<1>11. CashType'
  BY <1>5, <1>6, <1>10 DEF CashInv, CashType
<1>12. BooksOk' /\ TillOk'
  BY <1>2, <1>3, <1>5, <1>6, <1>11, HandsMove
<1>13. MonthOk'
  BY <1>1, <1>2, <1>3, <1>5, <1>6, MonthStays DEF CashInv, Generating
<1>14. CountsOk' /\ CloseOk'
  BY <1>3, <1>5, <1>6, CountsStay, CloseStays DEF CashInv
<1> QED BY <1>10, <1>11, <1>12, <1>13, <1>14 DEF CashInv

\* The newest open shift is a row of the table.
LEMMA NewestIs ==
    ASSUME CashType, \E s \in DOMAIN v2 : v2[s].open PROVE CashDesk!Newest \in DOMAIN v2
<1>1. PICK n \in Nat : DOMAIN v2 = 1 .. n
  BY DEF CashType
<1>2. PICK T : T = {s \in DOMAIN v2 : v2[s].open}
  OBVIOUS
<1>3. PICK R : R = {p \in (1 .. n) \X (1 .. n) : p[1] < p[2]}
  OBVIOUS
<1>4. \A x, y \in 1 .. n : <<x, y>> \in R <=> x < y
  BY <1>3
<1>5. IsFiniteSet(1 .. n)
  BY <1>1, FS_Interval
<1>6. PICK x \in T : \A y \in T : <<x, y>> \notin R
  <2>1. PICK S : S = 1 .. n
    OBVIOUS
  <2>2. /\ \A y \in S : <<y, y>> \notin R
        /\ \A y, z, o \in S : <<y, z>> \in R /\ <<z, o>> \in R => <<y, o>> \in R
    BY <1>4, <2>1
  <2>3. IsFiniteSet(S) /\ T \in SUBSET S /\ T # {}
    BY <1>1, <1>2, <1>5, <2>1
  <2>4. \A U \in SUBSET S : U # {} => \E y \in U : \A z \in U : <<y, z>> \notin R
    <3> HIDE <1>3, <1>4, <2>1
    <3> QED BY <2>2, <2>3, LastElement
  <2> QED BY <2>3, <2>4
<1>7. \E s \in T : \A o \in DOMAIN v2 : v2[o].open => o <= s
  <2>1. x \in 1 .. n /\ \A o \in T : o \in 1 .. n
    BY <1>1, <1>2
  <2>2. ASSUME NEW o \in T PROVE o <= x
    <3>1. o \in 1 .. n /\ <<x, o>> \notin R
      BY <1>6, <2>1
    <3>2. ~(x < o)
      BY <1>4, <2>1, <3>1
    <3> QED BY <2>1, <3>1, <3>2
  <2> QED BY <1>2, <2>2
<1>8. CashDesk!Newest \in T
  BY <1>2, <1>7 DEF CashDesk!Newest
<1> QED BY <1>2, <1>8

\* An honest count of a shift with an opening of its own finds what its rows add up to.
LEMMA FreshCounts ==
    ASSUME CashInv, ~v9, ~v8, NEW s, CashDesk!Fresh(s) PROVE CashDesk!Since(s) = v6
<1>1. PICK f : f = v2[s].from
  OBVIOUS
<1>2. f \in DOMAIN v1 /\ v1[f].type = "opening" /\ v1[f].settled
  BY <1>1 DEF CashDesk!Fresh, CashDesk!OfType
<1>3. \A i \in DOMAIN v1 : v1[i].type \in {"opening", "closing"} => i <= f
  BY <1>1 DEF CashDesk!Fresh, CashDesk!OfType
<1>4. \A w \in Workers : v7[w].at \notin {"row", "genrow"}
  BY DEF CashDesk!Fresh, CashDesk!Settled
<1>5. Pending(v7) = 0 /\ \A k : OnTheWay(v7, k) = 0
  BY <1>4, NoneOnTheWay
<1>6. PICK places : places = {i \in DOMAIN v1 : i >= f}
  OBVIOUS
<1>7. DOMAIN v1 \subseteq Int
  BY DEF CashInv, CashType
<1>8. Counted(v1, f) = places
  BY <1>2, <1>3, <1>6, <1>7 DEF Counted
<1>9. CashDesk!Since(s) = Booked(v1, places)
  BY <1>1, <1>6, SumIsBooked DEF CashDesk!Since
<1>10. Booked(v1, places) \in Int
  <2>1. places \in SUBSET DOMAIN v1 /\ v1 \in Seq(DrawerEntry)
    BY <1>6 DEF CashInv, CashType
  <2> QED BY <2>1, BookedType
<1>11. v6 = Booked(v1, Counted(v1, f)) + Pending(v7)
  BY <1>2 DEF CashInv, TillOk
<1> QED BY <1>5, <1>8, <1>9, <1>10, <1>11

LEMMA SinceType == ASSUME CashType, NEW s PROVE CashDesk!Since(s) \in Int
<1>1. PICK places : places = {i \in DOMAIN v1 : i >= v2[s].from}
  OBVIOUS
<1>2. CashDesk!Since(s) = Booked(v1, places)
  BY <1>1, SumIsBooked DEF CashDesk!Since
<1>3. places \in SUBSET DOMAIN v1 /\ v1 \in Seq(DrawerEntry)
  BY <1>1 DEF CashType
<1> QED BY <1>2, <1>3, BookedType

LEMMA EndShiftReadKeeps == ASSUME CashInv, NEW w \in Workers, CashDesk!EndShiftRead(w) PROVE CashInv'
<1>0. PICK s : s = CashDesk!Newest
  OBVIOUS
<1>1. PICK old, new : old = v7[w] /\ new = [CashDesk!resting EXCEPT !.at = "closing", !.shift = s,
                             !.sum = CashDesk!Since(s), !.counted = v6, !.fresh = CashDesk!Fresh(s)]
  OBVIOUS
<1>2. old.at = "idle"
  BY <1>1 DEF CashDesk!EndShiftRead, CashDesk!At
<1>6. UNCHANGED <<v1, v2, v3, v4, v5, v6, v8, v9, v10>>
  BY DEF CashDesk!EndShiftRead
<1>7. new = [at |-> "closing", kind |-> "none", shift |-> s, sum |-> CashDesk!Since(s), counted |-> v6,
             fresh |-> CashDesk!Fresh(s)]
  BY <1>1 DEF CashDesk!resting
<1>3. new \in Teller /\ new.at = "closing"
  <2>1. s \in Nat
    <3>1. \E o \in DOMAIN v2 : v2[o].open
      BY DEF CashDesk!EndShiftRead
    <3>2. s \in DOMAIN v2
      BY <1>0, <3>1, NewestIs DEF CashInv
    <3> QED BY <3>2 DEF CashInv, CashType
  <2>2. CashDesk!Since(s) \in Int /\ v6 \in Int
    BY SinceType DEF CashInv, CashType
  <2>3. CashDesk!Fresh(s) \in BOOLEAN
    BY DEF CashDesk!Fresh
  <2> QED BY <1>7, <2>1, <2>2, <2>3 DEF Teller, Counting
<1>4. v7' = [v7 EXCEPT ![w] = new]
  BY <1>0, <1>1 DEF CashDesk!EndShiftRead
<1>5. /\ v7' \in [Workers -> Teller]
      /\ \A x \in Workers : v7'[x] = IF x = w THEN new ELSE v7[x]
      /\ \A x \in Workers : v7'[x].at = "row" => v7'[x].kind \in PaperKinds
      /\ Turns(v7, v7', w, old, new)
  BY <1>1, <1>3, <1>4, TellerMoves DEF CashInv
<1>8. CashType'
  BY <1>5, <1>6 DEF CashInv, CashType
<1>9. BooksOk' /\ TillOk'
  BY <1>2, <1>3, <1>5, <1>6, <1>8, HandsMove
<1>10. MonthOk'
  BY <1>1, <1>2, <1>3, <1>5, <1>6, MonthStays DEF CashInv, Generating
<1>11. CountsOk'
  <2> SUFFICES ASSUME ~v9, ~v8 PROVE CountsOk'
    BY <1>6 DEF CountsOk
  <2>1. new.fresh => new.counted = new.sum
    <3>1. CashDesk!Fresh(s) => CashDesk!Since(s) = v6
      BY FreshCounts
    <3> QED BY <1>7, <3>1
  <2> QED BY <1>5, <1>6, <2>1 DEF CashInv, CountsOk
<1>12. ShiftsOk' /\ CloseOk'
  BY <1>6, ShiftsStay, CloseStays DEF CashInv
<1> QED BY <1>8, <1>9, <1>10, <1>11, <1>12 DEF CashInv

LEMMA ShiftChanges ==
    ASSUME NEW rows \in Seq(ShiftEntry), NEW s, NEW shown, s \in DOMAIN rows => shown \in ShiftEntry,
           NEW after, after = [rows EXCEPT ![s] = shown]
    PROVE  /\ after \in Seq(ShiftEntry) /\ DOMAIN after = DOMAIN rows
           /\ \A o \in DOMAIN rows : after[o] = IF o = s THEN shown ELSE rows[o]
<1>1. PICK n \in Nat : DOMAIN rows = 1 .. n /\ Len(rows) = n
  OBVIOUS
<1>2. DOMAIN after = 1 .. n /\ \A o \in 1 .. n : after[o] = IF o = s THEN shown ELSE rows[o]
  BY <1>1
<1>3. \A o \in 1 .. n : after[o] \in ShiftEntry
  BY <1>1, <1>2
<1>4. after \in [1 .. n -> ShiftEntry]
  BY <1>1, <1>2, <1>3
<1>5. after \in Seq(ShiftEntry)
  BY <1>4
<1> QED BY <1>1, <1>2, <1>5

LEMMA EndShiftWriteKeeps == ASSUME CashInv, NEW w \in Workers, CashDesk!EndShiftWrite(w) PROVE CashInv'
<1>1. PICK old, new : old = v7[w] /\ new = [old EXCEPT !.at = "close"]
  OBVIOUS
<1>2. old \in Teller /\ old.at = "closing"
  BY <1>1 DEF CashInv, CashType, CashDesk!EndShiftWrite, CashDesk!At
<1>3. new \in Teller /\ new.at = "close"
  BY <1>1, <1>2, TellerGoes DEF Counting
<1>4. v7' = [v7 EXCEPT ![w] = new]
  BY <1>1 DEF CashDesk!EndShiftWrite, CashDesk!Goes, CashInv, CashType
<1>5. /\ v7' \in [Workers -> Teller]
      /\ \A x \in Workers : v7'[x] = IF x = w THEN new ELSE v7[x]
      /\ \A x \in Workers : v7'[x].at = "row" => v7'[x].kind \in PaperKinds
      /\ Turns(v7, v7', w, old, new)
  BY <1>1, <1>3, <1>4, TellerMoves DEF CashInv
<1>6. UNCHANGED <<v1, v3, v4, v5, v6, v8, v9, v10>>
  BY DEF CashDesk!EndShiftWrite
<1>7. PICK s, x \in Int, f \in BOOLEAN : s = old.shift /\ x = old.counted - old.sum /\ f = old.fresh
  BY <1>2 DEF Teller
<1>8. v2' = [v2 EXCEPT ![s].open = FALSE, ![s].variance = x, ![s].fresh = f]
  BY <1>1, <1>7 DEF CashDesk!EndShiftWrite
<1>9. PICK shown : shown = [v2[s] EXCEPT !.open = FALSE, !.variance = x, !.fresh = f]
  OBVIOUS
<1>10. s \in DOMAIN v2 => shown \in ShiftEntry /\ shown.variance = x /\ shown.fresh = f
  <2>1. v2 \in Seq(ShiftEntry)
    BY DEF CashInv, CashType
  <2>2. s \in DOMAIN v2 => v2[s] \in ShiftEntry
    BY <2>1
  <2> QED BY <1>9, <2>2 DEF ShiftEntry
<1>11. v2' = [v2 EXCEPT ![s] = shown]
  BY <1>8, <1>9 DEF CashInv, CashType
<1>12. v2' \in Seq(ShiftEntry) /\ DOMAIN v2' = DOMAIN v2
       /\ \A o \in DOMAIN v2 : v2'[o] = IF o = s THEN shown ELSE v2[o]
  <2>1. v2 \in Seq(ShiftEntry)
    BY DEF CashInv, CashType
  <2> QED BY <1>10, <1>11, <2>1, ShiftChanges
<1>13. ShiftsOk'
  <2> SUFFICES ASSUME ~v9, ~v8 PROVE ShiftsOk'
    BY <1>6 DEF ShiftsOk
  <2>1. f => x = 0
    <3>1. old.fresh => old.counted = old.sum
      BY <1>1, <1>2 DEF CashInv, CountsOk
    <3>2. old.counted \in Int /\ old.sum \in Int
      BY <1>2 DEF Teller
    <3> QED BY <1>7, <3>1, <3>2
  <2>2. \A o \in DOMAIN v2 : v2[o].fresh => v2[o].variance = 0
    BY DEF CashInv, ShiftsOk
  <2> QED BY <1>10, <1>12, <2>1, <2>2 DEF ShiftsOk
<1>14. CashType'
  BY <1>5, <1>6, <1>12 DEF CashInv, CashType
<1>15. BooksOk' /\ TillOk'
  BY <1>2, <1>3, <1>5, <1>6, <1>14, HandsMove
<1>16. MonthOk'
  BY <1>1, <1>2, <1>3, <1>5, <1>6, MonthStays DEF CashInv, Generating
<1>17. CountsOk' /\ CloseOk'
  BY <1>3, <1>5, <1>6, CountsStay, CloseStays DEF CashInv
<1> QED BY <1>13, <1>14, <1>15, <1>16, <1>17 DEF CashInv

LEMMA StartCloseKeeps == ASSUME CashInv, NEW w \in Workers, CashDesk!StartClose(w) PROVE CashInv'
<1>1. PICK old, new : old = v7[w] /\ new = [old EXCEPT !.at = "close", !.counted = v6]
  OBVIOUS
<1>2. old \in Teller /\ old.at = "idle"
  BY <1>1 DEF CashInv, CashType, CashDesk!StartClose, CashDesk!At
<1>3. new \in Teller /\ new.at = "close"
  <2>1. v6 \in Int
    BY DEF CashInv, CashType
  <2> QED BY <1>1, <1>2, <2>1 DEF Teller, Counting
<1>4. v7' = [v7 EXCEPT ![w] = new]
  BY <1>1, <1>2 DEF CashDesk!StartClose, CashInv, CashType
<1>5. /\ v7' \in [Workers -> Teller]
      /\ \A x \in Workers : v7'[x] = IF x = w THEN new ELSE v7[x]
      /\ \A x \in Workers : v7'[x].at = "row" => v7'[x].kind \in PaperKinds
      /\ Turns(v7, v7', w, old, new)
  BY <1>1, <1>3, <1>4, TellerMoves DEF CashInv
<1>6. UNCHANGED <<v1, v2, v3, v4, v5, v6, v8, v9, v10>>
  BY DEF CashDesk!StartClose
<1>7. CashType'
  BY <1>5, <1>6 DEF CashInv, CashType
<1>8. BooksOk' /\ TillOk'
  BY <1>2, <1>3, <1>5, <1>6, <1>7, HandsMove
<1>9. MonthOk'
  BY <1>1, <1>2, <1>3, <1>5, <1>6, MonthStays DEF CashInv, Generating
<1>10. CountsOk' /\ ShiftsOk' /\ CloseOk'
  BY <1>3, <1>5, <1>6, CountsStay, ShiftsStay, CloseStays DEF CashInv
<1> QED BY <1>7, <1>8, <1>9, <1>10 DEF CashInv

LEMMA BookedUnion ==
    ASSUME NEW rows \in Seq(DrawerEntry), NEW A \in SUBSET DOMAIN rows, NEW B \in SUBSET DOMAIN rows,
           A \cap B = {}
    PROVE  Booked(rows, A \cup B) = Booked(rows, A) + Booked(rows, B)
<1>1. IsFiniteSet(A) /\ IsFiniteSet(B)
  BY BookedType
<1>2. PICK F : F = [i \in DOMAIN rows |-> rows[i].amount]
  OBVIOUS
<1>3. \A i \in DOMAIN rows : F[i] \in Int
  <2>1. \A i \in DOMAIN rows : rows[i] \in DrawerEntry
    OBVIOUS
  <2> QED BY <1>2, <2>1 DEF DrawerEntry
<1>4. (\A i \in A : F[i] \in Int) /\ (\A i \in B : F[i] \in Int)
  BY <1>3
<1>5. SumFunctionOnSet(F, A \cup B) = SumFunctionOnSet(F, A) + SumFunctionOnSet(F, B)
  BY <1>1, <1>4, SumUnion
<1> QED BY <1>2, <1>5 DEF Booked

\* The types close_cash_drawer adds up, and those its formula leaves out, are all there are.
DayTypes == {"opening", "sale", "cash_in", "expense", "cash_out"}

LEMMA TypesPart ==
    ASSUME CashType, UpTo(v1, {"opening"}, Len(v1)) = {1}
    PROVE  /\ 1 \in DOMAIN v1 /\ v1[1].type = "opening"
           /\ Counted(v1, 1) = Typed(v1, DayTypes) \cup Typed(v1, Ignored)
           /\ Typed(v1, DayTypes) \cap Typed(v1, Ignored) = {}
           /\ UpTo(v1, Ignored, Len(v1)) = Typed(v1, Ignored)
<1>1. PICK n \in Nat : n = Len(v1) /\ DOMAIN v1 = 1 .. n
  BY DEF CashType
<1>2. \A types : UpTo(v1, types, Len(v1)) = Typed(v1, types)
  BY <1>1 DEF UpTo, Typed
<1>3. 1 \in DOMAIN v1 /\ v1[1].type = "opening" /\ \A i \in DOMAIN v1 : v1[i].type = "opening" => i = 1
  <2>1. Typed(v1, {"opening"}) = {1}
    BY <1>2
  <2> QED BY <2>1 DEF Typed
<1>4. \A i \in DOMAIN v1 : v1[i].type \in RowTypes
  <2>1. \A i \in DOMAIN v1 : v1[i] \in DrawerEntry
    BY DEF CashType
  <2> QED BY <2>1 DEF DrawerEntry
<1>5. ASSUME NEW i \in DOMAIN v1
      PROVE  i \in Counted(v1, 1) <=> i \in Typed(v1, DayTypes) \cup Typed(v1, Ignored)
  <2>1. i = 1 \/ i > 1
    BY <1>1
  <2>2. i \in Counted(v1, 1) <=> v1[i].type # "closing"
    BY <1>3, <2>1 DEF Counted
  <2>3. v1[i].type # "closing" <=> v1[i].type \in DayTypes \cup Ignored
    BY <1>4 DEF RowTypes, OneRow, PaperKinds, DayTypes, Ignored
  <2> QED BY <2>2, <2>3 DEF Typed
<1>6. Counted(v1, 1) \subseteq DOMAIN v1 /\ Typed(v1, DayTypes) \cup Typed(v1, Ignored) \subseteq DOMAIN v1
  BY DEF Counted, Typed
<1>7. Counted(v1, 1) = Typed(v1, DayTypes) \cup Typed(v1, Ignored)
  BY <1>5, <1>6
<1>8. Typed(v1, DayTypes) \cap Typed(v1, Ignored) = {}
  BY DEF Typed, DayTypes, Ignored
<1> QED BY <1>2, <1>3, <1>7, <1>8

LEMMA CloseReadKeeps == ASSUME CashInv, NEW w \in Workers, CashDesk!CloseRead(w) PROVE CashInv'
<1>1. PICK old, new : old = v7[w] /\ new = [old EXCEPT !.at = "closed"]
  OBVIOUS
<1>2. old \in Teller /\ old.at = "close"
  BY <1>1 DEF CashInv, CashType, CashDesk!CloseRead, CashDesk!At
<1>3. new \in Teller /\ new.at = "closed"
  BY <1>1, <1>2, TellerGoes DEF Counting
<1>4. v7' = [v7 EXCEPT ![w] = new]
  BY <1>1 DEF CashDesk!CloseRead, CashDesk!Goes, CashInv, CashType
<1>5. /\ v7' \in [Workers -> Teller]
      /\ \A x \in Workers : v7'[x] = IF x = w THEN new ELSE v7[x]
      /\ \A x \in Workers : v7'[x].at = "row" => v7'[x].kind \in PaperKinds
      /\ Turns(v7, v7', w, old, new)
  BY <1>1, <1>3, <1>4, TellerMoves DEF CashInv
<1>6. UNCHANGED <<v1, v2, v4, v5, v6, v8, v9, v10>>
  BY DEF CashDesk!CloseRead
<1>7. PICK day, left : day = Typed(v1, DayTypes) /\ left = Typed(v1, Ignored)
  OBVIOUS
<1>8. day \in SUBSET DOMAIN v1 /\ left \in SUBSET DOMAIN v1 /\ v1 \in Seq(DrawerEntry)
  BY <1>7 DEF Typed, CashInv, CashType
<1>9. Booked(v1, day) \in Int /\ Booked(v1, left) \in Int
  BY <1>8, BookedType
<1>10. PICK read \in BOOLEAN : read = (old.counted = v6 /\ CashDesk!Settled)
  OBVIOUS
<1>11. v3' = [difference |-> old.counted - Booked(v1, day), upto |-> Len(v1), fresh |-> read]
  <2>1. CashDesk!ByType = CashDesk!Sum(day)
    BY <1>7 DEF CashDesk!ByType, CashDesk!OfType, Typed, DayTypes
  <2>2. CashDesk!ByType = Booked(v1, day)
    BY <2>1, SumIsBooked
  <2> QED BY <1>1, <1>10, <2>2 DEF CashDesk!CloseRead
<1>12. PICK total \in Int : total = old.counted
  BY <1>2 DEF Teller
<1>13. /\ v3'.difference = total - Booked(v1, day) /\ v3'.upto = Len(v1) /\ v3'.fresh = read
       /\ v3' \in [difference : Int, upto : Nat, fresh : BOOLEAN] /\ v3'.upto <= Len(v1')
  <2>1. Len(v1) \in Nat /\ Len(v1') = Len(v1)
    BY <1>6, <1>8
  <2> QED BY <1>9, <1>10, <1>11, <1>12, <2>1
<1>14. CashType'
  BY <1>5, <1>6, <1>13 DEF CashInv, CashType
<1>15. BooksOk' /\ TillOk'
  BY <1>2, <1>3, <1>5, <1>6, <1>14, HandsMove
<1>16. CloseOk'
  <2> SUFFICES ASSUME ~v9, ~v8, read, UpTo(v1, {"opening"}, Len(v1)) = {1}, v1[1].settled
               PROVE  v3'.difference = Booked(v1, UpTo(v1, Ignored, Len(v1)))
    BY <1>6, <1>13 DEF CloseOk
  <2>1. /\ 1 \in DOMAIN v1 /\ v1[1].type = "opening"
        /\ Counted(v1, 1) = day \cup left /\ day \cap left = {}
        /\ UpTo(v1, Ignored, Len(v1)) = left
    BY <1>7, TypesPart DEF CashInv
  <2>2. v6 = Booked(v1, Counted(v1, 1)) + Pending(v7)
    BY <2>1 DEF CashInv, TillOk
  <2>3. Pending(v7) = 0 /\ \A k : OnTheWay(v7, k) = 0
    <3>1. \A x \in Workers : v7[x].at \notin {"row", "genrow"}
      BY <1>10 DEF CashDesk!Settled
    <3> QED BY <3>1, NoneOnTheWay
  <2>4. Booked(v1, day \cup left) = Booked(v1, day) + Booked(v1, left)
    BY <1>8, <2>1, BookedUnion
  <2>5. total = v6
    BY <1>10, <1>12
  <2>6. v6 = Booked(v1, day) + Booked(v1, left)
    <3>1. v6 = Booked(v1, day \cup left) + Pending(v7)
      BY <2>1, <2>2
    <3> QED BY <1>9, <2>3, <2>4, <3>1
  <2>7. v3'.difference = Booked(v1, left)
    BY <1>9, <1>13, <2>5, <2>6
  <2> QED BY <2>1, <2>7
<1>17. MonthOk'
  BY <1>1, <1>2, <1>3, <1>5, <1>6, MonthStays DEF CashInv, Generating
<1>18. CountsOk' /\ ShiftsOk'
  BY <1>3, <1>5, <1>6, CountsStay, ShiftsStay DEF CashInv
<1> QED BY <1>14, <1>15, <1>16, <1>17, <1>18 DEF CashInv

LEMMA CloseWriteKeeps == ASSUME CashInv, NEW w \in Workers, CashDesk!CloseWrite(w) PROVE CashInv'
<1>1. PICK old, new : old = v7[w] /\ new = CashDesk!resting
  OBVIOUS
<1>2. old \in Teller /\ old.at = "closed"
  BY <1>1 DEF CashInv, CashType, CashDesk!CloseWrite, CashDesk!At
<1>3. new \in Teller /\ new.at = "idle"
  BY <1>1, RestingIs
<1>4. v7' = [v7 EXCEPT ![w] = new]
  BY <1>1 DEF CashDesk!CloseWrite, CashDesk!Done
<1>5. /\ v7' \in [Workers -> Teller]
      /\ \A x \in Workers : v7'[x] = IF x = w THEN new ELSE v7[x]
      /\ \A x \in Workers : v7'[x].at = "row" => v7'[x].kind \in PaperKinds
      /\ Turns(v7, v7', w, old, new)
  BY <1>1, <1>3, <1>4, TellerMoves DEF CashInv
<1>6. UNCHANGED <<v2, v3, v4, v5, v6, v8, v9, v10>>
  BY DEF CashDesk!CloseWrite
<1>7. PICK row, n : Grows(v1, row, v1', n) /\ row.type = "closing"
  <2>1. CashDesk!Row("closing", old.counted) /\ "closing" \in RowTypes /\ old.counted \in Int
    BY <1>1, <1>2 DEF CashDesk!CloseWrite, RowTypes, Teller
  <2> QED BY <2>1, RowIs DEF CashInv
<1>8. DueIn(old) = 0 /\ DueIn(new) = 0 /\ \A k : Owing(old, k) = 0 /\ Owing(new, k) = 0
  BY <1>2, <1>3 DEF DueIn, Owing
<1>9. /\ Pending(v7') = Pending(v7) - DueIn(old) + DueIn(new)
      /\ \A k : OnTheWay(v7', k) = OnTheWay(v7, k) - Owing(old, k) + Owing(new, k)
  BY <1>5, WayMoves
<1>10. Pending(v7) \in Int /\ (\A k : OnTheWay(v7, k) \in Int) /\ v6 \in Int
  BY WayType DEF CashInv, CashType
<1>11. CloseOk' /\ v3'.upto <= Len(v1')
  BY <1>6, <1>7, CloseGrows DEF CashInv
<1>12. CashType'
  <2>1. v1' \in Seq(DrawerEntry)
    BY <1>7, RowAddedType
  <2> QED BY <1>5, <1>6, <1>11, <2>1 DEF CashInv, CashType
<1>13. BooksOk'
  <2>1. ASSUME NEW k \in PaperKinds
        PROVE  OnTheWay(v7', k) = OnTheWay(v7, k) - (IF row.type = k THEN row.amount ELSE 0)
    <3>1. row.type # k
      BY <1>7 DEF PaperKinds
    <3> QED BY <1>8, <1>9, <1>10, <3>1
  <2> QED BY <1>6, <1>7, <2>1, BooksGrow DEF CashInv
<1>14. TillOk'
  <2>1. v6' = v6 + (Pending(v7') - Pending(v7))
               + (IF row.type \in {"opening", "closing"} THEN 0 ELSE row.amount)
    BY <1>6, <1>7, <1>8, <1>9, <1>10
  <2>2. row.type # "opening"
    BY <1>7
  <2> QED BY <1>6, <1>7, <2>1, <2>2, TillGrows DEF CashInv
<1>15. MonthOk'
  BY <1>1, <1>2, <1>3, <1>5, <1>6, MonthStays DEF CashInv, Generating
<1>16. CountsOk' /\ ShiftsOk'
  BY <1>3, <1>5, <1>6, CountsStay, ShiftsStay DEF CashInv
<1> QED BY <1>11, <1>12, <1>13, <1>14, <1>15, <1>16 DEF CashInv

\* A death leaves rows that do not match; the theorems say nothing after one.
LEMMA CashDieKeeps == ASSUME CashInv, CashDesk!Die PROVE CashInv'
<1>1. UNCHANGED <<v1, v2, v3, v4, v5, v6, v8, v10>> /\ v9' = TRUE
      /\ v7' = [w \in Workers |-> CashDesk!resting]
  BY DEF CashDesk!Die
<1>2. v7' \in [Workers -> Teller] /\ \A x \in Workers : v7'[x].at = "idle"
  BY <1>1, RestingIs
<1>3. CashType'
  BY <1>1, <1>2 DEF CashInv, CashType
<1>4. BooksOk' /\ MonthOk' /\ TillOk' /\ CountsOk' /\ ShiftsOk' /\ CloseOk'
  BY <1>1 DEF BooksOk, MonthOk, TillOk, CountsOk, ShiftsOk, CloseOk
<1> QED BY <1>3, <1>4 DEF CashInv

LEMMA CashSame == CashInv /\ UNCHANGED <<v1, v2, v3, v4, v5, v6, v7, v8, v9, v10>> => CashInv'
BY DEF CashInv, CashType, BooksOk, MonthOk, TillOk, CountsOk, ShiftsOk, CloseOk

LEMMA CashNext == CashInv /\ CashDesk!Next => CashInv'
<1> SUFFICES ASSUME CashInv, CashDesk!Next PROVE CashInv'
  OBVIOUS
<1>1. ASSUME NEW w \in Workers, NEW kind \in CashMoves \cap CashDesk!Kinds, CashDesk!Enter(w, kind)
      PROVE  CashInv'
  BY <1>1, EnterKeeps
<1>2. ASSUME NEW w \in Workers,
             \/ CashDesk!DrawerRow(w) \/ CashDesk!GenerateRead(w) \/ CashDesk!GenerateInsert(w)
             \/ CashDesk!GenerateRow(w) \/ CashDesk!GenerateMark(w)
      PROVE  CashInv'
  BY <1>2, DrawerRowKeeps, GenerateReadKeeps, GenerateInsertKeeps, GenerateRowKeeps, GenerateMarkKeeps
<1>3. ASSUME NEW w \in Workers,
             \/ CashDesk!StartShift(w) \/ CashDesk!OpenDrawer(w) \/ CashDesk!SecondShift(w)
             \/ CashDesk!EndShiftRead(w) \/ CashDesk!EndShiftWrite(w) \/ CashDesk!StartClose(w)
             \/ CashDesk!CloseRead(w) \/ CashDesk!CloseWrite(w)
      PROVE  CashInv'
  BY <1>3, StartShiftKeeps, OpenDrawerKeeps, SecondShiftKeeps, EndShiftReadKeeps,
     EndShiftWriteKeeps, StartCloseKeeps, CloseReadKeeps, CloseWriteKeeps
<1>4. ASSUME NEW type \in CashMoves \ CashDesk!Kinds, CashDesk!Move(type) PROVE CashInv'
  BY <1>4, MoveKeeps
<1> QED BY <1>1, <1>2, <1>3, <1>4, RemovalKeeps, CashDieKeeps DEF CashDesk!Next

LEMMA CashInit == CashDesk!Init => CashInv
<1> SUFFICES ASSUME CashDesk!Init PROVE CashInv
  OBVIOUS
<1>1. /\ v1 = <<>> /\ v2 = <<>> /\ v3 = [difference |-> 0, upto |-> 0, fresh |-> FALSE]
      /\ v5 = [rows |-> 0, marked |-> FALSE] /\ v6 = TillFloat
      /\ v7 = [w \in Workers |-> CashDesk!resting]
      /\ v8 = FALSE /\ v9 = FALSE /\ v10 = 0
  BY DEF CashDesk!Init
<1>2. v4 = [k \in PaperKinds |-> 0]
  <2>1. CashDesk!Kinds = PaperKinds
    BY DEF CashDesk!Kinds, CashDesk!Paid, CashDesk!Received, PaperKinds
  <2> QED BY <2>1 DEF CashDesk!Init
<1>3. v7 \in [Workers -> Teller] /\ \A w \in Workers : v7[w].at = "idle"
  BY <1>1, RestingIs
<1>4. v1 \in Seq(DrawerEntry) /\ v2 \in Seq(ShiftEntry) /\ Len(v1) = 0 /\ DOMAIN v1 = {} /\ DOMAIN v2 = {}
  BY <1>1
<1>5. v3 \in [difference : Int, upto : Nat, fresh : BOOLEAN] /\ v3.upto = 0 /\ v3.fresh = FALSE
  BY <1>1
<1>6. v5 \in [rows : Nat, marked : BOOLEAN] /\ v5.rows = 0 /\ v5.marked = FALSE
  BY <1>1
<1>7. v4 \in [PaperKinds -> Int]
  BY <1>2
<1>8. CashType
  <2>1. v6 \in Int /\ v10 \in Int
    BY <1>1, OfficeAssumption
  <2>4. v8 \in BOOLEAN /\ v9 \in BOOLEAN
    BY <1>1
  <2>2. v3.upto <= Len(v1)
    BY <1>4, <1>5
  <2>3. \A w \in Workers : v7[w].at = "row" => v7[w].kind \in PaperKinds
    BY <1>3
  <2> QED BY <1>3, <1>4, <1>5, <1>6, <1>7, <2>1, <2>2, <2>3, <2>4 DEF CashType
<1>9. BooksOk
  <2>1. ASSUME NEW k \in PaperKinds PROVE Booked(v1, Typed(v1, {k})) + OnTheWay(v7, k) = Adjusted(v4, v10, k)
    <3>1. Typed(v1, {k}) = {}
      BY <1>4 DEF Typed
    <3>2. Booked(v1, {}) = 0
      BY SumEmpty DEF Booked
    <3>3. Pending(v7) = 0 /\ \A j : OnTheWay(v7, j) = 0
      BY <1>3, NoneOnTheWay
    <3>4. Adjusted(v4, v10, k) = 0
      BY <1>1, <1>2 DEF Adjusted
    <3> QED BY <3>1, <3>2, <3>3, <3>4
  <2> QED BY <2>1 DEF BooksOk
<1>10. MonthOk
  BY <1>3, <1>6 DEF MonthOk, Generating
<1>11. TillOk /\ ShiftsOk
  BY <1>4 DEF TillOk, ShiftsOk
<1>12. CountsOk /\ CloseOk
  BY <1>3, <1>5 DEF CountsOk, CloseOk
<1> QED BY <1>8, <1>9, <1>10, <1>11, <1>12 DEF CashInv

LEMMA CashBooks == CashInv => CashDesk!BooksReconcile
<1> SUFFICES ASSUME CashInv, CashDesk!Quiet, ~v9
             PROVE  /\ \A k \in CashDesk!Kinds :
                          CashDesk!Sum(CashDesk!OfType({k})) = v4[k] - (IF k = "expense" THEN v10 ELSE 0)
                    /\ ~v8 => v5.rows <= 1
  BY DEF CashDesk!BooksReconcile
<1>1. \A w \in Workers : v7[w].at = "idle"
  BY DEF CashDesk!Quiet, CashDesk!At
<1>2. Pending(v7) = 0 /\ \A k : OnTheWay(v7, k) = 0
  BY <1>1, NoneOnTheWay
<1>3. ASSUME NEW k \in CashDesk!Kinds
      PROVE  CashDesk!Sum(CashDesk!OfType({k})) = v4[k] - (IF k = "expense" THEN v10 ELSE 0)
  <2>1. k \in PaperKinds
    BY DEF CashDesk!Kinds, CashDesk!Paid, CashDesk!Received, PaperKinds
  <2>2. PICK places : places = Typed(v1, {k})
    OBVIOUS
  <2>3. CashDesk!OfType({k}) = places
    BY <2>2 DEF CashDesk!OfType, Typed
  <2>4. CashDesk!Sum(places) = Booked(v1, places)
    BY SumIsBooked
  <2>5. places \in SUBSET DOMAIN v1 /\ v1 \in Seq(DrawerEntry)
    BY <2>2 DEF Typed, CashInv, CashType
  <2>6. Booked(v1, places) \in Int
    BY <2>5, BookedType
  <2>7. Booked(v1, places) + OnTheWay(v7, k) = Adjusted(v4, v10, k)
    BY <2>1, <2>2 DEF CashInv, BooksOk
  <2> QED BY <1>2, <2>3, <2>4, <2>6, <2>7 DEF Adjusted
<1>4. ~v8 => v5.rows <= 1
  BY <1>1 DEF CashInv, MonthOk, Generating
<1> QED BY <1>3, <1>4

LEMMA CashHonest == CashInv => CashDesk!HonestCountBalances
<1> SUFFICES ASSUME CashInv, ~v9, ~v8 PROVE CashDesk!HonestCountBalances
  BY DEF CashDesk!HonestCountBalances
<1>1. \A s \in DOMAIN v2 : v2[s].fresh => v2[s].variance = 0
  BY DEF CashInv, ShiftsOk
<1>2. {i \in CashDesk!OfType({"opening"}) : i <= v3.upto} = UpTo(v1, {"opening"}, v3.upto)
  BY DEF CashDesk!OfType, UpTo, Typed
<1>3. {i \in CashDesk!OfType(Ignored) : i <= v3.upto} = UpTo(v1, Ignored, v3.upto)
  BY DEF CashDesk!OfType, UpTo, Typed
<1>4. PICK late : late = UpTo(v1, Ignored, v3.upto)
  OBVIOUS
<1>5. v3.fresh /\ UpTo(v1, {"opening"}, v3.upto) = {1} /\ v1[1].settled => v3.difference = CashDesk!Sum(late)
  <2>1. CashDesk!Sum(late) = Booked(v1, late)
    BY SumIsBooked
  <2> QED BY <1>4, <2>1 DEF CashInv, CloseOk
<1> QED BY <1>1, <1>2, <1>3, <1>4, <1>5 DEF CashDesk!HonestCountBalances, Ignored

-----------------------------------------------------------------------------
(***************************************************************************)
(* Backups and restores.  v1 = live, v2 = disk, v3 = shelf, v4 = inner,    *)
(* v6 = written, v7 = activated, v8 = worker, v9 = slipped, v10 = mishap.  *)
(* A request about to overwrite the database has all that is in it in a    *)
(* copy; from its first look on it holds the license it will put back.     *)
(***************************************************************************)
Licenses == {"none", "own", "foreign"}
Database == [data : SUBSET Nat, license : Licenses, whole : BOOLEAN]
Kind == {"upload", "safety", "file", "full", "gone"}
ShelfEntry == [kind : Kind, content : Database]
Stages == {"idle", "scrub", "prune", "safety", "snapshot", "license", "overwrite", "reapply"}
Keeper == [at : Stages, from : Nat, copy : Nat, saved : Licenses]

VaultType ==
    /\ v1 \in Database /\ v2 \in Database
    /\ v3 \in Seq(ShelfEntry) /\ v4 \in Seq(SUBSET Nat)
    /\ v6 \in Nat /\ v7 \in BOOLEAN
    /\ v8 \in [Workers -> Keeper]
    /\ \A w \in Workers : /\ v8[w].at \notin {"idle", "prune", "reapply"} => v8[w].from \in 1 .. Len(v3)
                          /\ v8[w].copy <= Len(v3)

Owned == IF v7 THEN "own" ELSE "none"
ToCome == {"license", "overwrite"}     \* the copy is made, the overwriting to come
Carrying == {"safety", "overwrite", "reapply"}

WritesOk == "copy" \notin v10 =>
    /\ 1 .. v6 \ v9 \subseteq v1.data \cup Backups!Copies
    /\ (\E w \in Workers : v8[w].at \in ToCome) => 1 .. v6 \ v9 \subseteq Backups!Copies

LicenseOk == "license" \notin v10 =>
    /\ (\A w \in Workers : v8[w].at # "reapply") => v1.license = Owned
    /\ \A w \in Workers : v8[w].at \in Carrying => v8[w].saved = Owned

ScrubOk == "scrub" \notin v10 => \A e \in 1 .. Len(v3) : v3[e].kind = "file" =>
    v3[e].content.license = "none" \/ \E w \in Workers : v8[w].at = "scrub" /\ v8[w].from = e

VaultInv == VaultType /\ WritesOk /\ LicenseOk /\ ScrubOk

Emptied == Backups!Entry("gone", Backups!Empty)    \* what is left of a deleted entry

LEMMA NewTyped == Backups!New \in Database /\ Backups!New.data = {}
BY DEF Backups!New, Database, Licenses

LEMMA EmptiedTyped == Emptied \in ShelfEntry /\ Emptied.kind = "gone"
<1>1. Backups!Empty \in Database
  BY NewTyped DEF Backups!Empty, Database
<1> QED BY <1>1 DEF Emptied, Backups!Entry, ShelfEntry, Kind

LEMMA IdleTyped == Backups!idle \in Keeper /\ Backups!idle.at = "idle" /\ Backups!idle.copy = 0
BY DEF Backups!idle, Keeper, Stages, Licenses

\* What is in a copy stays there while no copy goes.
LEMMA CopiesStay ==
    ASSUME \A e \in DOMAIN v3 : v3[e].kind = "safety" => e \in DOMAIN v3' /\ v3'[e] = v3[e],
           \A i \in DOMAIN v4 : i \in DOMAIN v4' /\ v4'[i] = v4[i]
    PROVE  Backups!Copies \subseteq Backups!Copies'
BY DEF Backups!Copies, Backups!OfKind

LEMMA WritesKeep ==
    ASSUME WritesOk, v6' = v6, v9 \subseteq v9',
           "copy" \notin v10' =>
                /\ "copy" \notin v10
                /\ Backups!Copies \subseteq Backups!Copies'
                /\ v1.data \subseteq v1'.data \cup Backups!Copies',
           \A w \in Workers : v8'[w].at \in ToCome => v8[w].at \in ToCome
    PROVE  WritesOk'
BY DEF WritesOk

LEMMA LicenseKeeps ==
    ASSUME LicenseOk, v7' = v7,
           "license" \notin v10' => "license" \notin v10 /\ v1'.license = v1.license,
           \A w \in Workers :
              /\ v8[w].at = "reapply" => v8'[w].at = "reapply"
              /\ v8'[w].at \in Carrying => v8[w].at \in Carrying /\ v8'[w].saved = v8[w].saved
    PROVE  LicenseOk'
BY DEF LicenseOk, Owned

LEMMA ScrubKeeps ==
    ASSUME ScrubOk, "scrub" \notin v10' => "scrub" \notin v10,
           \A e \in 1 .. Len(v3') : v3'[e].kind = "file" =>
              /\ e \in 1 .. Len(v3) /\ v3[e].kind = "file"
              /\ v3'[e].content.license \in {"none", v3[e].content.license},
           \A w \in Workers : v8[w].at = "scrub" => v8'[w] = v8[w]
    PROVE  ScrubOk'
BY DEF ScrubOk

\* A request takes its next place.
LEMMA KeeperMoves ==
    ASSUME v8 \in [Workers -> Keeper], NEW w \in Workers, NEW r \in Keeper,
           v8' = [v8 EXCEPT ![w] = r]
    PROVE  /\ v8' \in [Workers -> Keeper]
           /\ v8'[w] = r
           /\ \A x \in Workers \ {w} : v8'[x] = v8[x]
OBVIOUS

\* An entry is put at the end of the shelf.
LEMMA ShelfGrows ==
    ASSUME v3 \in Seq(ShelfEntry), NEW s \in ShelfEntry, v3' = Append(v3, s)
    PROVE  /\ v3' \in Seq(ShelfEntry) /\ Len(v3') = Len(v3) + 1
           /\ v3'[Len(v3) + 1] = s
           /\ \A e \in 1 .. Len(v3) : v3'[e] = v3[e]
OBVIOUS

\* Types are kept if entries stay and hands point at entries.
LEMMA VaultTyped ==
    ASSUME VaultType, v1' \in Database, v2' \in Database,
           v3' \in Seq(ShelfEntry), Len(v3') >= Len(v3), v4' \in Seq(SUBSET Nat),
           v6' \in Nat, v7' \in BOOLEAN, v8' \in [Workers -> Keeper],
           \A w \in Workers : v8'[w] # v8[w] =>
              /\ v8'[w].at \notin {"idle", "prune", "reapply"} => v8'[w].from \in 1 .. Len(v3')
              /\ v8'[w].copy <= Len(v3')
    PROVE  VaultType'
<1>1. ASSUME NEW w \in Workers
      PROVE  /\ v8'[w].at \notin {"idle", "prune", "reapply"} => v8'[w].from \in 1 .. Len(v3')
             /\ v8'[w].copy <= Len(v3')
  <2>1. CASE v8'[w] = v8[w]
    <3>1. v8[w] \in Keeper
      BY DEF VaultType
    <3>2. v8[w].copy \in Nat /\ Len(v3) \in Nat /\ Len(v3') \in Nat
      BY <3>1 DEF VaultType, Keeper
    <3> QED BY <2>1, <3>2 DEF VaultType
  <2>2. CASE v8'[w] # v8[w]
    BY <2>2
  <2> QED BY <2>1, <2>2
<1> QED BY <1>1 DEF VaultType

LEMMA VaultSame == ASSUME VaultInv, UNCHANGED allVars PROVE VaultInv'
BY DEF VaultInv, VaultType, WritesOk, LicenseOk, ScrubOk, Owned, allVars, Backups!Copies, Backups!OfKind

-----------------------------------------------------------------------------
(***************************************************************************)
(* The shop.                                                               *)
(***************************************************************************)
LEMMA VaultStart == Backups!Init => VaultInv
<1> SUFFICES ASSUME Backups!Init PROVE VaultInv
  OBVIOUS
<1>1. /\ v1 = [data |-> {}, license |-> "none", whole |-> TRUE] /\ v2 = v1
      /\ v3 = <<>> /\ v4 = <<>> /\ v6 = 0 /\ v7 = FALSE /\ v9 = {} /\ v10 = {}
      /\ v8 = [w \in Workers |-> [at |-> "idle", from |-> 0, copy |-> 0, saved |-> "none"]]
  BY DEF Backups!Init, Backups!New, Backups!idle
<1>2. VaultType
  <2>1. /\ <<>> \in Seq(ShelfEntry) /\ <<>> \in Seq(SUBSET Nat)
        /\ [at |-> "idle", from |-> 0, copy |-> 0, saved |-> "none"] \in Keeper
    BY DEF Keeper, Stages, Licenses
  <2>2. v1 \in Database
    BY <1>1 DEF Database, Licenses
  <2>3. v8 \in [Workers -> Keeper]
    BY <1>1, <2>1
  <2>4. \A w \in Workers : v8[w].at = "idle" /\ v8[w].copy = 0
    BY <1>1
  <2>5. v3 \in Seq(ShelfEntry) /\ v4 \in Seq(SUBSET Nat) /\ Len(v3) = 0
    BY <1>1, <2>1
  <2>6. v6 \in Nat /\ v7 \in BOOLEAN
    BY <1>1
  <2>7. \A w \in Workers : /\ v8[w].at \in {"idle", "prune", "reapply"}
                           /\ v8[w].copy <= Len(v3)
    BY <2>4, <2>5
  <2> QED BY <1>1, <2>2, <2>3, <2>5, <2>6, <2>7 DEF VaultType
<1>3. WritesOk /\ LicenseOk /\ ScrubOk
  BY <1>1 DEF WritesOk, LicenseOk, ScrubOk, Owned, ToCome, Carrying
<1> QED BY <1>2, <1>3 DEF VaultInv

LEMMA WriteKeeps == ASSUME VaultInv, Backups!Write PROVE VaultInv'
<1>1. /\ v6' = v6 + 1 /\ v1' = [v1 EXCEPT !.data = @ \cup {v6 + 1}]
      /\ v9' = IF \E w \in Workers : v8[w].at \in ToCome THEN v9 \cup {v6 + 1} ELSE v9
      /\ v2' = v2 /\ v3' = v3 /\ v4' = v4 /\ v7' = v7 /\ v8' = v8 /\ v10' = v10
  BY DEF Backups!Write, Backups!Someone, ToCome
<1>2. VaultType /\ v1 \in Database /\ v6 \in Nat
  BY DEF VaultInv, VaultType
<1>3. v1' \in Database /\ v1'.data = v1.data \cup {v6 + 1} /\ v1'.license = v1.license
  BY <1>1, <1>2 DEF Database
<1>4. VaultType'
  BY <1>1, <1>2, <1>3 DEF VaultType
<1>5. Backups!Copies' = Backups!Copies
  BY <1>1 DEF Backups!Copies, Backups!OfKind
<1>6. WritesOk'
  <2>1. 1 .. v6' = 1 .. v6 \cup {v6 + 1}
    BY <1>1, <1>2
  <2>2. v6 + 1 \in v1'.data /\ v1.data \subseteq v1'.data
    BY <1>3
  <2> QED BY <1>1, <1>5, <2>1, <2>2 DEF VaultInv, WritesOk
<1>7. LicenseOk' /\ ScrubOk'
  BY <1>1, <1>3 DEF VaultInv, LicenseOk, ScrubOk, Owned
<1> QED BY <1>4, <1>6, <1>7 DEF VaultInv

LEMMA CheckpointKeeps == ASSUME VaultInv, Backups!Checkpoint PROVE VaultInv'
BY DEF VaultInv, VaultType, WritesOk, LicenseOk, ScrubOk, Owned, Backups!Checkpoint, Backups!others,
       Backups!Copies, Backups!OfKind

LEMMA ActivateKeeps == ASSUME VaultInv, Backups!Activate PROVE VaultInv'
<1>1. /\ v1' = [v1 EXCEPT !.license = "own"] /\ v7' = TRUE
      /\ v10' = IF \E w \in Workers : v8[w].at # "idle" THEN v10 \cup {"license"} ELSE v10
      /\ UNCHANGED <<v2, v3, v4, v5, v6, v8, v9>>
  BY DEF Backups!Activate, Backups!At
<1>2. VaultType /\ v1 \in Database
  BY DEF VaultInv, VaultType
<1>3. v1' \in Database /\ v1'.data = v1.data /\ v1'.license = "own"
  BY <1>1, <1>2 DEF Database, Licenses
<1>4. VaultType'
  BY <1>1, <1>2, <1>3 DEF VaultType
<1>5. Backups!Copies' = Backups!Copies
  BY <1>1 DEF Backups!Copies, Backups!OfKind
<1>6. WritesOk'
  BY <1>1, <1>3, <1>5 DEF VaultInv, WritesOk
<1>7. LicenseOk'
  BY <1>1, <1>3 DEF LicenseOk, Owned, Carrying
<1>8. ScrubOk'
  BY <1>1 DEF VaultInv, ScrubOk
<1> QED BY <1>4, <1>6, <1>7, <1>8 DEF VaultInv

LEMMA BootKeepsVault == ASSUME VaultInv, Backups!Boot PROVE VaultInv'
<1> DEFINE idle == [at |-> "idle", from |-> 0, copy |-> 0, saved |-> "none"]
<1>1. /\ v8' = [w \in Workers |-> idle] /\ v1' = [v1 EXCEPT !.whole = TRUE]
      /\ "license" \notin v10' => "license" \notin v10 /\ \A w \in Workers : v8[w].at # "reapply"
      /\ "scrub" \notin v10' => "scrub" \notin v10 /\ \A w \in Workers : v8[w].at # "scrub"
      /\ "copy" \notin v10' => "copy" \notin v10
      /\ UNCHANGED <<v2, v3, v4, v5, v6, v7, v9>>
  BY DEF Backups!Boot, Backups!Someone, Backups!others, Backups!idle
<1>2. VaultType /\ v1 \in Database
  BY DEF VaultInv, VaultType
<1>3. v1' \in Database /\ v1'.data = v1.data /\ v1'.license = v1.license
  BY <1>1, <1>2 DEF Database
<1>4. VaultType'
  BY <1>1, <1>2, <1>3 DEF VaultType, Keeper, Stages, Licenses
<1>5. Backups!Copies' = Backups!Copies
  BY <1>1 DEF Backups!Copies, Backups!OfKind
<1>6. \A w \in Workers : v8'[w].at = "idle"
  BY <1>1
<1>7. WritesOk'
  BY <1>1, <1>3, <1>5, <1>6 DEF VaultInv, WritesOk, ToCome
<1>8. LicenseOk'
  BY <1>1, <1>3, <1>6 DEF VaultInv, LicenseOk, Owned, Carrying
<1>9. ScrubOk'
  BY <1>1 DEF VaultInv, ScrubOk
<1> QED BY <1>4, <1>7, <1>8, <1>9 DEF VaultInv


-----------------------------------------------------------------------------
(***************************************************************************)
(* Backups.                                                                *)
(***************************************************************************)
LEMMA UploadKeeps == ASSUME VaultInv, Backups!UploadBackup PROVE VaultInv'
<1>10. PICK content : content = [Backups!New EXCEPT !.license = "foreign"]
  OBVIOUS
<1>1. /\ v3' = Append(v3, [kind |-> "upload", content |-> content])
      /\ UNCHANGED <<v1, v2, v4, v5, v6, v7, v8, v9, v10>>
  BY <1>10 DEF Backups!UploadBackup, Backups!MakeEntry, Backups!Entry, Backups!others
<1>2. VaultType /\ v3 \in Seq(ShelfEntry)
  BY DEF VaultInv, VaultType
<1>3. [kind |-> "upload", content |-> content] \in ShelfEntry
  <2>1. content \in Database
    BY <1>10, NewTyped DEF Database, Licenses
  <2> QED BY <2>1 DEF ShelfEntry, Kind
<1>4. /\ v3' \in Seq(ShelfEntry) /\ Len(v3') = Len(v3) + 1
      /\ v3'[Len(v3) + 1] = [kind |-> "upload", content |-> content]
      /\ \A e \in 1 .. Len(v3) : v3'[e] = v3[e]
  BY <1>1, <1>2, <1>3, ShelfGrows
<1>5. VaultType'
  <2>1. /\ v1 \in Database /\ v2 \in Database /\ v4 \in Seq(SUBSET Nat) /\ v6 \in Nat /\ v7 \in BOOLEAN
        /\ v8 \in [Workers -> Keeper] /\ Len(v3) \in Nat
    BY <1>2 DEF VaultType
  <2> QED BY <1>1, <1>2, <1>4, <2>1, VaultTyped
<1>6. Backups!Copies \subseteq Backups!Copies'
  BY <1>1, <1>2, <1>4, CopiesStay
<1>7. WritesOk'
  BY <1>1, <1>6, WritesKeep DEF VaultInv
<1>8. LicenseOk'
  BY <1>1, LicenseKeeps DEF VaultInv
<1>9. ScrubOk'
  BY <1>1, <1>2, <1>4, ScrubKeeps DEF VaultInv
<1> QED BY <1>5, <1>7, <1>8, <1>9 DEF VaultInv

LEMMA BackupNowKeeps == ASSUME VaultInv, Backups!BackupNow PROVE VaultInv'
<1> DEFINE new == [kind |-> "full", content |-> v2]
<1>1. VaultType /\ v3 \in Seq(ShelfEntry) /\ v2 \in Database
  BY DEF VaultInv, VaultType
<1>12. PICK book : book = Append(v3, new)
  OBVIOUS
<1>13. PICK over : over = {e \in DOMAIN book : /\ book[e].kind \notin {"file", "gone"}
                                              /\ Backups!After(book, e) >= KeptBackups}
  OBVIOUS
<1>2. /\ over \in SUBSET {e \in DOMAIN book : book[e].kind \notin {"file", "gone"}}
      /\ v3' = [e \in DOMAIN book |-> IF e \in over THEN Emptied ELSE book[e]]
      /\ "copy" \notin v10' => /\ "copy" \notin v10 /\ v4' = v4
                               /\ \A e \in over : e \in DOMAIN v3 => v3[e].kind # "safety"
      /\ v4' \in {v4, <<>>}
      /\ "license" \in v10 <=> "license" \in v10'
      /\ "scrub" \in v10 <=> "scrub" \in v10'
      /\ UNCHANGED <<v1, v2, v6, v7, v8, v9>>
  <2>1. /\ v3' = [e \in DOMAIN book |-> IF e \in over THEN Emptied ELSE book[e]]
        /\ UNCHANGED <<v1, v2, v6, v7, v8, v9>>
    BY <1>12, <1>13 DEF Backups!BackupNow, Backups!Entry, Emptied
  <2>2. PICK folderOver \in BOOLEAN :
           /\ v4' = IF folderOver THEN <<>> ELSE v4
           /\ v10' = IF over \cap Backups!OfKind("safety") # {} \/ folderOver
                     THEN v10 \cup {"copy"} ELSE v10
    BY <1>12, <1>13 DEF Backups!BackupNow, Backups!Entry
  <2>3. "copy" \notin v10' => /\ "copy" \notin v10 /\ v4' = v4
                              /\ \A e \in over : e \in DOMAIN v3 => v3[e].kind # "safety"
    BY <2>2 DEF Backups!OfKind
  <2> QED BY <1>13, <2>1, <2>2, <2>3
<1>3. /\ new \in ShelfEntry /\ Emptied \in ShelfEntry
  BY <1>1, EmptiedTyped DEF ShelfEntry, Kind
<1>4. /\ book \in Seq(ShelfEntry) /\ DOMAIN book = 1 .. Len(v3) + 1
      /\ book[Len(v3) + 1] = new
      /\ \A e \in 1 .. Len(v3) : book[e] = v3[e]
  BY <1>1, <1>12, <1>3
<1>5. /\ v3' \in Seq(ShelfEntry) /\ Len(v3') = Len(v3) + 1
      /\ v3'[Len(v3) + 1] \in {Emptied, new}
      /\ \A e \in 1 .. Len(v3) : v3'[e] = IF e \in over THEN Emptied ELSE v3[e]
  <2>1. \A e \in 1 .. Len(v3) + 1 : v3'[e] \in ShelfEntry
    BY <1>2, <1>3, <1>4
  <2>2. v3' \in Seq(ShelfEntry) /\ Len(v3') = Len(v3) + 1
    BY <1>1, <1>2, <1>4, <2>1
  <2> QED BY <1>2, <1>4, <2>2
<1>6. VaultType'
  <2>1. /\ v1 \in Database /\ v2 \in Database /\ v4 \in Seq(SUBSET Nat) /\ v6 \in Nat /\ v7 \in BOOLEAN
        /\ v8 \in [Workers -> Keeper] /\ Len(v3) \in Nat /\ <<>> \in Seq(SUBSET Nat)
    BY <1>1 DEF VaultType
  <2>2. v4' \in Seq(SUBSET Nat)
    BY <1>2, <2>1
  <2> QED BY <1>1, <1>2, <1>5, <2>1, <2>2, VaultTyped
<1>7. ASSUME "copy" \notin v10' PROVE Backups!Copies \subseteq Backups!Copies'
  <2>1. DOMAIN v3 = 1 .. Len(v3) /\ DOMAIN v3' = 1 .. Len(v3') /\ Len(v3) \in Nat
    BY <1>1, <1>5
  <2>2. \A e \in DOMAIN v3 : v3[e].kind = "safety" => e \in DOMAIN v3' /\ v3'[e] = v3[e]
    BY <1>2, <1>5, <1>7, <2>1
  <2>3. \A i \in DOMAIN v4 : i \in DOMAIN v4' /\ v4'[i] = v4[i]
    BY <1>2, <1>7
  <2> QED BY <2>2, <2>3, CopiesStay
<1>8. WritesOk'
  BY <1>2, <1>7, WritesKeep DEF VaultInv
<1>9. LicenseOk'
  BY <1>2, LicenseKeeps DEF VaultInv
<1>10. ScrubOk'
  <2>1. \A e \in 1 .. Len(v3') : v3'[e].kind = "file" => e \in 1 .. Len(v3) /\ v3'[e] = v3[e]
    BY <1>1, <1>5, EmptiedTyped
  <2> QED BY <1>2, <2>1, ScrubKeeps DEF VaultInv
<1> QED BY <1>6, <1>8, <1>9, <1>10 DEF VaultInv

LEMMA SnapshotKeeps ==
    ASSUME VaultInv, NEW w \in Workers, Backups!BackupSnapshot(w) PROVE VaultInv'
<1> DEFINE new == [kind |-> "file", content |-> v1]
<1>12. PICK r : r = [Backups!idle EXCEPT !.at = "scrub", !.from = Len(v3) + 1]
  OBVIOUS
<1>1. /\ v3' = Append(v3, new) /\ v8' = [v8 EXCEPT ![w] = r] /\ v8[w].at = "idle"
      /\ UNCHANGED <<v1, v2, v4, v5, v6, v7, v9, v10>>
  BY <1>12 DEF Backups!BackupSnapshot, Backups!MakeEntry, Backups!Entry, Backups!others, Backups!At
<1>2. VaultType /\ v3 \in Seq(ShelfEntry) /\ v1 \in Database /\ v8 \in [Workers -> Keeper]
  BY DEF VaultInv, VaultType
<1>3. /\ new \in ShelfEntry
      /\ r \in Keeper /\ r.at = "scrub" /\ r.from = Len(v3) + 1 /\ r.copy = 0
  <2>1. Len(v3) + 1 \in Nat
    BY <1>2
  <2> QED BY <1>2, <1>12, <2>1, IdleTyped DEF ShelfEntry, Kind, Keeper, Stages
<1>4. /\ v3' \in Seq(ShelfEntry) /\ Len(v3') = Len(v3) + 1 /\ v3'[Len(v3) + 1] = new
      /\ \A e \in 1 .. Len(v3) : v3'[e] = v3[e]
  BY <1>1, <1>2, <1>3, ShelfGrows
<1>5. /\ v8' \in [Workers -> Keeper] /\ v8'[w] = r
      /\ \A x \in Workers \ {w} : v8'[x] = v8[x]
  BY <1>1, <1>2, <1>3, KeeperMoves
<1>6. VaultType'
  <2>1. /\ v1 \in Database /\ v2 \in Database /\ v4 \in Seq(SUBSET Nat) /\ v6 \in Nat /\ v7 \in BOOLEAN
        /\ Len(v3) \in Nat
    BY <1>2 DEF VaultType
  <2> QED BY <1>1, <1>2, <1>3, <1>4, <1>5, <2>1, VaultTyped
<1>7. Backups!Copies \subseteq Backups!Copies'
  BY <1>1, <1>2, <1>4, CopiesStay
<1>8. WritesOk'
  BY <1>1, <1>3, <1>5, <1>7, WritesKeep DEF VaultInv, ToCome
<1>9. LicenseOk'
  BY <1>1, <1>3, <1>5, LicenseKeeps DEF VaultInv, Carrying
<1>10. ScrubOk'
  BY <1>1, <1>2, <1>3, <1>4, <1>5 DEF VaultInv, ScrubOk
<1> QED BY <1>6, <1>8, <1>9, <1>10 DEF VaultInv

LEMMA ScrubbingKeeps ==
    ASSUME VaultInv, NEW w \in Workers, NEW ok \in BOOLEAN, Backups!BackupScrub(w, ok) PROVE VaultInv'
<1>1. PICK r : r = [v8[w] EXCEPT !.at = "prune"]
  OBVIOUS
<1>2. /\ v8[w].at = "scrub" /\ v8' = [v8 EXCEPT ![w] = r]
      /\ IF ok THEN v3' = [v3 EXCEPT ![v8[w].from].content.license = "none"] /\ v10' = v10
               ELSE v3' = v3 /\ v10' = v10 \cup {"scrub"}
      /\ UNCHANGED <<v1, v2, v4, v5, v6, v7, v9>>
  BY <1>1 DEF Backups!BackupScrub, Backups!others, Backups!At, Backups!Fails
<1>3. /\ VaultType /\ v3 \in Seq(ShelfEntry) /\ v8 \in [Workers -> Keeper] /\ v8[w] \in Keeper
      /\ v8[w].from \in 1 .. Len(v3)
  BY <1>2 DEF VaultInv, VaultType
<1>4. r \in Keeper /\ r.at = "prune" /\ r.copy = v8[w].copy /\ r.from = v8[w].from
  BY <1>1, <1>3 DEF Keeper, Stages
<1>5. /\ v8' \in [Workers -> Keeper] /\ v8'[w] = r
      /\ \A x \in Workers \ {w} : v8'[x] = v8[x]
  BY <1>2, <1>3, <1>4, KeeperMoves
<1>6. /\ v3' \in Seq(ShelfEntry) /\ Len(v3') = Len(v3)
      /\ \A e \in 1 .. Len(v3) : e # v8[w].from => v3'[e] = v3[e]
      /\ v3'[v8[w].from].kind = v3[v8[w].from].kind
      /\ v3'[v8[w].from].content.data = v3[v8[w].from].content.data
      /\ v3'[v8[w].from].content.license = IF ok THEN "none" ELSE v3[v8[w].from].content.license
  <2>1. CASE ok
    <3>1. PICK n : n = v8[w].from
      OBVIOUS
    <3>2. PICK s : s = [v3[n] EXCEPT !.content.license = "none"]
      OBVIOUS
    <3>3. v3[n] \in ShelfEntry
      BY <1>3, <3>1
    <3>4. /\ s \in ShelfEntry /\ s.kind = v3[n].kind /\ s.content.data = v3[n].content.data
          /\ s.content.license = "none"
      BY <3>2, <3>3 DEF ShelfEntry, Database, Licenses
    <3>5. v3' = [v3 EXCEPT ![n] = s]
      BY <1>2, <2>1, <3>1, <3>2
    <3>6. /\ v3' \in Seq(ShelfEntry) /\ Len(v3') = Len(v3) /\ v3'[n] = s
          /\ \A e \in 1 .. Len(v3) : e # n => v3'[e] = v3[e]
      BY <1>3, <3>1, <3>4, <3>5
    <3> QED BY <2>1, <3>1, <3>4, <3>6
  <2>2. CASE ~ok
    BY <1>2, <1>3, <2>2
  <2> QED BY <2>1, <2>2
<1>7. VaultType'
  BY <1>2, <1>3, <1>4, <1>5, <1>6 DEF VaultType
<1>8. Backups!Copies \subseteq Backups!Copies'
  <2>1. \A e \in DOMAIN v3 : v3[e].kind = "safety" =>
            e \in DOMAIN v3' /\ v3'[e].kind = "safety" /\ v3'[e].content.data = v3[e].content.data
    BY <1>3, <1>6
  <2> QED BY <1>2, <2>1 DEF Backups!Copies, Backups!OfKind
<1>9. WritesOk'
  BY <1>2, <1>4, <1>5, <1>8, WritesKeep DEF VaultInv, ToCome
<1>10. LicenseOk'
  BY <1>2, <1>4, <1>5, LicenseKeeps DEF VaultInv, Carrying
<1>11. ScrubOk'
  BY <1>2, <1>3, <1>4, <1>5, <1>6 DEF VaultInv, ScrubOk
<1> QED BY <1>7, <1>9, <1>10, <1>11 DEF VaultInv

LEMMA PruneKeeps ==
    ASSUME VaultInv, NEW w \in Workers, Backups!BackupPrune(w) PROVE VaultInv'
<1>12. PICK r : r = Backups!idle
  OBVIOUS
<1>1. /\ v8[w].at = "prune" /\ v8' = [v8 EXCEPT ![w] = r]
      /\ UNCHANGED <<v1, v2, v4, v5, v6, v7, v9, v10>>
  BY <1>12 DEF Backups!BackupPrune, Backups!others, Backups!At, Backups!Done
<1>2. PICK over \in SUBSET {e \in DOMAIN v3 : v3[e].kind = "file"} :
         v3' = [e \in DOMAIN v3 |-> IF e \in over THEN Emptied ELSE v3[e]]
  <2>1. PICK over : over = Backups!OfKind("file") \ Backups!Newest(KeptBackups, Backups!OfKind("file"))
    OBVIOUS
  <2>3. v3' = [e \in DOMAIN v3 |-> IF e \in over THEN Emptied ELSE v3[e]]
    BY <2>1 DEF Backups!BackupPrune, Emptied
  <2>4. over \in SUBSET {e \in DOMAIN v3 : v3[e].kind = "file"}
    BY <2>1 DEF Backups!OfKind
  <2> QED BY <2>3, <2>4
<1>3. VaultType /\ v3 \in Seq(ShelfEntry) /\ v8 \in [Workers -> Keeper]
  BY DEF VaultInv, VaultType
<1>4. /\ r \in Keeper /\ r.at = "idle" /\ r.copy = 0
      /\ Emptied \in ShelfEntry /\ Emptied.kind = "gone"
  BY <1>12, IdleTyped, EmptiedTyped
<1>5. /\ v8' \in [Workers -> Keeper] /\ v8'[w] = r
      /\ \A x \in Workers \ {w} : v8'[x] = v8[x]
  BY <1>1, <1>3, <1>4, KeeperMoves
<1>6. /\ v3' \in Seq(ShelfEntry) /\ Len(v3') = Len(v3)
      /\ \A e \in 1 .. Len(v3) : v3'[e] = IF e \in over THEN Emptied ELSE v3[e]
  <2>1. \A e \in 1 .. Len(v3) : v3'[e] \in ShelfEntry
    BY <1>2, <1>3, <1>4
  <2>2. PICK n \in Nat : n = Len(v3)
    BY <1>3
  <2>3. DOMAIN v3 = 1 .. n
    BY <1>3, <2>2
  <2>4. v3' = [e \in 1 .. n |-> IF e \in over THEN Emptied ELSE v3[e]]
    BY <1>2, <2>3
  <2>5. v3' \in [1 .. n -> ShelfEntry]
    BY <2>1, <2>2, <2>4
  <2>6. v3' \in Seq(ShelfEntry) /\ Len(v3') = n
    BY <2>5
  <2> QED BY <2>2, <2>4, <2>6
<1>7. VaultType'
  BY <1>1, <1>3, <1>4, <1>5, <1>6 DEF VaultType
<1>8. Backups!Copies \subseteq Backups!Copies'
  BY <1>1, <1>2, <1>3, <1>6, CopiesStay
<1>9. WritesOk'
  BY <1>1, <1>4, <1>5, <1>8, WritesKeep DEF VaultInv, ToCome
<1>10. LicenseOk'
  BY <1>1, <1>4, <1>5, LicenseKeeps DEF VaultInv, Carrying
<1>11. ScrubOk'
  BY <1>1, <1>3, <1>4, <1>5, <1>6, ScrubKeeps DEF VaultInv
<1> QED BY <1>7, <1>9, <1>10, <1>11 DEF VaultInv

-----------------------------------------------------------------------------
(***************************************************************************)
(* Restores.                                                               *)
(***************************************************************************)
\* A step of one request that leaves the database and the backups alone.
LEMMA VaultMoved ==
    ASSUME VaultType, NEW w \in Workers, NEW r \in Keeper, v8' = [v8 EXCEPT ![w] = r],
           UNCHANGED <<v1, v2, v3, v4, v6, v7>>,
           r.at \notin {"idle", "prune", "reapply"} => r.from \in 1 .. Len(v3), r.copy <= Len(v3)
    PROVE  /\ VaultType'
           /\ v8' \in [Workers -> Keeper] /\ v8'[w] = r
           /\ \A x \in Workers \ {w} : v8'[x] = v8[x]
           /\ Backups!Copies' = Backups!Copies
<1>1. v8 \in [Workers -> Keeper]
  BY DEF VaultType
<1>2. v8' \in [Workers -> Keeper] /\ v8'[w] = r /\ \A x \in Workers \ {w} : v8'[x] = v8[x]
  BY <1>1, KeeperMoves
<1>3. VaultType'
  BY <1>2 DEF VaultType
<1>4. Backups!Copies' = Backups!Copies
  BY DEF Backups!Copies, Backups!OfKind
<1> QED BY <1>2, <1>3, <1>4

\* The license a request reads is this machine's, unless another has yet to put it back.
LEMMA SavedIsOwned ==
    ASSUME LicenseOk, NEW w \in Workers, NEW ok \in BOOLEAN, NEW saved,
           saved = IF ok THEN v1.license ELSE "none",
           v10' = v10 \cup Backups!Overlap(w) \cup (IF ok THEN {} ELSE {"license"})
    PROVE  /\ "license" \notin v10' => "license" \notin v10 /\ saved = Owned
           /\ "copy" \notin v10' => "copy" \notin v10
           /\ "scrub" \notin v10' => "scrub" \notin v10
<1>1. "license" \notin v10' => ok /\ \A x \in Workers : v8[x].at # "reapply"
  BY DEF Backups!Overlap, Backups!Someone
<1>2. Backups!Overlap(w) \subseteq {"license"}
  BY DEF Backups!Overlap
<1> QED BY <1>1, <1>2 DEF LicenseOk

LEMMA RestoreDirectoryKeeps ==
    ASSUME VaultInv, NEW w \in Workers, NEW ok \in BOOLEAN, NEW e \in DOMAIN v3,
           Backups!RestoreDirectory(w, e, ok)
    PROVE  VaultInv'
<1>1. PICK saved : saved = IF ok THEN v1.license ELSE "none"
  OBVIOUS
<1>2. PICK r : r = [Backups!idle EXCEPT !.at = "safety", !.from = e, !.saved = saved]
  OBVIOUS
<1>3. /\ v8[w].at = "idle" /\ v8' = [v8 EXCEPT ![w] = r]
      /\ v10' = v10 \cup Backups!Overlap(w) \cup (IF ok THEN {} ELSE {"license"})
      /\ UNCHANGED <<v1, v2, v3, v4, v6, v7, v9>>
  BY <1>1, <1>2 DEF Backups!RestoreDirectory, Backups!At, Backups!others
<1>4. VaultType /\ v1 \in Database /\ v3 \in Seq(ShelfEntry)
  BY DEF VaultInv, VaultType
<1>5. e \in 1 .. Len(v3) /\ e \in Nat /\ Len(v3) \in Nat
  BY <1>4
<1>6. saved \in Licenses
  BY <1>1, <1>4 DEF Database, Licenses
<1>7. r \in Keeper /\ r.at = "safety" /\ r.from = e /\ r.copy = 0 /\ r.saved = saved
  BY <1>2, <1>5, <1>6, IdleTyped DEF Keeper, Stages
<1>8. /\ VaultType' /\ v8'[w] = r /\ \A x \in Workers \ {w} : v8'[x] = v8[x]
      /\ Backups!Copies' = Backups!Copies
  <2>1. /\ r.at \notin {"idle", "prune", "reapply"} => r.from \in 1 .. Len(v3)
        /\ r.copy <= Len(v3)
    BY <1>5, <1>7
  <2> QED BY <1>3, <1>4, <1>7, <2>1, VaultMoved
<1>9. /\ "license" \notin v10' => "license" \notin v10 /\ saved = Owned
      /\ "copy" \notin v10' => "copy" \notin v10
      /\ "scrub" \notin v10' => "scrub" \notin v10
  BY <1>1, <1>3, SavedIsOwned DEF VaultInv
<1>10. WritesOk'
  BY <1>3, <1>7, <1>8, <1>9, WritesKeep DEF VaultInv, ToCome
<1>11. LicenseOk'
  BY <1>3, <1>7, <1>8, <1>9 DEF VaultInv, LicenseOk, Owned, Carrying
<1>12. ScrubOk'
  BY <1>3, <1>7, <1>8, <1>9 DEF VaultInv, ScrubOk
<1> QED BY <1>8, <1>10, <1>11, <1>12 DEF VaultInv

LEMMA RestoreFileKeeps ==
    ASSUME VaultInv, NEW w \in Workers, NEW e \in DOMAIN v3, Backups!RestoreFile(w, e)
    PROVE  VaultInv'
<1>1. PICK r : r = [Backups!idle EXCEPT !.at = "snapshot", !.from = e]
  OBVIOUS
<1>2. /\ v8[w].at = "idle" /\ v8' = [v8 EXCEPT ![w] = r]
      /\ UNCHANGED <<v1, v2, v3, v4, v6, v7, v9, v10>>
  BY <1>1 DEF Backups!RestoreFile, Backups!At, Backups!others
<1>3. VaultType /\ v3 \in Seq(ShelfEntry)
  BY DEF VaultInv, VaultType
<1>4. e \in 1 .. Len(v3) /\ e \in Nat /\ Len(v3) \in Nat
  BY <1>3
<1>5. r \in Keeper /\ r.at = "snapshot" /\ r.from = e /\ r.copy = 0
  BY <1>1, <1>4, IdleTyped DEF Keeper, Stages
<1>6. /\ VaultType' /\ v8'[w] = r /\ \A x \in Workers \ {w} : v8'[x] = v8[x]
      /\ Backups!Copies' = Backups!Copies
  <2>1. /\ r.at \notin {"idle", "prune", "reapply"} => r.from \in 1 .. Len(v3)
        /\ r.copy <= Len(v3)
    BY <1>4, <1>5
  <2> QED BY <1>2, <1>3, <1>5, <2>1, VaultMoved
<1>7. WritesOk'
  BY <1>2, <1>5, <1>6, WritesKeep DEF VaultInv, ToCome
<1>8. LicenseOk'
  BY <1>2, <1>5, <1>6, LicenseKeeps DEF VaultInv, Carrying
<1>9. ScrubOk'
  BY <1>2, <1>5, <1>6 DEF VaultInv, ScrubOk
<1> QED BY <1>6, <1>7, <1>8, <1>9 DEF VaultInv

LEMMA SafetyIsCopy ==
    \A e \in DOMAIN v3 : v3[e].kind = "safety" => v3[e].content.data \subseteq Backups!Copies
<1>1. ASSUME NEW e \in DOMAIN v3, v3[e].kind = "safety"
      PROVE  v3[e].content.data \subseteq Backups!Copies
  <2>1. e \in Backups!OfKind("safety")
    BY <1>1 DEF Backups!OfKind
  <2>2. v3[e].content.data \in {v3[o].content.data : o \in Backups!OfKind("safety")}
    BY <2>1
  <2>3. v3[e].content.data \subseteq UNION {v3[o].content.data : o \in Backups!OfKind("safety")}
    BY <2>2, Zenon
  <2> QED BY <2>3 DEF Backups!Copies
<1> QED BY <1>1

LEMMA SafetyIsCopyNext ==
    (\A e \in DOMAIN v3 : v3[e].kind = "safety" => v3[e].content.data \subseteq Backups!Copies)'
BY SafetyIsCopy, PTL

\* The copy holds what the database holds, or is counted as one that lags behind.
LEMMA SafetyCopyKeeps ==
    ASSUME VaultInv, NEW w \in Workers, Backups!SafetyCopy(w) PROVE VaultInv'
<1> DEFINE new == [kind |-> "safety", content |-> v2]
<1>1. PICK r : r = [v8[w] EXCEPT !.at = "overwrite", !.copy = Len(v3) + 1]
  OBVIOUS
<1>2. /\ v8[w].at = "safety" /\ v3' = Append(v3, new)
      /\ v10' = IF v2.data = v1.data THEN v10 ELSE v10 \cup {"copy"}
      /\ UNCHANGED <<v1, v2, v4, v6, v7, v9>>
  BY DEF Backups!SafetyCopy, Backups!At, Backups!others, Backups!MakeEntry, Backups!Entry
<1>3. /\ VaultType /\ v2 \in Database /\ v3 \in Seq(ShelfEntry) /\ v8 \in [Workers -> Keeper]
      /\ v8[w] \in Keeper /\ v8[w].from \in 1 .. Len(v3) /\ Len(v3) \in Nat
  BY <1>2 DEF VaultInv, VaultType
<1>4. /\ new \in ShelfEntry
      /\ r \in Keeper /\ r.at = "overwrite" /\ r.copy = Len(v3) + 1
      /\ r.from = v8[w].from /\ r.saved = v8[w].saved
  <2>1. new \in ShelfEntry
    BY <1>3 DEF ShelfEntry, Kind
  <2>2. PICK n \in Nat : n = Len(v3) + 1
    BY <1>3
  <2>3. r = [v8[w] EXCEPT !.at = "overwrite", !.copy = n]
    BY <1>1, <2>2
  <2>4. /\ r \in Keeper /\ r.at = "overwrite" /\ r.copy = n
        /\ r.from = v8[w].from /\ r.saved = v8[w].saved
    BY <1>3, <2>3 DEF Keeper, Stages
  <2> QED BY <2>1, <2>2, <2>4
<1>5. v8' = [v8 EXCEPT ![w] = r]
  BY <1>1, <1>3 DEF Backups!SafetyCopy
<1>6. /\ v3' \in Seq(ShelfEntry) /\ Len(v3') = Len(v3) + 1 /\ v3'[Len(v3) + 1] = new
      /\ \A e \in 1 .. Len(v3) : v3'[e] = v3[e]
  BY <1>2, <1>3, <1>4, ShelfGrows
<1>7. /\ v8' \in [Workers -> Keeper] /\ v8'[w] = r
      /\ \A x \in Workers \ {w} : v8'[x] = v8[x]
  BY <1>3, <1>4, <1>5, KeeperMoves
<1>8. VaultType'
  <2>1. /\ v1 \in Database /\ v4 \in Seq(SUBSET Nat) /\ v6 \in Nat /\ v7 \in BOOLEAN
    BY <1>3 DEF VaultType
  <2> QED BY <1>2, <1>3, <1>4, <1>6, <1>7, <2>1, VaultTyped
<1>9. Backups!Copies \subseteq Backups!Copies'
  BY <1>2, <1>3, <1>6, CopiesStay
<1>10. v2.data \subseteq Backups!Copies'
  <2>1. PICK n : n = Len(v3) + 1
    OBVIOUS
  <2>2. n \in DOMAIN v3' /\ v3'[n].kind = "safety" /\ v3'[n].content.data = v2.data
    BY <1>3, <1>6, <2>1
  <2> QED BY <2>2, SafetyIsCopyNext
<1>11. WritesOk'
  BY <1>2, <1>9, <1>10 DEF VaultInv, WritesOk
<1>12. LicenseOk'
  BY <1>2, <1>4, <1>7, LicenseKeeps DEF VaultInv, Carrying
<1>13. ScrubOk'
  BY <1>2, <1>3, <1>4, <1>6, <1>7, ScrubKeeps DEF VaultInv
<1> QED BY <1>8, <1>11, <1>12, <1>13 DEF VaultInv

\* Another entry stands in the place of the newest safety copy.
LEMMA SafetyTakenOver ==
    ASSUME VaultInv, NEW w \in Workers, v8[w].at = "safety",
           NEW e \in 1 .. Len(v3), NEW s \in ShelfEntry, s.kind # "file",
           v3' = [v3 EXCEPT ![e] = s],
           NEW r \in Keeper, v8' = [v8 EXCEPT ![w] = r],
           r.at \notin {"idle", "prune", "reapply"} => r.from \in 1 .. Len(v3), r.copy <= Len(v3),
           r.at \in Carrying => r.saved = v8[w].saved,
           v10' = v10 \cup {"copy"}, UNCHANGED <<v1, v2, v4, v6, v7, v9>>
    PROVE  VaultInv'
<1>1. /\ VaultType /\ v3 \in Seq(ShelfEntry) /\ v8 \in [Workers -> Keeper]
      /\ v1 \in Database /\ v2 \in Database /\ v4 \in Seq(SUBSET Nat) /\ v6 \in Nat /\ v7 \in BOOLEAN
  BY DEF VaultInv, VaultType
<1>2. /\ v3' \in Seq(ShelfEntry) /\ Len(v3') = Len(v3) /\ v3'[e] = s
      /\ \A o \in 1 .. Len(v3) : o # e => v3'[o] = v3[o]
  BY <1>1
<1>3. /\ v8' \in [Workers -> Keeper] /\ v8'[w] = r
      /\ \A x \in Workers \ {w} : v8'[x] = v8[x]
  BY <1>1, KeeperMoves
<1>4. VaultType'
  <2>1. Len(v3) \in Nat
    BY <1>1
  <2>2. \A x \in Workers : v8'[x] # v8[x] =>
           /\ v8'[x].at \notin {"idle", "prune", "reapply"} => v8'[x].from \in 1 .. Len(v3')
           /\ v8'[x].copy <= Len(v3')
    BY <1>2, <1>3
  <2>3. Len(v3') >= Len(v3)
    BY <1>2, <2>1
  <2> QED BY <1>1, <1>2, <1>3, <2>2, <2>3, VaultTyped
<1>5. WritesOk'
  BY DEF WritesOk
<1>6. LicenseOk'
  BY <1>3, LicenseKeeps DEF VaultInv, Carrying
<1>7. ScrubOk'
  BY <1>2, <1>3, ScrubKeeps DEF VaultInv
<1> QED BY <1>4, <1>5, <1>6, <1>7 DEF VaultInv

\* A copy put in the place of one of the same second is counted.
LEMMA SafetyCopyAgainKeeps ==
    ASSUME VaultInv, NEW w \in Workers, Backups!SafetyCopyAgain(w) PROVE VaultInv'
<1>1. PICK e \in Backups!Newest(1, Backups!OfKind("safety")) :
         /\ v8[w].at = "safety" /\ v10' = v10 \cup {"copy"}
         /\ v3' = [v3 EXCEPT ![e].content = v2]
         /\ v8' = [v8 EXCEPT ![w].at = "overwrite", ![w].copy = e]
         /\ UNCHANGED <<v1, v2, v4, v6, v7, v9>>
  BY DEF Backups!SafetyCopyAgain, Backups!At, Backups!Fails, Backups!others
<1>2. /\ VaultType /\ v2 \in Database /\ v3 \in Seq(ShelfEntry) /\ v8 \in [Workers -> Keeper]
      /\ v8[w] \in Keeper /\ v8[w].from \in 1 .. Len(v3) /\ Len(v3) \in Nat
  BY <1>1 DEF VaultInv, VaultType
<1>3. e \in 1 .. Len(v3) /\ v3[e].kind = "safety" /\ v3[e] \in ShelfEntry /\ e \in Nat
  BY <1>1, <1>2 DEF Backups!Newest, Backups!OfKind
<1>4. PICK s : s = [v3[e] EXCEPT !.content = v2]
  OBVIOUS
<1>5. s \in ShelfEntry /\ s.kind = "safety"
  BY <1>2, <1>3, <1>4 DEF ShelfEntry
<1>6. PICK r : r = [v8[w] EXCEPT !.at = "overwrite", !.copy = e]
  OBVIOUS
<1>7. /\ r \in Keeper /\ r.at = "overwrite" /\ r.copy = e
      /\ r.from = v8[w].from /\ r.saved = v8[w].saved
  BY <1>2, <1>3, <1>6 DEF Keeper, Stages
<1>8. v3' = [v3 EXCEPT ![e] = s] /\ v8' = [v8 EXCEPT ![w] = r]
  BY <1>1, <1>2, <1>4, <1>6
<1>9. r.copy <= Len(v3) /\ s.kind # "file"
  BY <1>2, <1>3, <1>5, <1>7
<1> QED BY <1>1, <1>2, <1>3, <1>5, <1>7, <1>8, <1>9, SafetyTakenOver

\* Nothing was copied, and the request ends.
LEMMA SafetyEndsKeeps ==
    ASSUME VaultInv, NEW w \in Workers, Backups!SafetyFails(w), UNCHANGED <<v3, v10>> PROVE VaultInv'
<1>1. /\ v8' = [v8 EXCEPT ![w] = Backups!idle] /\ v8[w].at = "safety"
      /\ UNCHANGED <<v1, v2, v3, v4, v6, v7, v9, v10>>
  BY DEF Backups!SafetyFails, Backups!At, Backups!Done, Backups!others
<1>2. VaultType /\ Len(v3) \in Nat
  BY DEF VaultInv, VaultType
<1>3. /\ VaultType' /\ v8'[w] = Backups!idle /\ \A x \in Workers \ {w} : v8'[x] = v8[x]
      /\ Backups!Copies' = Backups!Copies
  <2>1. /\ Backups!idle.at \notin {"idle", "prune", "reapply"} => Backups!idle.from \in 1 .. Len(v3)
        /\ Backups!idle.copy <= Len(v3)
    BY <1>2, IdleTyped
  <2>2. Backups!idle \in Keeper
    BY IdleTyped
  <2> QED BY <1>1, <1>2, <2>1, <2>2, VaultMoved
<1>4. WritesOk'
  BY <1>1, <1>3, IdleTyped, WritesKeep DEF VaultInv, ToCome
<1>5. LicenseOk'
  BY <1>1, <1>3, IdleTyped, LicenseKeeps DEF VaultInv, Carrying
<1>6. ScrubOk'
  BY <1>1, <1>3 DEF VaultInv, ScrubOk
<1> QED BY <1>3, <1>4, <1>5, <1>6 DEF VaultInv

LEMMA SafetyFailsKeeps ==
    ASSUME VaultInv, NEW w \in Workers, Backups!SafetyFails(w) PROVE VaultInv'
<1>1. CASE UNCHANGED <<v3, v10>>
  BY <1>1, SafetyEndsKeeps
<1>2. CASE ~UNCHANGED <<v3, v10>>
  <2>1. PICK e \in Backups!Newest(1, Backups!OfKind("safety")) :
           /\ v8[w].at = "safety" /\ v10' = v10 \cup {"copy"}
           /\ v3' = [v3 EXCEPT ![e] = Emptied] /\ v8' = [v8 EXCEPT ![w] = Backups!idle]
           /\ UNCHANGED <<v1, v2, v4, v6, v7, v9>>
    BY <1>2 DEF Backups!SafetyFails, Backups!At, Backups!Done, Backups!Fails, Backups!others, Emptied
  <2>2. e \in 1 .. Len(v3) /\ Len(v3) \in Nat
    BY DEF Backups!Newest, Backups!OfKind, VaultInv, VaultType
  <2>3. /\ Backups!idle \in Keeper /\ Backups!idle.at = "idle" /\ Backups!idle.copy <= Len(v3)
        /\ Emptied \in ShelfEntry /\ Emptied.kind # "file"
    BY <2>2, IdleTyped, EmptiedTyped
  <2>4. Backups!idle.at \notin Carrying
    BY <2>3 DEF Carrying
  <2> QED BY <2>1, <2>2, <2>3, <2>4, SafetyTakenOver
<1> QED BY <1>1, <1>2

LEMMA InnerIsCopy == ASSUME NEW i \in DOMAIN v4' PROVE v4'[i] \subseteq Backups!Copies'
<1>1. v4'[i] \in {v4'[o] : o \in DOMAIN v4'}
  OBVIOUS
<1>2. v4'[i] \subseteq UNION {v4'[o] : o \in DOMAIN v4'}
  BY <1>1, Zenon
<1> QED BY <1>2 DEF Backups!Copies

\* The snapshot is put at the end of the folder, or counted as one that went wrong.
LEMMA RestoreSnapshotKeeps ==
    ASSUME VaultInv, NEW w \in Workers, Backups!RestoreSnapshot(w) PROVE VaultInv'
<1>1. PICK r : r = [v8[w] EXCEPT !.at = "license"]
  OBVIOUS
<1>2. /\ v8[w].at = "snapshot" /\ v8' = [v8 EXCEPT ![w] = r]
      /\ UNCHANGED <<v1, v2, v3, v6, v7, v9>>
      /\ \/ v4' = Append(v4, v1.data) /\ v10' = v10
         \/ v4' = v4 /\ v10' = v10 \cup {"copy"}
         \/ v4 # <<>> /\ v4' = [v4 EXCEPT ![Len(v4)] = v1.data] /\ v10' = v10 \cup {"copy"}
  BY <1>1 DEF Backups!RestoreSnapshot, Backups!At, Backups!Fails, Backups!others
<1>3. /\ VaultType /\ v1 \in Database /\ v3 \in Seq(ShelfEntry) /\ v4 \in Seq(SUBSET Nat)
      /\ v8 \in [Workers -> Keeper] /\ v8[w] \in Keeper
      /\ v8[w].from \in 1 .. Len(v3) /\ v8[w].copy <= Len(v3) /\ Len(v3) \in Nat
  BY <1>2 DEF VaultInv, VaultType
<1>4. /\ r \in Keeper /\ r.at = "license" /\ r.copy = v8[w].copy /\ r.from = v8[w].from
  BY <1>1, <1>3 DEF Keeper, Stages
<1>5. /\ v8' \in [Workers -> Keeper] /\ v8'[w] = r
      /\ \A x \in Workers \ {w} : v8'[x] = v8[x]
  BY <1>2, <1>3, <1>4, KeeperMoves
<1>6. v4' \in Seq(SUBSET Nat)
  <2>1. v1.data \in SUBSET Nat
    BY <1>3 DEF Database
  <2> QED BY <1>2, <1>3, <2>1
<1>7. VaultType'
  BY <1>2, <1>3, <1>4, <1>5, <1>6 DEF VaultType
<1>8. "copy" \notin v10' => /\ "copy" \notin v10
                            /\ Backups!Copies \subseteq Backups!Copies'
                            /\ v1.data \subseteq Backups!Copies'
  <2> SUFFICES ASSUME "copy" \notin v10'
               PROVE  /\ "copy" \notin v10
                      /\ Backups!Copies \subseteq Backups!Copies'
                      /\ v1.data \subseteq Backups!Copies'
    OBVIOUS
  <2>1. v4' = Append(v4, v1.data) /\ v10' = v10
    BY <1>2
  <2>2. PICK n : n = Len(v4) + 1
    OBVIOUS
  <2>3. n \in DOMAIN v4' /\ v4'[n] = v1.data /\ \A i \in DOMAIN v4 : i \in DOMAIN v4' /\ v4'[i] = v4[i]
    <3>1. v1.data \in SUBSET Nat
      BY <1>3 DEF Database
    <3> QED BY <1>3, <2>1, <2>2, <3>1
  <2>4. Backups!Copies \subseteq Backups!Copies'
    BY <1>2, <2>3, CopiesStay
  <2>5. v1.data \subseteq Backups!Copies'
    BY <2>3, InnerIsCopy
  <2> QED BY <2>1, <2>4, <2>5
<1>9. WritesOk'
  BY <1>2, <1>8 DEF VaultInv, WritesOk
<1>11. LicenseOk'
  <2>1. "license" \notin v10' => "license" \notin v10
    BY <1>2
  <2> QED BY <1>2, <1>4, <1>5, <2>1, LicenseKeeps DEF VaultInv, Carrying
<1>12. ScrubOk'
  <2>1. "scrub" \notin v10' => "scrub" \notin v10
    BY <1>2
  <2> QED BY <1>2, <1>3, <1>4, <1>5, <2>1 DEF VaultInv, ScrubOk
<1> QED BY <1>7, <1>9, <1>11, <1>12 DEF VaultInv

LEMMA RestoreLicenseKeeps ==
    ASSUME VaultInv, NEW w \in Workers, NEW ok \in BOOLEAN, Backups!RestoreLicense(w, ok)
    PROVE  VaultInv'
<1>1. PICK saved : saved = IF ok THEN v1.license ELSE "none"
  OBVIOUS
<1>2. PICK r : r = [v8[w] EXCEPT !.at = "overwrite", !.saved = saved]
  OBVIOUS
<1>3. /\ v8[w].at = "license"
      /\ v10' = v10 \cup Backups!Overlap(w) \cup (IF ok THEN {} ELSE {"license"})
      /\ UNCHANGED <<v1, v2, v3, v4, v6, v7, v9>>
  BY DEF Backups!RestoreLicense, Backups!At, Backups!others
<1>4. /\ VaultType /\ v1 \in Database /\ v3 \in Seq(ShelfEntry) /\ v8 \in [Workers -> Keeper]
      /\ v8[w] \in Keeper /\ v8[w].from \in 1 .. Len(v3) /\ v8[w].copy <= Len(v3)
  BY <1>3 DEF VaultInv, VaultType
<1>5. saved \in Licenses
  BY <1>1, <1>4 DEF Database, Licenses
<1>6. /\ r \in Keeper /\ r.at = "overwrite" /\ r.saved = saved
      /\ r.from = v8[w].from /\ r.copy = v8[w].copy
  BY <1>2, <1>4, <1>5 DEF Keeper, Stages
<1>7. v8' = [v8 EXCEPT ![w] = r]
  BY <1>1, <1>2, <1>4 DEF Backups!RestoreLicense
<1>8. /\ VaultType' /\ v8'[w] = r /\ \A x \in Workers \ {w} : v8'[x] = v8[x]
      /\ Backups!Copies' = Backups!Copies
  <2>1. /\ r.at \notin {"idle", "prune", "reapply"} => r.from \in 1 .. Len(v3)
        /\ r.copy <= Len(v3)
    BY <1>4, <1>6
  <2> QED BY <1>3, <1>4, <1>6, <1>7, <2>1, VaultMoved
<1>9. /\ "license" \notin v10' => "license" \notin v10 /\ saved = Owned
      /\ "copy" \notin v10' => "copy" \notin v10
      /\ "scrub" \notin v10' => "scrub" \notin v10
  BY <1>1, <1>3, SavedIsOwned DEF VaultInv
<1>10. WritesOk'
  BY <1>3, <1>6, <1>8, <1>9, WritesKeep DEF VaultInv, ToCome
<1>11. LicenseOk'
  BY <1>3, <1>6, <1>8, <1>9 DEF VaultInv, LicenseOk, Owned, Carrying
<1>12. ScrubOk'
  BY <1>3, <1>6, <1>8, <1>9 DEF VaultInv, ScrubOk
<1> QED BY <1>8, <1>10, <1>11, <1>12 DEF VaultInv

\* All that the overwriting takes away is in a copy.
LEMMA OverwriteKeeps ==
    ASSUME VaultInv, NEW w \in Workers, Backups!RestoreOverwrite(w) PROVE VaultInv'
<1>1. PICK r : r = [v8[w] EXCEPT !.at = "reapply"]
  OBVIOUS
<1>2. /\ v8[w].at = "overwrite" /\ v8' = [v8 EXCEPT ![w] = r]
      /\ v1' = v3[v8[w].from].content
      /\ v10' \in {v10, v10 \cup {"license"}}
      /\ UNCHANGED <<v2, v3, v4, v6, v7, v9>>
  BY <1>1 DEF Backups!RestoreOverwrite, Backups!At, Backups!Fails, Backups!others
<1>3. /\ VaultType /\ v3 \in Seq(ShelfEntry) /\ v8 \in [Workers -> Keeper]
      /\ v8[w] \in Keeper /\ v8[w].from \in 1 .. Len(v3) /\ v8[w].copy <= Len(v3) /\ Len(v3) \in Nat
  BY <1>2 DEF VaultInv, VaultType
<1>4. /\ r \in Keeper /\ r.at = "reapply" /\ r.copy = v8[w].copy /\ r.saved = v8[w].saved
  BY <1>1, <1>3 DEF Keeper, Stages
<1>5. /\ v8' \in [Workers -> Keeper] /\ v8'[w] = r
      /\ \A x \in Workers \ {w} : v8'[x] = v8[x]
  BY <1>2, <1>3, <1>4, KeeperMoves
<1>6. v1' \in Database
  <2>1. v3[v8[w].from] \in ShelfEntry
    BY <1>3
  <2> QED BY <1>2, <2>1 DEF ShelfEntry
<1>7. VaultType'
  BY <1>2, <1>3, <1>4, <1>5, <1>6 DEF VaultType
<1>8. Backups!Copies' = Backups!Copies
  BY <1>2 DEF Backups!Copies, Backups!OfKind
<1>9. "copy" \notin v10 => 1 .. v6 \ v9 \subseteq Backups!Copies
  BY <1>2 DEF VaultInv, WritesOk, ToCome
<1>10. WritesOk'
  BY <1>2, <1>8, <1>9 DEF WritesOk
<1>11. LicenseOk'
  BY <1>2, <1>4, <1>5 DEF VaultInv, LicenseOk, Owned, Carrying
<1>12. ScrubOk'
  BY <1>2, <1>3, <1>4, <1>5 DEF VaultInv, ScrubOk
<1> QED BY <1>7, <1>10, <1>11, <1>12 DEF VaultInv

LEMMA RestoreFailsKeeps ==
    ASSUME VaultInv, NEW w \in Workers, Backups!RestoreFails(w) PROVE VaultInv'
<1>1. /\ v8' = [v8 EXCEPT ![w] = Backups!idle] /\ v8[w].at = "overwrite"
      /\ UNCHANGED <<v3, v4, v6, v7, v9>>
      /\ \/ UNCHANGED <<v1, v2, v10>>
         \/ /\ v8[w].copy # 0
            /\ v1' \in {v1, v3[v8[w].from].content, v3[v8[w].copy].content}
            /\ v2' = v3[v8[w].copy].content
            /\ v10' = v10 \cup {"copy", "license"}
  BY DEF Backups!RestoreFails, Backups!At, Backups!Done, Backups!others
<1>2. /\ VaultType /\ v1 \in Database /\ v2 \in Database /\ v3 \in Seq(ShelfEntry)
      /\ v8 \in [Workers -> Keeper] /\ v8[w] \in Keeper
      /\ v8[w].from \in 1 .. Len(v3) /\ v8[w].copy <= Len(v3) /\ Len(v3) \in Nat
  BY <1>1 DEF VaultInv, VaultType
<1>3. /\ v8' \in [Workers -> Keeper] /\ v8'[w] = Backups!idle
      /\ \A x \in Workers \ {w} : v8'[x] = v8[x]
  BY <1>1, <1>2, IdleTyped, KeeperMoves
<1>4. v1' \in Database /\ v2' \in Database
  <2>1. CASE UNCHANGED <<v1, v2, v10>>
    BY <1>2, <2>1
  <2>2. CASE /\ v8[w].copy # 0
             /\ v1' \in {v1, v3[v8[w].from].content, v3[v8[w].copy].content}
             /\ v2' = v3[v8[w].copy].content
    <3>1. v8[w].copy \in 1 .. Len(v3)
      BY <1>2, <2>2 DEF Keeper
    <3>2. v3[v8[w].copy] \in ShelfEntry /\ v3[v8[w].from] \in ShelfEntry
      BY <1>2, <3>1
    <3> QED BY <1>2, <2>2, <3>2 DEF ShelfEntry
  <2> QED BY <1>1, <2>1, <2>2
<1>5. VaultType'
  <2>1. v4 \in Seq(SUBSET Nat) /\ v6 \in Nat /\ v7 \in BOOLEAN
    BY <1>2 DEF VaultType
  <2>2. Len(v3') >= Len(v3) /\ v3' \in Seq(ShelfEntry) /\ Backups!idle.copy <= Len(v3')
    BY <1>1, <1>2, IdleTyped
  <2> QED BY <1>1, <1>2, <1>3, <1>4, <2>1, <2>2, IdleTyped, VaultTyped
<1>6. Backups!Copies' = Backups!Copies
  BY <1>1 DEF Backups!Copies, Backups!OfKind
<1>7. WritesOk'
  BY <1>1, <1>3, <1>6, IdleTyped, WritesKeep DEF VaultInv, ToCome
<1>8. LicenseOk'
  BY <1>1, <1>3, IdleTyped, LicenseKeeps DEF VaultInv, Carrying
<1>9. ScrubOk'
  <2>1. "scrub" \notin v10' => "scrub" \notin v10
    BY <1>1
  <2> QED BY <1>1, <1>3, <2>1 DEF VaultInv, ScrubOk
<1> QED BY <1>5, <1>7, <1>8, <1>9 DEF VaultInv

\* The license that returns is the one that was there.
LEMMA ReapplyKeeps ==
    ASSUME VaultInv, NEW w \in Workers, Backups!Reapply(w) PROVE VaultInv'
<1>1. /\ v8' = [v8 EXCEPT ![w] = Backups!idle] /\ v8[w].at = "reapply"
      /\ UNCHANGED <<v2, v3, v4, v6, v7, v9>>
      /\ \/ v1' = [v1 EXCEPT !.license = v8[w].saved] /\ v10' = v10
         \/ v1' = v1 /\ v10' = v10 \cup {"license"}
  BY DEF Backups!Reapply, Backups!At, Backups!Done, Backups!Fails, Backups!others
<1>2. /\ VaultType /\ v1 \in Database /\ v3 \in Seq(ShelfEntry) /\ v8 \in [Workers -> Keeper]
      /\ v8[w] \in Keeper /\ Len(v3) \in Nat
  BY DEF VaultInv, VaultType
<1>3. /\ v8' \in [Workers -> Keeper] /\ v8'[w] = Backups!idle
      /\ \A x \in Workers \ {w} : v8'[x] = v8[x]
  BY <1>1, <1>2, IdleTyped, KeeperMoves
<1>4. /\ v1' \in Database /\ v1'.data = v1.data
      /\ "license" \notin v10' => "license" \notin v10 /\ v1'.license = v8[w].saved
  <2>1. v8[w].saved \in Licenses
    BY <1>2 DEF Keeper
  <2> QED BY <1>1, <1>2, <2>1 DEF Database
<1>5. VaultType'
  <2>1. v2 \in Database /\ v4 \in Seq(SUBSET Nat) /\ v6 \in Nat /\ v7 \in BOOLEAN
    BY <1>2 DEF VaultType
  <2>2. Len(v3') >= Len(v3) /\ v3' \in Seq(ShelfEntry) /\ Backups!idle.copy <= Len(v3')
    BY <1>1, <1>2, IdleTyped
  <2> QED BY <1>1, <1>2, <1>3, <1>4, <2>1, <2>2, IdleTyped, VaultTyped
<1>6. Backups!Copies' = Backups!Copies
  BY <1>1 DEF Backups!Copies, Backups!OfKind
<1>7. WritesOk'
  <2>1. "copy" \notin v10' => "copy" \notin v10
    BY <1>1
  <2>2. \A x \in Workers : v8'[x].at \in ToCome => v8[x].at \in ToCome
    BY <1>3, IdleTyped DEF ToCome
  <2> QED BY <1>1, <1>4, <1>6, <2>1, <2>2, WritesKeep DEF VaultInv
<1>8. LicenseOk'
  <2>1. "license" \notin v10' => v8[w].saved = Owned
    BY <1>1, <1>4 DEF VaultInv, LicenseOk, Carrying
  <2>2. \A x \in Workers : v8'[x].at \in Carrying => v8[x].at \in Carrying /\ v8'[x] = v8[x]
    BY <1>3, IdleTyped DEF Carrying
  <2> QED BY <1>1, <1>4, <2>1, <2>2 DEF VaultInv, LicenseOk, Owned
<1>9. ScrubOk'
  <2>1. "scrub" \notin v10' => "scrub" \notin v10
    BY <1>1
  <2> QED BY <1>1, <1>3, <2>1 DEF VaultInv, ScrubOk
<1> QED BY <1>5, <1>7, <1>8, <1>9 DEF VaultInv

LEMMA VaultStep == ASSUME VaultInv, Backups!Next PROVE VaultInv'
BY WriteKeeps, CheckpointKeeps, ActivateKeeps, UploadKeeps, BackupNowKeeps, BootKeepsVault,
   SnapshotKeeps, PruneKeeps, ScrubbingKeeps, RestoreLicenseKeeps, RestoreDirectoryKeeps,
   RestoreFileKeeps, SafetyCopyKeeps, SafetyCopyAgainKeeps, SafetyFailsKeeps,
   RestoreSnapshotKeeps, OverwriteKeeps,
   RestoreFailsKeeps, ReapplyKeeps DEF Backups!Next

LEMMA VaultMeans == ASSUME VaultInv PROVE Backups!RestoreLosesNothing
<1>1. DOMAIN v3 = 1 .. Len(v3)
  BY DEF VaultInv, VaultType
<1> QED BY <1>1 DEF VaultInv, WritesOk, LicenseOk, ScrubOk, Owned, Backups!RestoreLosesNothing,
                    Backups!Someone, Backups!At, Backups!OfKind

(***************************************************************************)
(* The list of statements.  A sequence of statements is Fed when every     *)
(* index in it comes after the ALTER TABLE that gives its table the        *)
(* column; only the first index of pending_actions comes after its table   *)
(* alone.  The list is put together from 26 pieces.                        *)
(***************************************************************************)
Chain(p) == \E S : p \in Seq(S)
Holds(p, s) == \E m \in 1 .. Len(p) : p[m] = s
Earlier(p, n, s) == \E m \in 1 .. Len(p) : m < n /\ p[m] = s
Fed(p) ==
    /\ Chain(p)
    /\ \A n \in 1 .. Len(p) :
          /\ p[n].op = "seed" => p[n].what \in Boots!SeedTables
          /\ p[n].op = "tried" => Earlier(p, n, Boots!Add(p[n].on, p[n].what))
          /\ p[n].op = "index" =>
                \/ Earlier(p, n, Boots!Add(p[n].on, p[n].what))
                \/ /\ p[n] = Boots!Index("pending_actions", "expires_at")
                   /\ Earlier(p, n, Boots!Create("pending_actions"))

LEMMA ChainJoin ==
    ASSUME NEW p, NEW q, Chain(p), Chain(q)
    PROVE  /\ Chain(p \o q) /\ Len(p) \in Nat /\ Len(q) \in Nat
           /\ Len(p \o q) = Len(p) + Len(q)
           /\ \A m \in 1 .. Len(p) : (p \o q)[m] = p[m]
           /\ \A m \in 1 .. Len(q) : (p \o q)[Len(p) + m] = q[m]
<1>1. PICK X, Y : p \in Seq(X) /\ q \in Seq(Y)
  BY DEF Chain
<1>2. PICK Z : Z = X \cup Y
  OBVIOUS
<1>3. p \in Seq(Z) /\ q \in Seq(Z)
  BY <1>1, <1>2
<1>4. p \o q \in Seq(Z)
  BY <1>3
<1>5. Chain(p \o q)
  BY <1>4 DEF Chain
<1> QED BY <1>1, <1>5

LEMMA HoldsJoin ==
    \A p, q, s : Chain(p) /\ Chain(q) /\ (Holds(p, s) \/ Holds(q, s)) => Holds(p \o q, s)
<1> SUFFICES ASSUME NEW p, NEW q, NEW s, Chain(p), Chain(q), Holds(p, s) \/ Holds(q, s)
             PROVE  Holds(p \o q, s)
  OBVIOUS
<1>1. CASE Holds(p, s)
  <2>1. PICK m \in 1 .. Len(p) : p[m] = s
    BY <1>1 DEF Holds
  <2>2. m \in 1 .. Len(p \o q) /\ (p \o q)[m] = s
    BY <2>1, ChainJoin
  <2> QED BY <2>2 DEF Holds
<1>2. CASE Holds(q, s)
  <2>1. PICK m \in 1 .. Len(q) : q[m] = s
    BY <1>2 DEF Holds
  <2>2. Len(p) + m \in 1 .. Len(p \o q) /\ (p \o q)[Len(p) + m] = s
    BY <2>1, ChainJoin
  <2> QED BY <2>2 DEF Holds
<1> QED BY <1>1, <1>2

LEMMA FedAppended ==
    ASSUME NEW p, NEW q, Fed(p), Chain(q),
           \A n \in 1 .. Len(q) :
              /\ q[n].op = "seed" => q[n].what \in Boots!SeedTables
              /\ q[n].op = "tried" =>
                    \/ Earlier(q, n, Boots!Add(q[n].on, q[n].what))
                    \/ Holds(p, Boots!Add(q[n].on, q[n].what))
              /\ q[n].op = "index" =>
                    \/ Earlier(q, n, Boots!Add(q[n].on, q[n].what))
                    \/ /\ q[n] = Boots!Index("pending_actions", "expires_at")
                       /\ Earlier(q, n, Boots!Create("pending_actions"))
    PROVE  Fed(p \o q)
<1>1. /\ Chain(p) /\ Chain(p \o q) /\ Len(p) \in Nat /\ Len(q) \in Nat
      /\ Len(p \o q) = Len(p) + Len(q)
      /\ \A m \in 1 .. Len(p) : (p \o q)[m] = p[m]
      /\ \A m \in 1 .. Len(q) : (p \o q)[Len(p) + m] = q[m]
  <2>1. Chain(p)
    BY DEF Fed
  <2> QED BY <2>1, ChainJoin
<1>2. \A s : \A n \in 1 .. Len(p) : Earlier(p, n, s) => Earlier(p \o q, n, s)
  <2> SUFFICES ASSUME NEW s, NEW n \in 1 .. Len(p), Earlier(p, n, s) PROVE Earlier(p \o q, n, s)
    OBVIOUS
  <2>1. PICK m \in 1 .. Len(p) : m < n /\ p[m] = s
    BY DEF Earlier
  <2>2. m \in 1 .. Len(p \o q) /\ (p \o q)[m] = s
    BY <1>1, <2>1
  <2> QED BY <2>1, <2>2 DEF Earlier
<1>3. \A s : \A n \in 1 .. Len(q) : Earlier(q, n, s) => Earlier(p \o q, Len(p) + n, s)
  <2> SUFFICES ASSUME NEW s, NEW n \in 1 .. Len(q), Earlier(q, n, s)
               PROVE  Earlier(p \o q, Len(p) + n, s)
    OBVIOUS
  <2>1. PICK m \in 1 .. Len(q) : m < n /\ q[m] = s
    BY DEF Earlier
  <2>2. /\ Len(p) + m \in 1 .. Len(p \o q) /\ (p \o q)[Len(p) + m] = s
        /\ Len(p) + m < Len(p) + n
    BY <1>1, <2>1
  <2> QED BY <2>2 DEF Earlier
<1>4. \A s : \A n \in 1 .. Len(q) : Holds(p, s) => Earlier(p \o q, Len(p) + n, s)
  <2> SUFFICES ASSUME NEW s, NEW n \in 1 .. Len(q), Holds(p, s)
               PROVE  Earlier(p \o q, Len(p) + n, s)
    OBVIOUS
  <2>1. PICK m \in 1 .. Len(p) : p[m] = s
    BY DEF Holds
  <2>2. m \in 1 .. Len(p \o q) /\ (p \o q)[m] = s /\ m < Len(p) + n
    BY <1>1, <2>1
  <2> QED BY <2>2 DEF Earlier
<1>5. ASSUME NEW n \in 1 .. Len(p \o q)
      PROVE  /\ (p \o q)[n].op = "seed" => (p \o q)[n].what \in Boots!SeedTables
             /\ (p \o q)[n].op = "tried" =>
                   Earlier(p \o q, n, Boots!Add((p \o q)[n].on, (p \o q)[n].what))
             /\ (p \o q)[n].op = "index" =>
                   \/ Earlier(p \o q, n, Boots!Add((p \o q)[n].on, (p \o q)[n].what))
                   \/ /\ (p \o q)[n] = Boots!Index("pending_actions", "expires_at")
                      /\ Earlier(p \o q, n, Boots!Create("pending_actions"))
  <2>1. CASE n <= Len(p)
    <3>1. n \in 1 .. Len(p) /\ (p \o q)[n] = p[n]
      BY <1>1, <2>1
    <3> QED BY <1>2, <3>1 DEF Fed
  <2>2. CASE n > Len(p)
    <3>1. PICK k \in 1 .. Len(q) : n = Len(p) + k /\ (p \o q)[n] = q[k]
      <4>1. n - Len(p) \in 1 .. Len(q) /\ n = Len(p) + (n - Len(p))
        BY <1>1, <2>2
      <4>2. (p \o q)[n] = q[n - Len(p)]
        BY <1>1, <2>2
      <4> QED BY <4>1, <4>2
    <3> QED BY <1>3, <1>4, <3>1
  <2> QED BY <1>1, <2>1, <2>2
<1> QED BY <1>1, <1>5 DEF Fed

LEMMA FedJoin == \A p, q : Fed(p) /\ Fed(q) => Fed(p \o q)
BY FedAppended DEF Fed

Plain(s) ==
    /\ s.op \notin {"tried", "index"} /\ (s.op = "seed" => s.what \in Boots!SeedTables)

LEMMA PlainIsFed ==
    /\ \A a : Plain(a) => Fed(<<a>>)
    /\ \A a, b : Plain(a) /\ Plain(b) => Fed(<<a, b>>)
    /\ \A a, b, c : Plain(a) /\ Plain(b) /\ Plain(c) => Fed(<<a, b, c>>)
    /\ \A a, b, c, d : Plain(a) /\ Plain(b) /\ Plain(c) /\ Plain(d) => Fed(<<a, b, c, d>>)
    /\ \A a, b, c, d, e :
          Plain(a) /\ Plain(b) /\ Plain(c) /\ Plain(d) /\ Plain(e) => Fed(<<a, b, c, d, e>>)
    /\ \A a, b, c, d, e, f, g :
          /\ Plain(a) /\ Plain(b) /\ Plain(c) /\ Plain(d) /\ Plain(e) /\ Plain(f)
          /\ Plain(g)
          => Fed(<<a, b, c, d, e, f, g>>)
<1>1. ASSUME NEW a, Plain(a) PROVE Fed(<<a>>)
  <2>1. <<a>> \in Seq({a})
    OBVIOUS
  <2>2. Chain(<<a>>)
    BY <2>1 DEF Chain
  <2> QED BY <1>1, <2>2 DEF Plain, Fed
<1>2. ASSUME NEW a, NEW b, Plain(a), Plain(b) PROVE Fed(<<a, b>>)
  <2>1. <<a, b>> \in Seq({a, b})
    OBVIOUS
  <2>2. Chain(<<a, b>>)
    BY <2>1 DEF Chain
  <2> QED BY <1>2, <2>2 DEF Plain, Fed
<1>3. ASSUME NEW a, NEW b, NEW c, Plain(a), Plain(b), Plain(c) PROVE Fed(<<a, b, c>>)
  <2>1. <<a, b, c>> \in Seq({a, b, c})
    OBVIOUS
  <2>2. Chain(<<a, b, c>>)
    BY <2>1 DEF Chain
  <2> QED BY <1>3, <2>2 DEF Plain, Fed
<1>4. ASSUME NEW a, NEW b, NEW c, NEW d, Plain(a), Plain(b), Plain(c), Plain(d)
      PROVE  Fed(<<a, b, c, d>>)
  <2>1. <<a, b, c, d>> \in Seq({a, b, c, d})
    OBVIOUS
  <2>2. Chain(<<a, b, c, d>>)
    BY <2>1 DEF Chain
  <2> QED BY <1>4, <2>2 DEF Plain, Fed
<1>5. ASSUME NEW a, NEW b, NEW c, NEW d, NEW e, Plain(a), Plain(b), Plain(c), Plain(d), Plain(e)
      PROVE  Fed(<<a, b, c, d, e>>)
  <2>1. <<a, b, c, d, e>> \in Seq({a, b, c, d, e})
    OBVIOUS
  <2>2. Chain(<<a, b, c, d, e>>)
    BY <2>1 DEF Chain
  <2> QED BY <1>5, <2>2 DEF Plain, Fed
<1>6. ASSUME NEW a, NEW b, NEW c, NEW d, NEW e, NEW f, NEW g, Plain(a), Plain(b), Plain(c),
             Plain(d), Plain(e), Plain(f), Plain(g)
      PROVE  Fed(<<a, b, c, d, e, f, g>>)
  <2>1. <<a, b, c, d, e, f, g>> \in Seq({a, b, c, d, e, f, g})
    OBVIOUS
  <2>2. Chain(<<a, b, c, d, e, f, g>>)
    BY <2>1 DEF Chain
  <2> QED BY <1>6, <2>2 DEF Plain, Fed
<1> QED BY <1>1, <1>2, <1>3, <1>4, <1>5, <1>6

LEMMA StatementIs ==
    \A op, on, what :
        /\ Boots!S(op, on, what).op = op
        /\ Boots!S(op, on, what).on = on /\ Boots!S(op, on, what).what = what
BY DEF Boots!S

LEMMA PlainStatements ==
    /\ \A t : Plain(Boots!Create(t))
    /\ \A t, c : Plain(Boots!Add(t, c))
    /\ \A t \in Boots!SeedTables : Plain(Boots!Seed(t))
<1>2. ASSUME NEW t PROVE Plain(Boots!Create(t))
  BY StatementIs DEF Plain, Boots!Create
<1>3. ASSUME NEW t, NEW c PROVE Plain(Boots!Add(t, c))
  BY StatementIs DEF Plain, Boots!Add
<1>4. ASSUME NEW t \in Boots!SeedTables PROVE Plain(Boots!Seed(t))
  BY StatementIs DEF Plain, Boots!Seed
<1> QED BY <1>2, <1>3, <1>4

LEMMA PlainPieces ==
    /\ Fed(Boots!BillTables)
    /\ Fed(Boots!SaleTables)
    /\ Fed(Boots!CashTables)
    /\ Fed(Boots!DeskTables)
    /\ Fed(Boots!Base)
    /\ Fed(Boots!MoneyColumns)
    /\ Fed(Boots!StockCounts)
    /\ Fed(Boots!InvoiceSeq)
    /\ Fed(Boots!Controls)
    /\ Fed(Boots!MoneyTables)
    /\ Fed(Boots!StockTables)
    /\ Fed(Boots!Devices)
    /\ Fed(Boots!PosTables)
    /\ Fed(Boots!Settings)
    /\ Fed(Boots!Branch)
    /\ Fed(Boots!Hub)
<1>1. Fed(Boots!BillTables)
  BY PlainIsFed, PlainStatements DEF Boots!BillTables
<1>2. Fed(Boots!SaleTables)
  BY PlainIsFed, PlainStatements DEF Boots!SaleTables
<1>3. Fed(Boots!CashTables)
  BY PlainIsFed, PlainStatements DEF Boots!CashTables
<1>4. Fed(Boots!DeskTables)
  BY PlainIsFed, PlainStatements DEF Boots!DeskTables
<1>5. Fed(Boots!Base)
  BY PlainIsFed, PlainStatements DEF Boots!Base
<1>6. Fed(Boots!MoneyColumns)
  BY PlainIsFed, PlainStatements DEF Boots!MoneyColumns
<1>7. Fed(Boots!StockCounts)
  BY PlainIsFed, PlainStatements DEF Boots!StockCounts
<1>8. Fed(Boots!InvoiceSeq)
  BY PlainIsFed, PlainStatements DEF Boots!InvoiceSeq
<1>9. Fed(Boots!Controls)
  BY PlainIsFed, PlainStatements DEF Boots!Controls
<1>10. Fed(Boots!MoneyTables)
  BY PlainIsFed, PlainStatements DEF Boots!MoneyTables
<1>11. Fed(Boots!StockTables)
  BY PlainIsFed, PlainStatements DEF Boots!StockTables
<1>12. Fed(Boots!Devices)
  BY PlainIsFed, PlainStatements DEF Boots!Devices
<1>13. Fed(Boots!PosTables)
  BY PlainIsFed, PlainStatements DEF Boots!PosTables
<1>14. Fed(Boots!Settings)
  BY PlainIsFed, PlainStatements DEF Boots!Settings
<1>15. Fed(Boots!Branch)
  BY PlainIsFed, PlainStatements DEF Boots!Branch
<1>16. Fed(Boots!Hub)
  BY PlainIsFed, PlainStatements DEF Boots!Hub
<1> QED BY <1>1, <1>2, <1>3, <1>4, <1>5, <1>6, <1>7, <1>8, <1>9, <1>10, <1>11, <1>12, <1>13, <1>14, <1>15, <1>16

LEMMA MendingPieces ==
    /\ Fed(Boots!Prices) /\ Fed(Boots!PaymentMethods) /\ Fed(Boots!PosRepairs)
    /\ Fed(Boots!Expenses) /\ Fed(Boots!ReturnLines) /\ Fed(Boots!Summary)
<1>1. \A op \in {"codes", "paid", "lines", "returns", "backfill"} : \A t :
         Plain(Boots!S(op, "none", t))
  BY StatementIs DEF Plain
<1>2. \A t \in {"price_categories", "payment_methods", "expense_categories"} : Plain(Boots!Seed(t))
  BY PlainStatements DEF Boots!SeedTables
<1>3. Fed(Boots!Prices)
  BY <1>1, <1>2, PlainIsFed, PlainStatements DEF Boots!Prices
<1>4. Fed(Boots!PaymentMethods)
  BY <1>1, <1>2, PlainIsFed, PlainStatements DEF Boots!PaymentMethods
<1>5. Fed(Boots!PosRepairs)
  BY <1>1, <1>2, PlainIsFed, PlainStatements DEF Boots!PosRepairs
<1>6. Fed(Boots!Expenses)
  BY <1>1, <1>2, PlainIsFed, PlainStatements DEF Boots!Expenses
<1>7. Fed(Boots!ReturnLines)
  BY <1>1, <1>2, PlainIsFed, PlainStatements DEF Boots!ReturnLines
<1>8. Fed(Boots!Summary)
  BY <1>1, <1>2, PlainIsFed, PlainStatements DEF Boots!Summary
<1> QED BY <1>3, <1>4, <1>5, <1>6, <1>7, <1>8

(***************************************************************************)
(* The pieces with indexes.                                                *)
(***************************************************************************)
LEMMA AgentIsFed == Fed(Boots!Agent)
<1>1. PICK a, b, c, d : /\ a = Boots!Create("ai_usage") /\ b = Boots!Create("pending_actions")
                        /\ c = Boots!Index("pending_actions", "expires_at")
                        /\ d = Boots!Create("automation_config")
  OBVIOUS
<1>2. Plain(a) /\ Plain(b) /\ Plain(d)
  BY <1>1, PlainStatements
<1>3. c.op = "index"
  BY <1>1 DEF Boots!Index, Boots!S
<1>4. PICK p : p = <<a, b, c, d>>
  OBVIOUS
<1>chain. Chain(p)
  <2>1. <<a, b, c, d>> \in Seq({a, b, c, d})
    OBVIOUS
  <2> QED BY <1>4, <2>1 DEF Chain
<1>5. Len(p) = 4 /\ p[1] = a /\ p[2] = b /\ p[3] = c /\ p[4] = d
  BY <1>2, <1>3, <1>4 DEF Plain
<1>6. Earlier(p, 3, b)
  BY <1>5 DEF Earlier
<1>7. Fed(p)
  BY <1>1, <1>2, <1>3, <1>chain, <1>5, <1>6 DEF Fed, Plain
<1> QED BY <1>1, <1>4, <1>7 DEF Boots!Agent

LEMMA ExpiryIsFed == Fed(Boots!Expiry)
<1>1. PICK a, b, c : /\ a = Boots!Add("pending_actions", "expires_at")
                     /\ b = Boots!S("expire", "none", "pending_actions")
                     /\ c = Boots!Index("pending_actions", "expires_at")
  OBVIOUS
<1>2. Plain(a) /\ Plain(b)
  BY <1>1, PlainStatements DEF Plain, Boots!S
<1>3. c.op = "index" /\ c.on = "pending_actions" /\ c.what = "expires_at"
  BY <1>1 DEF Boots!Index, Boots!S
<1>4. PICK p : p = <<a, b, c>>
  OBVIOUS
<1>chain. Chain(p)
  <2>1. <<a, b, c>> \in Seq({a, b, c})
    OBVIOUS
  <2> QED BY <1>4, <2>1 DEF Chain
<1>5. Len(p) = 3 /\ p[1] = a /\ p[2] = b /\ p[3] = c
  BY <1>2, <1>3, <1>4 DEF Plain
<1>6. Earlier(p, 3, a)
  BY <1>5 DEF Earlier
<1>7. Fed(p)
  BY <1>1, <1>2, <1>3, <1>chain, <1>5, <1>6 DEF Fed, Plain
<1> QED BY <1>1, <1>4, <1>7 DEF Boots!Expiry

LEMMA ImportsAreFed == Fed(Boots!Imports)
<1>1. PICK a, b, c, d : /\ a = Boots!Create("ezi_pos_imports")
                        /\ b = Boots!Add("ezi_pos_imports", "import_run_id")
                        /\ c = Boots!Index("ezi_pos_imports", "import_run_id")
                        /\ d = Boots!Add("pos_imports", "sale_count")
  OBVIOUS
<1>2. Plain(a) /\ Plain(b) /\ Plain(d)
  BY <1>1, PlainStatements
<1>3. c.op = "index" /\ c.on = "ezi_pos_imports" /\ c.what = "import_run_id"
  BY <1>1 DEF Boots!Index, Boots!S
<1>4. PICK p : p = <<a, b, c, d>>
  OBVIOUS
<1>chain. Chain(p)
  <2>1. <<a, b, c, d>> \in Seq({a, b, c, d})
    OBVIOUS
  <2> QED BY <1>4, <2>1 DEF Chain
<1>5. Len(p) = 4 /\ p[1] = a /\ p[2] = b /\ p[3] = c /\ p[4] = d
  BY <1>2, <1>3, <1>4 DEF Plain
<1>6. Earlier(p, 3, b)
  BY <1>5 DEF Earlier
<1>7. Fed(p)
  BY <1>1, <1>2, <1>3, <1>chain, <1>5, <1>6 DEF Fed, Plain
<1> QED BY <1>1, <1>4, <1>7 DEF Boots!Imports

LEMMA FedGrows ==
    \A p, q : Fed(p) /\ Fed(q) =>
       /\ Fed(p \o q)
       /\ \A s : Holds(p, s) \/ Holds(q, s) => Holds(p \o q, s)
BY FedJoin, HoldsJoin DEF Fed

LEMMA IsHeld ==
    /\ Holds(Boots!Base, Boots!Add("sales", "client_uuid"))
    /\ Holds(Boots!MoneyColumns, Boots!Add("customers", "deleted_at"))
    /\ Holds(Boots!Expiry, Boots!Add("pending_actions", "expires_at"))
    /\ Holds(Boots!Agent, Boots!Create("pending_actions"))
    /\ Holds(Boots!Prices, Boots!Seed("price_categories"))
    /\ Holds(Boots!PaymentMethods, Boots!Seed("payment_methods"))
    /\ Holds(Boots!Expenses, Boots!Seed("expense_categories"))
    /\ Holds(Boots!PosRepairs, Boots!S("paid", "none", "imported"))
    /\ Holds(Boots!PosRepairs, Boots!S("lines", "none", "imported"))
    /\ Holds(Boots!Summary, Boots!S("backfill", "none", "cash_summary"))
    /\ Holds(Boots!Summary, Boots!Create("trigger"))
<1>1. \A a, b : Holds(<<a, b>>, a) /\ Holds(<<a, b>>, b)
  BY DEF Holds
<1>2. \A a, b, c : Holds(<<a, b, c>>, a) /\ Holds(<<a, b, c>>, b) /\ Holds(<<a, b, c>>, c)
  BY DEF Holds
<1>3. \A a, b, c, d, e, f, g : Holds(<<a, b, c, d, e, f, g>>, g)
  BY DEF Holds
<1>4. \A a, b, c, d, e : Holds(<<a, b, c, d, e>>, b)
  BY DEF Holds
<1>5. \A a : Holds(<<a>>, a)
  BY DEF Holds
<1>6. Holds(Boots!Base, Boots!Add("sales", "client_uuid"))
  BY <1>3 DEF Boots!Base
<1>7. Holds(Boots!MoneyColumns, Boots!Add("customers", "deleted_at"))
  BY <1>4 DEF Boots!MoneyColumns
<1>8. Holds(Boots!Expiry, Boots!Add("pending_actions", "expires_at"))
  BY <1>2 DEF Boots!Expiry
<1>9. Holds(Boots!Prices, Boots!Seed("price_categories"))
  BY <1>2 DEF Boots!Prices
<1>10. Holds(Boots!PaymentMethods, Boots!Seed("payment_methods"))
  BY <1>5 DEF Boots!PaymentMethods
<1>11. Holds(Boots!Expenses, Boots!Seed("expense_categories"))
  BY <1>2 DEF Boots!Expenses
<1>12. /\ Holds(Boots!PosRepairs, Boots!S("paid", "none", "imported"))
       /\ Holds(Boots!PosRepairs, Boots!S("lines", "none", "imported"))
  BY <1>1 DEF Boots!PosRepairs
<1>13. /\ Holds(Boots!Summary, Boots!S("backfill", "none", "cash_summary"))
       /\ Holds(Boots!Summary, Boots!Create("trigger"))
  BY <1>2 DEF Boots!Summary
<1>14. Holds(Boots!Agent, Boots!Create("pending_actions"))
  <2>1. \A a, b, c, d : Holds(<<a, b, c, d>>, b)
    BY DEF Holds
  <2> QED BY <2>1 DEF Boots!Agent
<1> QED BY <1>6, <1>7, <1>8, <1>9, <1>10, <1>11, <1>12, <1>13, <1>14

LEMMA IndexesAppended ==
    ASSUME NEW p, Fed(p), Holds(p, Boots!Add("sales", "client_uuid")),
           Holds(p, Boots!Add("customers", "deleted_at"))
    PROVE  Fed(p \o Boots!Indexes)
<1>1. PICK a, b : a = Boots!Tried("sales", "client_uuid") /\ b = Boots!Tried("customers", "deleted_at")
  OBVIOUS
<1>2. /\ a.op = "tried" /\ a.on = "sales" /\ a.what = "client_uuid"
      /\ b.op = "tried" /\ b.on = "customers" /\ b.what = "deleted_at"
  BY <1>1, StatementIs DEF Boots!Tried
<1>3. PICK q : q = <<a, b>>
  OBVIOUS
<1>4. Chain(q)
  <2>1. <<a, b>> \in Seq({a, b})
    OBVIOUS
  <2> QED BY <1>3, <2>1 DEF Chain
<1>5. Len(q) = 2 /\ q[1] = a /\ q[2] = b
  BY <1>3
<1>6. Fed(p \o q)
  BY <1>2, <1>4, <1>5, FedAppended
<1> QED BY <1>1, <1>3, <1>6 DEF Boots!Indexes

LEMMA ProgramIsFed ==
    /\ Fed(Boots!Program)
    /\ \A t \in Boots!SeedTables : Holds(Boots!Program, Boots!Seed(t))
    /\ Holds(Boots!Program, Boots!Add("pending_actions", "expires_at"))
    /\ Holds(Boots!Program, Boots!Create("pending_actions"))
    /\ Holds(Boots!Program, Boots!S("paid", "none", "imported"))
    /\ Holds(Boots!Program, Boots!S("lines", "none", "imported"))
    /\ Holds(Boots!Program, Boots!S("backfill", "none", "cash_summary"))
    /\ Holds(Boots!Program, Boots!Create("trigger"))
<1>1. PICK a : a = Boots!BillTables \o Boots!SaleTables \o Boots!CashTables \o Boots!DeskTables
                   \o Boots!Base \o Boots!Prices
  OBVIOUS
<1>2. /\ Fed(a) /\ Holds(a, Boots!Add("sales", "client_uuid"))
      /\ Holds(a, Boots!Seed("price_categories"))
  BY <1>1, FedGrows, PlainPieces, MendingPieces, IsHeld
<1>3. PICK b : b = a \o Boots!PaymentMethods \o Boots!PosRepairs \o Boots!MoneyColumns
                   \o Boots!StockCounts \o Boots!InvoiceSeq \o Boots!Expenses
  OBVIOUS
<1>4. /\ Fed(b) /\ \A s : Holds(a, s) => Holds(b, s)
      /\ Holds(b, Boots!Add("customers", "deleted_at"))
      /\ Holds(b, Boots!Seed("payment_methods")) /\ Holds(b, Boots!Seed("expense_categories"))
      /\ Holds(b, Boots!S("paid", "none", "imported"))
      /\ Holds(b, Boots!S("lines", "none", "imported"))
  BY <1>2, <1>3, FedGrows, PlainPieces, MendingPieces, IsHeld
<1>5. PICK c : c = b \o Boots!Controls \o Boots!MoneyTables \o Boots!StockTables \o Boots!Devices
                   \o Boots!PosTables \o Boots!ReturnLines \o Boots!Agent \o Boots!Settings
                   \o Boots!Expiry
  OBVIOUS
<1>6. /\ Fed(c) /\ \A s : Holds(b, s) => Holds(c, s)
      /\ Holds(c, Boots!Add("pending_actions", "expires_at"))
      /\ Holds(c, Boots!Create("pending_actions"))
  BY <1>4, <1>5, FedGrows, PlainPieces, MendingPieces, AgentIsFed, ExpiryIsFed, IsHeld
<1>7. PICK d : d = c \o Boots!Branch \o Boots!Hub \o Boots!Imports
  OBVIOUS
<1>8. Fed(d) /\ \A s : Holds(c, s) => Holds(d, s)
  BY <1>6, <1>7, FedGrows, PlainPieces, ImportsAreFed
<1>9. PICK e : e = d \o Boots!Indexes
  OBVIOUS
<1>10. Fed(e) /\ \A s : Holds(d, s) => Holds(e, s)
  <2>1. Fed(e)
    BY <1>2, <1>4, <1>6, <1>8, <1>9, IndexesAppended
  <2>2. Chain(Boots!Indexes)
    <3>1. \A a1, b1 : <<a1, b1>> \in Seq({a1, b1})
      OBVIOUS
    <3> QED BY <3>1 DEF Chain, Boots!Indexes
  <2> QED BY <1>8, <1>9, <2>1, <2>2, HoldsJoin DEF Fed
<1>11. Boots!Program = e \o Boots!Summary
  BY <1>1, <1>3, <1>5, <1>7, <1>9 DEF Boots!Program
<1>12. /\ Fed(Boots!Program) /\ \A s : Holds(e, s) => Holds(Boots!Program, s)
       /\ Holds(Boots!Program, Boots!S("backfill", "none", "cash_summary"))
       /\ Holds(Boots!Program, Boots!Create("trigger"))
  BY <1>10, <1>11, FedGrows, MendingPieces, IsHeld
<1>13. \A s : Holds(a, s) \/ Holds(b, s) \/ Holds(c, s) => Holds(Boots!Program, s)
  BY <1>4, <1>6, <1>8, <1>10, <1>12
<1> QED BY <1>2, <1>4, <1>6, <1>12, <1>13 DEF Boots!SeedTables

-----------------------------------------------------------------------------
(***************************************************************************)
(* v1 = has, v2 = seeded, v3 = actions, v4 = imported, v5 = drawer,        *)
(* v6 = at, v7 = proc, v8 = boots, v9 = cut, v10 = dropped.  What a boot   *)
(* has passed is done and stays done; that a table of waiting actions      *)
(* lacks its dates is possible before the statement that adds them alone.  *)
(***************************************************************************)
IsDone(s) ==
    /\ s.op = "create" => <<s.what, "table">> \in v1
    /\ s.op = "add" => <<s.on, s.what>> \in v1
    /\ s.op \in {"index", "tried"} => <<s.on, s.what, "index">> \in v1
    /\ s.op = "seed" => s.what \in v9 \/ v2[s.what] = SeedRows
    /\ s.op = "paid" => v4.paid
    /\ s.op = "lines" => v4.lines
    /\ s.op = "backfill" => v10 \/ v5.total = v5.rows

BootType ==
    /\ v2 \in [Boots!SeedTables -> 0 .. SeedRows]
    /\ v3 \in [wait : Nat, dated : Nat] /\ v3.dated <= v3.wait
    /\ v4 \in [paid : BOOLEAN, lines : BOOLEAN]
    /\ v5 \in [rows : Nat, total : Nat]
    /\ v6 \in 1 .. Len(Boots!Program) + 1
    /\ v7 \in {"off", "boot", "seed", "date", "serving", "failed"}

Walked == \A n \in 1 .. Len(Boots!Program) : n < v6 => IsDone(Boots!Program[n])

StandsAt(p) ==
    /\ v7 \in {"seed", "date"} => v6 <= Len(Boots!Program)
    /\ v7 = "seed" => p.op = "seed" /\ v2[p.what] \in 1 .. SeedRows - 1
    /\ v7 = "date" => p.op = "add" /\ <<p.on, p.what>> \in v1
    /\ v7 = "serving" => v6 = Len(Boots!Program) + 1
    /\ v7 = "failed" => Boots!TooOld

BootRows(p) ==
    /\ \A t \in Boots!SeedTables \ v9 :
          v2[t] \in {0, SeedRows} \/ (v7 = "seed" /\ p.what = t)
    /\ "dates" \notin v9 /\ v7 # "date" => v3.dated = v3.wait \/ Boots!TooOld
    /\ ~v10 => v5.total \in {0, v5.rows}

BootInv ==
    /\ BootType /\ Walked
    /\ StandsAt(Boots!Program[v6]) /\ BootRows(Boots!Program[v6])

\* no step undoes what a statement did
Lasting ==
    /\ v1 \subseteq v1' /\ v9 \subseteq v9' /\ (v10 => v10')
    /\ (v4.paid => v4'.paid) /\ (v4.lines => v4'.lines)
    /\ \A t \in Boots!SeedTables : v2[t] = SeedRows => v2'[t] = SeedRows
    /\ v5.total = v5.rows => v10' \/ v5'.total = v5'.rows

LEMMA SeedRowsPositive == SeedRows \in Nat /\ SeedRows > 0
BY OfficeAssumption

LEMMA ProgramLength == Len(Boots!Program) \in Nat
BY ProgramIsFed DEF Fed, Chain

LEMMA WalkedOn ==
    ASSUME BootType, Walked, Lasting, NEW k, k = v6, v6' \in 1 .. k + 1,
           v6' = k + 1 => IsDone(Boots!Program[k])'
    PROVE  Walked'
<1>1. SUFFICES ASSUME NEW n \in 1 .. Len(Boots!Program), n < v6' PROVE IsDone(Boots!Program[n])'
  BY DEF Walked
<1>2. CASE n = k
  <2>1. k \in Nat
    BY ProgramLength DEF BootType
  <2>2. v6' = k + 1
    BY <1>1, <1>2, <2>1
  <2> QED BY <1>2, <2>2
<1>3. CASE n < v6
  <2>1. PICK s : s = Boots!Program[n]
    OBVIOUS
  <2>2. IsDone(s) /\ (s.op = "seed" => s.what \in Boots!SeedTables)
    BY <1>3, <2>1, ProgramIsFed DEF Walked, Fed
  <2>3. IsDone(s)'
    BY <2>2 DEF IsDone, Lasting
  <2> QED BY <2>1, <2>3
<1> QED BY <1>1, <1>2, <1>3, ProgramLength DEF BootType

LEMMA BootStarts == ASSUME Boots!Init PROVE BootInv
<1>1. PICK age \in DOMAIN Boots!Ages :
         /\ v1 = Boots!Ages[age]
         /\ v2 = [t \in Boots!SeedTables |-> IF age = "none" THEN 0 ELSE SeedRows]
         /\ v3 = IF age = "agent" THEN [wait |-> 1, dated |-> 0] ELSE [wait |-> 0, dated |-> 0]
         /\ v4 \in IF age \in {"till", "agent"} THEN [paid : BOOLEAN, lines : BOOLEAN]
                                                ELSE {[paid |-> TRUE, lines |-> TRUE]}
         /\ v5 \in IF age \in {"none", "now"} THEN {[rows |-> 0, total |-> 0]}
                                              ELSE {[rows |-> 1, total |-> 0]}
  BY DEF Boots!Init
<1>2. v6 = 1 /\ v7 = "off" /\ v9 = {} /\ v10 = FALSE
  BY DEF Boots!Init
<1>3. v4 \in [paid : BOOLEAN, lines : BOOLEAN] /\ v5 \in [rows : Nat, total : Nat] /\ v5.total = 0
  <2>1. /\ v4 \in [paid : BOOLEAN, lines : BOOLEAN] \/ v4 = [paid |-> TRUE, lines |-> TRUE]
        /\ v5 = [rows |-> 0, total |-> 0] \/ v5 = [rows |-> 1, total |-> 0]
    BY <1>1
  <2>2. [paid |-> TRUE, lines |-> TRUE] \in [paid : BOOLEAN, lines : BOOLEAN]
    OBVIOUS
  <2>3. v5 \in [rows : Nat, total : Nat] /\ v5.total = 0
    BY <2>1
  <2> QED BY <2>1, <2>2, <2>3
<1>4. v3 \in [wait : Nat, dated : Nat] /\ v3.dated <= v3.wait
      /\ (age # "agent" => v3.dated = v3.wait)
  BY <1>1
<1>5. v2 \in [Boots!SeedTables -> 0 .. SeedRows] /\ \A t \in Boots!SeedTables : v2[t] \in {0, SeedRows}
  BY <1>1, SeedRowsPositive
<1>6. BootType
  BY <1>2, <1>3, <1>4, <1>5, ProgramLength DEF BootType
<1>7. age = "agent" => Boots!TooOld
  <2>1. <<"pending_actions", "table">> \in Boots!Whole
    <3>1. Boots!Create("pending_actions") \in Boots!Range(Boots!Program)
      BY ProgramIsFed DEF Holds, Boots!Range
    <3>2. /\ Boots!Create("pending_actions").op = "create"
          /\ Boots!Create("pending_actions").what = "pending_actions"
      BY StatementIs DEF Boots!Create
    <3>3. "pending_actions" \in Boots!Created
      BY <3>1, <3>2 DEF Boots!Created
    <3> QED BY <3>3 DEF Boots!Whole
  <2>2. Boots!Ages["agent"] = {x \in Boots!Whole : x[1] \in Boots!First \cup {"pending_actions", "commissions"}}
                     \ {<<"pending_actions", "expires_at">>, <<"commissions", "reversed">>}
    BY DEF Boots!Ages
  <2> QED BY <1>1, <2>1, <2>2 DEF Boots!TooOld
<1>8. Walked
  BY <1>2 DEF Walked
<1>9. StandsAt(Boots!Program[v6]) /\ BootRows(Boots!Program[v6])
  BY <1>2, <1>3, <1>4, <1>5, <1>7 DEF StandsAt, BootRows
<1> QED BY <1>6, <1>8, <1>9 DEF BootInv

\* a boot may start, serve, fail or die at any statement
LEMMA BootPauses ==
    ASSUME BootInv, UNCHANGED <<v1, v2, v3, v4, v5, v10>>, v9 \subseteq v9', v6' \in {1, v6},
           v7' \in {"off", "boot", "failed"},
           v7 = "seed" => Boots!Program[v6].what \in v9', v7 = "date" => "dates" \in v9',
           v7' = "failed" => Boots!TooOld
    PROVE  BootInv'
<1>1. BootType /\ Walked /\ StandsAt(Boots!Program[v6]) /\ BootRows(Boots!Program[v6])
  BY DEF BootInv
<1>2. BootType'
  BY <1>1, ProgramLength DEF BootType
<1>3. PICK k : k = v6
  OBVIOUS
<1>4. Lasting
  BY DEF Lasting
<1>5. v6' \in 1 .. k + 1 /\ v6' # k + 1
  BY <1>1, <1>3, ProgramLength DEF BootType
<1>6. Walked'
  BY <1>1, <1>3, <1>4, <1>5, WalkedOn
<1>7. PICK p : p = Boots!Program[v6]'
  OBVIOUS
<1>8. PICK q : q = Boots!Program[v6]
  OBVIOUS
<1>9. Boots!TooOld' <=> Boots!TooOld
  BY DEF Boots!TooOld
<1>10. StandsAt(p)' /\ BootRows(p)'
  <2>1. StandsAt(q) /\ BootRows(q)
    BY <1>1, <1>8
  <2>2. StandsAt(p)'
    BY <1>9 DEF StandsAt
  <2>3. BootRows(p)'
    BY <1>8, <1>9, <2>1 DEF BootRows
  <2> QED BY <2>2, <2>3
<1> QED BY <1>2, <1>6, <1>7, <1>10 DEF BootInv

\* a statement that is done leads to the next one
LEMMA BootGoesOn ==
    ASSUME BootInv, BootType', Lasting, NEW k, k = v6, v6' = k + 1, v7' = "boot",
           IsDone(Boots!Program[k])', \A p : BootRows(p)'
    PROVE  BootInv'
<1>1. BootType /\ Walked
  BY DEF BootInv
<1>2. v6' \in 1 .. k + 1
  BY <1>1, ProgramLength DEF BootType
<1>3. Walked'
  BY <1>1, <1>2, WalkedOn
<1>4. PICK p : p = Boots!Program[v6]'
  OBVIOUS
<1>5. StandsAt(p)' /\ BootRows(p)'
  BY DEF StandsAt
<1> QED BY <1>3, <1>4, <1>5 DEF BootInv

LEMMA CreateTableKeeps == ASSUME BootInv, Boots!CreateTable PROVE BootInv'
<1>1. PICK k, s : k = v6 /\ s = Boots!Program[k]
  OBVIOUS
<1>2. BootType /\ BootRows(s)
  BY <1>1 DEF BootInv
<1>3. /\ v7 = "boot" /\ k <= Len(Boots!Program) /\ s.op = "create" /\ v6' = k + 1
      /\ v1' = IF <<s.what, "table">> \in v1 THEN v1
               ELSE v1 \cup {<<s.what, "table">>} \cup {<<s.what, c>> : c \in Boots!Columns(s.what)}
      /\ UNCHANGED <<v2, v3, v4, v5, v7, v8, v9, v10>>
  BY <1>1 DEF Boots!CreateTable, Boots!Reached, Boots!Onward
<1>4. BootType'
  BY <1>1, <1>2, <1>3, ProgramLength DEF BootType
<1>5. Lasting
  BY <1>3 DEF Lasting
<1>6. IsDone(s)'
  BY <1>3 DEF IsDone
<1>9. Boots!TooOld => Boots!TooOld'
  BY <1>3 DEF Boots!TooOld
<1>10. \A p : BootRows(p)'
  BY <1>2, <1>3, <1>9 DEF BootRows
<1> QED BY <1>1, <1>3, <1>4, <1>5, <1>6, <1>10, BootGoesOn

LEMMA AddColumnKeeps == ASSUME BootInv, Boots!AddColumn PROVE BootInv'
<1>1. PICK k, s : k = v6 /\ s = Boots!Program[k]
  OBVIOUS
<1>2. BootType /\ BootRows(s) /\ Walked
  BY <1>1 DEF BootInv
<1>3. /\ v7 = "boot" /\ k <= Len(Boots!Program) /\ s.op = "add"
      /\ v1' = v1 \cup {<<s.on, s.what>>}
      /\ UNCHANGED <<v2, v3, v4, v5, v8, v9, v10>>
  BY <1>1 DEF Boots!AddColumn, Boots!Reached, Boots!Onward
<1>4. Lasting
  BY <1>3 DEF Lasting
<1>5. IsDone(s)'
  BY <1>3 DEF IsDone
<1>6. CASE s.on = "pending_actions" /\ ~Boots!Fits(s)
  <2>1. v6' = k /\ v7' = "date"
    BY <1>1, <1>6 DEF Boots!AddColumn
  <2>2. BootType'
    BY <1>1, <1>2, <1>3, <2>1 DEF BootType
  <2>3. Walked'
    BY <1>1, <1>2, <1>4, <2>1, ProgramLength, WalkedOn DEF BootType
  <2>4. StandsAt(s)' /\ BootRows(s)'
    BY <1>1, <1>2, <1>3, <2>1 DEF StandsAt, BootRows
  <2>5. PICK p : p = Boots!Program[v6]'
    OBVIOUS
  <2>6. p = s
    BY <1>1, <2>1, <2>5
  <2> QED BY <2>2, <2>3, <2>4, <2>5, <2>6 DEF BootInv
<1>7. CASE ~(s.on = "pending_actions" /\ ~Boots!Fits(s))
  <2>1. v6' = k + 1 /\ v7' = "boot"
    BY <1>1, <1>3, <1>7 DEF Boots!AddColumn, Boots!Onward
  <2>2. BootType'
    BY <1>1, <1>2, <1>3, <2>1, ProgramLength DEF BootType
  <2>3. Boots!TooOld => Boots!TooOld'
    BY <1>3, <1>7 DEF Boots!TooOld, Boots!Fits
  <2>4. \A p : BootRows(p)'
    BY <1>2, <1>3, <2>1, <2>3 DEF BootRows
  <2> QED BY <1>1, <1>4, <1>5, <2>1, <2>2, <2>4, BootGoesOn
<1> QED BY <1>6, <1>7

LEMMA DateActionsKeeps == ASSUME BootInv, Boots!DateActions PROVE BootInv'
<1>1. PICK k, s : k = v6 /\ s = Boots!Program[k]
  OBVIOUS
<1>2. BootType /\ BootRows(s) /\ StandsAt(s)
  BY <1>1 DEF BootInv
<1>3. /\ v7 = "date" /\ v3' = [v3 EXCEPT !.dated = v3.wait] /\ v7' = "boot" /\ v6' = k + 1
      /\ UNCHANGED <<v1, v2, v4, v5, v8, v9, v10>>
  BY <1>1 DEF Boots!DateActions
<1>4. Lasting
  BY <1>3 DEF Lasting
<1>5. IsDone(s)'
  BY <1>2, <1>3 DEF IsDone, StandsAt
<1>6. v3' \in [wait : Nat, dated : Nat] /\ v3'.dated = v3'.wait
  BY <1>2, <1>3 DEF BootType
<1>7. BootType'
  BY <1>1, <1>2, <1>3, <1>6, ProgramLength DEF BootType, StandsAt
<1>8. \A p : BootRows(p)'
  BY <1>2, <1>3, <1>6 DEF BootRows
<1> QED BY <1>1, <1>3, <1>4, <1>5, <1>7, <1>8, BootGoesOn

LEMMA CreateIndexKeeps == ASSUME BootInv, Boots!CreateIndex PROVE BootInv'
<1>1. PICK k, s : k = v6 /\ s = Boots!Program[k]
  OBVIOUS
<1>2. BootType /\ BootRows(s) /\ Walked
  BY <1>1 DEF BootInv
<1>3. /\ v7 = "boot" /\ k \in 1 .. Len(Boots!Program) /\ s.op \in {"index", "tried"}
      /\ UNCHANGED <<v2, v3, v4, v5, v8, v9, v10>>
  BY <1>1, <1>2, ProgramLength DEF Boots!CreateIndex, Boots!Reached, Boots!Onward, BootType
<1>4. ASSUME NEW o, NEW w, Earlier(Boots!Program, k, Boots!Add(o, w)) PROVE <<o, w>> \in v1
  <2>1. PICK m \in 1 .. Len(Boots!Program) : m < k /\ Boots!Program[m] = Boots!Add(o, w)
    BY <1>4 DEF Earlier
  <2>2. IsDone(Boots!Add(o, w))
    BY <1>1, <1>2, <2>1 DEF Walked
  <2> QED BY <2>2, StatementIs DEF IsDone, Boots!Add
<1>5. CASE Boots!Fits(s)
  <2>1. v1' = v1 \cup {<<s.on, s.what, "index">>} /\ v6' = k + 1 /\ v7' = "boot"
    BY <1>1, <1>3, <1>5 DEF Boots!CreateIndex, Boots!Onward
  <2>2. Lasting
    BY <1>3, <2>1 DEF Lasting
  <2>3. BootType'
    BY <1>1, <1>2, <1>3, <2>1, ProgramLength DEF BootType
  <2>4. IsDone(s)'
    BY <1>3, <2>1 DEF IsDone
  <2>5. Boots!TooOld => Boots!TooOld'
    BY <2>1 DEF Boots!TooOld
  <2>6. \A p : BootRows(p)'
    BY <1>2, <1>3, <2>1, <2>5 DEF BootRows
  <2> QED BY <1>1, <2>1, <2>2, <2>3, <2>4, <2>6, BootGoesOn
<1>6. CASE ~Boots!Fits(s)
  <2>1. s.op = "index" /\ ~Earlier(Boots!Program, k, Boots!Add(s.on, s.what))
    BY <1>1, <1>3, <1>4, <1>6, ProgramIsFed DEF Fed, Boots!Fits
  <2>2. /\ s = Boots!Index("pending_actions", "expires_at")
        /\ Earlier(Boots!Program, k, Boots!Create("pending_actions"))
    BY <1>1, <1>3, <2>1, ProgramIsFed DEF Fed
  <2>3. <<"pending_actions", "table">> \in v1
    <3>1. PICK m \in 1 .. Len(Boots!Program) :
             m < k /\ Boots!Program[m] = Boots!Create("pending_actions")
      BY <2>2 DEF Earlier
    <3>2. IsDone(Boots!Create("pending_actions"))
      BY <1>1, <1>2, <3>1 DEF Walked
    <3> QED BY <3>2, StatementIs DEF IsDone, Boots!Create
  <2>4. Boots!TooOld
    BY <1>6, <2>2, <2>3, StatementIs DEF Boots!TooOld, Boots!Fits, Boots!Index
  <2>5. v7' = "failed" /\ UNCHANGED <<v1, v6>>
    BY <1>1, <1>6, <2>1 DEF Boots!CreateIndex
  <2> QED BY <1>3, <2>4, <2>5, BootPauses
<1> QED BY <1>5, <1>6

LEMMA SeedRowKeeps == ASSUME BootInv, Boots!SeedRow PROVE BootInv'
<1>1. PICK k, s, t : k = v6 /\ s = Boots!Program[k] /\ t = s.what
  OBVIOUS
<1>2. BootType /\ BootRows(s) /\ StandsAt(s) /\ Walked
  BY <1>1 DEF BootInv
<1>3. /\ v7 \in {"boot", "seed"} /\ k <= Len(Boots!Program) /\ s.op = "seed"
      /\ UNCHANGED <<v1, v3, v4, v5, v8, v9, v10>>
  BY <1>1 DEF Boots!SeedRow
<1>4. PICK go, n : /\ go \in BOOLEAN
                  /\ go = (v7 = "seed" \/ v2[t] = 0)
                  /\ n = IF go THEN v2[t] + 1 ELSE v2[t]
  OBVIOUS
<1>5. /\ v2' = [v2 EXCEPT ![t] = n]
      /\ v7' = IF go /\ n < SeedRows THEN "seed" ELSE "boot"
      /\ v6' = IF v7' = "seed" THEN k ELSE k + 1
  BY <1>1, <1>4 DEF Boots!SeedRow
<1>6. t \in Boots!SeedTables /\ v2[t] \in 0 .. SeedRows /\ SeedRows \in Nat \ {0}
  <2>1. k \in 1 .. Len(Boots!Program)
    BY <1>1, <1>2, <1>3, ProgramLength DEF BootType
  <2>2. t \in Boots!SeedTables
    BY <1>1, <1>3, <2>1, ProgramIsFed DEF Fed
  <2> QED BY <1>2, <2>2, SeedRowsPositive DEF BootType
<1>7. n \in 0 .. SeedRows /\ (go => n \in 1 .. SeedRows /\ v2[t] # SeedRows)
  <2>1. PICK m, r : m = v2[t] /\ r = SeedRows
    OBVIOUS
  <2>2. v7 = "seed" => m \in 1 .. r - 1
    BY <1>1, <1>2, <2>1 DEF StandsAt
  <2>3. m \in 0 .. r /\ r \in Nat \ {0}
    BY <1>6, <2>1
  <2>4. go => m \in 0 .. r - 1
    <3>1. CASE v7 = "seed"
      BY <2>2, <2>3, <3>1
    <3>2. CASE v2[t] = 0
      BY <2>1, <2>3, <3>2
    <3> QED BY <1>4, <3>1, <3>2
  <2>5. n = IF go THEN m + 1 ELSE m
    BY <1>4, <2>1
  <2>6. n \in 0 .. r /\ (go => n \in 1 .. r /\ m # r)
    BY <2>3, <2>4, <2>5
  <2> QED BY <2>1, <2>6
<1>8. /\ v2' \in [Boots!SeedTables -> 0 .. SeedRows] /\ v2'[t] = n
      /\ \A u \in Boots!SeedTables \ {t} : v2'[u] = v2[u]
  BY <1>2, <1>5, <1>6, <1>7 DEF BootType
<1>9. Lasting
  BY <1>3, <1>4, <1>7, <1>8 DEF Lasting
<1>10. BootType'
  BY <1>1, <1>2, <1>3, <1>5, <1>8, ProgramLength DEF BootType
<1>11. Boots!TooOld <=> Boots!TooOld'
  BY <1>3 DEF Boots!TooOld
<1>12. CASE go /\ n < SeedRows
  <2>1. v7' = "seed" /\ v6' = k
    BY <1>5, <1>12
  <2>2. Walked'
    BY <1>1, <1>2, <1>9, <2>1, ProgramLength, WalkedOn DEF BootType
  <2>3. StandsAt(s)'
    BY <1>1, <1>3, <1>6, <1>7, <1>8, <1>12, <2>1 DEF StandsAt
  <2>4. BootRows(s)'
    BY <1>1, <1>2, <1>3, <1>8, <1>11, <2>1 DEF BootRows
  <2>5. PICK p : p = Boots!Program[v6]'
    OBVIOUS
  <2>6. p = s
    BY <1>1, <2>1, <2>5
  <2> QED BY <1>10, <2>2, <2>3, <2>4, <2>5, <2>6 DEF BootInv
<1>13. CASE ~(go /\ n < SeedRows)
  <2>1. v7' = "boot" /\ v6' = k + 1
    BY <1>5, <1>13
  <2>2. t \in v9 \/ n = SeedRows
    <3>1. CASE go
      BY <1>6, <1>7, <1>13, <3>1
    <3>2. CASE ~go
      BY <1>2, <1>4, <1>6, <3>2 DEF BootRows
    <3> QED BY <3>1, <3>2
  <2>3. IsDone(s)'
    BY <1>1, <1>3, <1>8, <2>2 DEF IsDone
  <2>4. \A p : BootRows(p)'
    BY <1>1, <1>2, <1>3, <1>8, <1>11, <2>1, <2>2 DEF BootRows
  <2> QED BY <1>1, <1>9, <1>10, <2>1, <2>3, <2>4, BootGoesOn
<1> QED BY <1>12, <1>13

LEMMA MendKeeps == ASSUME BootInv, Boots!Mend PROVE BootInv'
<1>1. PICK k, s : k = v6 /\ s = Boots!Program[k]
  OBVIOUS
<1>2. BootType /\ BootRows(s)
  BY <1>1 DEF BootInv
<1>3. /\ v7 = "boot" /\ k <= Len(Boots!Program) /\ s.op \in {"codes", "paid", "lines", "returns"}
      /\ v6' = k + 1
      /\ v4' = CASE s.op = "paid" -> [v4 EXCEPT !.paid = TRUE]
                 [] s.op = "lines" -> [v4 EXCEPT !.lines = TRUE]
                 [] OTHER -> v4
      /\ UNCHANGED <<v1, v2, v3, v5, v7, v8, v9, v10>>
  BY <1>1 DEF Boots!Mend, Boots!Reached, Boots!Onward
<1>4. /\ v4' \in [paid : BOOLEAN, lines : BOOLEAN]
      /\ (v4.paid => v4'.paid) /\ (v4.lines => v4'.lines)
      /\ (s.op = "paid" => v4'.paid) /\ (s.op = "lines" => v4'.lines)
  BY <1>2, <1>3 DEF BootType
<1>5. BootType'
  BY <1>1, <1>2, <1>3, <1>4, ProgramLength DEF BootType
<1>6. Lasting
  BY <1>3, <1>4 DEF Lasting
<1>7. IsDone(s)'
  BY <1>3, <1>4 DEF IsDone
<1>8. Boots!TooOld <=> Boots!TooOld'
  BY <1>3 DEF Boots!TooOld
<1>9. \A p : BootRows(p)'
  BY <1>2, <1>3, <1>8 DEF BootRows
<1> QED BY <1>1, <1>3, <1>5, <1>6, <1>7, <1>9, BootGoesOn

LEMMA ExpireKeeps == ASSUME BootInv, Boots!Expire PROVE BootInv'
<1>1. PICK k, s : k = v6 /\ s = Boots!Program[k]
  OBVIOUS
<1>2. BootType /\ BootRows(s)
  BY <1>1 DEF BootInv
<1>3. PICK gone \in 0 .. v3.dated :
         /\ v7 = "boot" /\ k <= Len(Boots!Program) /\ s.op = "expire" /\ v6' = k + 1
         /\ v3' = [wait |-> v3.wait - gone, dated |-> v3.dated - gone]
         /\ UNCHANGED <<v1, v2, v4, v5, v7, v8, v9, v10>>
  BY <1>1 DEF Boots!Expire, Boots!Reached, Boots!Onward
<1>4. PICK w, d \in Nat : w = v3.wait /\ d = v3.dated
  BY <1>2 DEF BootType
<1>5. v3' = [wait |-> w - gone, dated |-> d - gone] /\ gone \in 0 .. d /\ d <= w
  BY <1>2, <1>3, <1>4 DEF BootType
<1>6. /\ v3' \in [wait : Nat, dated : Nat] /\ v3'.dated <= v3'.wait
      /\ d = w => v3'.dated = v3'.wait
  BY <1>5
<1>7. BootType'
  BY <1>1, <1>2, <1>3, <1>6, ProgramLength DEF BootType
<1>8. Lasting
  BY <1>3 DEF Lasting
<1>9. IsDone(s)'
  BY <1>3 DEF IsDone
<1>10. Boots!TooOld <=> Boots!TooOld'
  BY <1>3 DEF Boots!TooOld
<1>11. \A p : BootRows(p)'
  BY <1>2, <1>3, <1>4, <1>6, <1>10 DEF BootRows
<1> QED BY <1>1, <1>3, <1>7, <1>8, <1>9, <1>11, BootGoesOn

LEMMA BackfillKeeps == ASSUME BootInv, Boots!Backfill PROVE BootInv'
<1>1. PICK k, s : k = v6 /\ s = Boots!Program[k]
  OBVIOUS
<1>2. BootType /\ BootRows(s)
  BY <1>1 DEF BootInv
<1>3. /\ v7 = "boot" /\ k <= Len(Boots!Program) /\ s.op = "backfill" /\ v6' = k + 1
      /\ v5' = IF v5.total = 0 THEN [v5 EXCEPT !.total = v5.rows] ELSE v5
      /\ UNCHANGED <<v1, v2, v3, v4, v7, v8, v9, v10>>
  BY <1>1 DEF Boots!Backfill, Boots!Reached, Boots!Onward
<1>4. /\ v5' \in [rows : Nat, total : Nat]
      /\ (v5.total \in {0, v5.rows} => v5'.total = v5'.rows)
  BY <1>2, <1>3 DEF BootType
<1>5. BootType'
  BY <1>1, <1>2, <1>3, <1>4, ProgramLength DEF BootType
<1>6. Lasting
  BY <1>3, <1>4 DEF Lasting
<1>7. IsDone(s)'
  BY <1>2, <1>3, <1>4 DEF IsDone, BootRows
<1>8. Boots!TooOld <=> Boots!TooOld'
  BY <1>3 DEF Boots!TooOld
<1>9. \A p : BootRows(p)'
  BY <1>2, <1>3, <1>4, <1>8 DEF BootRows
<1> QED BY <1>1, <1>3, <1>5, <1>6, <1>7, <1>9, BootGoesOn

\* every statement of the list is done when the program serves
LEMMA ServedIsDone ==
    ASSUME BootInv, v7 = "serving", NEW s, Holds(Boots!Program, s) PROVE IsDone(s)
<1>1. BootType /\ Walked /\ v6 = Len(Boots!Program) + 1
  BY DEF BootInv, StandsAt
<1>2. PICK n \in 1 .. Len(Boots!Program) : Boots!Program[n] = s
  BY DEF Holds
<1> QED BY <1>1, <1>2, ProgramLength DEF Walked

LEMMA CashKeeps == ASSUME BootInv, Boots!TakeCash \/ Boots!DropCash PROVE BootInv'
<1>1. /\ v7 = "serving" /\ UNCHANGED <<v1, v2, v3, v4, v6, v7, v8, v9>>
      /\ v5' \in [rows : Nat, total : Nat] /\ (v10 => v10')
      /\ v5.total = v5.rows => v10' \/ v5'.total = v5'.rows
      /\ ~v10' => v5.total = v5.rows
  <2>1. v7 = "serving" /\ v5 \in [rows : Nat, total : Nat]
    BY DEF BootInv, BootType, Boots!TakeCash, Boots!DropCash
  <2>2. CASE Boots!TakeCash
    <3>1. <<"trigger", "table">> \in v1
      <4>1. IsDone(Boots!Create("trigger"))
        BY <2>1, ProgramIsFed, ServedIsDone
      <4> QED BY <4>1, StatementIs DEF IsDone, Boots!Create
    <3>2. v10 \/ v5.total = v5.rows
      <4>1. IsDone(Boots!S("backfill", "none", "cash_summary"))
        BY <2>1, ProgramIsFed, ServedIsDone
      <4> QED BY <4>1, StatementIs DEF IsDone
    <3>3. v5' = [rows |-> v5.rows + 1, total |-> v5.total + 1]
      BY <2>2, <3>1 DEF Boots!TakeCash
    <3>4. v5' \in [rows : Nat, total : Nat] /\ (v5.total = v5.rows => v5'.total = v5'.rows)
      BY <2>1, <3>3
    <3> QED BY <2>1, <2>2, <3>2, <3>4 DEF Boots!TakeCash
  <2>3. CASE Boots!DropCash
    <3>1. v5' = [v5 EXCEPT !.rows = v5.rows - 1] /\ v5.rows > 0 /\ v10' = TRUE
      BY <2>3 DEF Boots!DropCash
    <3>2. v5' \in [rows : Nat, total : Nat]
      BY <2>1, <3>1
    <3> QED BY <2>1, <2>3, <3>1, <3>2 DEF Boots!DropCash
  <2> QED BY <2>2, <2>3
<1>2. PICK k, s : k = v6 /\ s = Boots!Program[k]
  OBVIOUS
<1>3. BootType /\ Walked /\ StandsAt(s) /\ BootRows(s)
  BY <1>2 DEF BootInv
<1>4. BootType'
  BY <1>1, <1>3, ProgramLength DEF BootType
<1>5. Lasting
  BY <1>1 DEF Lasting
<1>6. Walked'
  BY <1>1, <1>2, <1>3, <1>5, ProgramLength, WalkedOn DEF BootType
<1>7. Boots!TooOld <=> Boots!TooOld'
  BY <1>1 DEF Boots!TooOld
<1>8. StandsAt(s)' /\ BootRows(s)'
  <2>1. StandsAt(s)'
    BY <1>1, <1>3 DEF StandsAt
  <2>2. BootRows(s)'
    BY <1>1, <1>3, <1>7 DEF BootRows
  <2> QED BY <2>1, <2>2
<1>9. PICK p : p = Boots!Program[v6]'
  OBVIOUS
<1>10. p = s
  BY <1>1, <1>2, <1>9
<1> QED BY <1>4, <1>6, <1>8, <1>9, <1>10 DEF BootInv

LEMMA ServeKeeps == ASSUME BootInv, Boots!Serve PROVE BootInv'
<1>1. v7 = "boot" /\ v7' = "serving" /\ UNCHANGED <<v1, v2, v3, v4, v5, v6, v9, v10>>
  BY DEF Boots!Serve, Boots!data
<1>2. PICK k, s : k = v6 /\ s = Boots!Program[k]
  OBVIOUS
<1>3. BootType /\ Walked /\ BootRows(s) /\ k = Len(Boots!Program) + 1
  BY <1>2, ProgramLength DEF BootInv, BootType, Boots!Serve
<1>4. BootType'
  BY <1>1, <1>3 DEF BootType
<1>5. Walked'
  BY <1>1, <1>3 DEF Walked, IsDone
<1>6. Boots!TooOld <=> Boots!TooOld'
  BY <1>1 DEF Boots!TooOld
<1>7. \A p : StandsAt(p)' /\ BootRows(p)'
  <2>1. \A p : StandsAt(p)'
    BY <1>1, <1>2, <1>3 DEF StandsAt
  <2>2. \A p : BootRows(p)'
    BY <1>1, <1>3, <1>6 DEF BootRows
  <2> QED BY <2>1, <2>2
<1>8. PICK p : p = Boots!Program[v6]'
  OBVIOUS
<1> QED BY <1>4, <1>5, <1>7, <1>8 DEF BootInv

LEMMA BootNext == ASSUME BootInv, Boots!Next PROVE BootInv'
<1>1. CASE Boots!Boot
  <2>1. /\ v7 \in {"off", "failed"} /\ v7' = "boot" /\ v6' = 1
        /\ UNCHANGED <<v1, v2, v3, v4, v5, v9, v10>>
    BY <1>1 DEF Boots!Boot, Boots!data
  <2> QED BY <2>1, BootPauses
<1>2. CASE Boots!Die
  <2>1. /\ v7' = "off" /\ v6' = 1 /\ UNCHANGED <<v1, v2, v3, v4, v5, v10>>
        /\ v9' = v9 \cup CASE v7 = "seed" -> {Boots!Program[v6].what}
                           [] v7 = "date" -> {"dates"}
                           [] OTHER -> {}
    BY <1>2 DEF Boots!Die, Boots!data
  <2> QED BY <2>1, BootPauses
<1> QED BY <1>1, <1>2, CreateTableKeeps, AddColumnKeeps, DateActionsKeeps, CreateIndexKeeps,
           SeedRowKeeps, MendKeeps, ExpireKeeps, BackfillKeeps, ServeKeeps, CashKeeps
        DEF Boots!Next

LEMMA BootSame == ASSUME BootInv, UNCHANGED <<v1, v2, v3, v4, v5, v6, v7, v9, v10>> PROVE BootInv'
<1>1. PICK k, s : k = v6 /\ s = Boots!Program[k]
  OBVIOUS
<1>2. BootType /\ Walked /\ StandsAt(s) /\ BootRows(s)
  BY <1>1 DEF BootInv
<1>3. BootType'
  BY <1>2 DEF BootType
<1>4. Walked'
  BY <1>2 DEF Walked, IsDone
<1>5. StandsAt(s)' /\ BootRows(s)'
  BY <1>2 DEF StandsAt, BootRows, Boots!TooOld
<1>6. PICK p : p = Boots!Program[v6]'
  OBVIOUS
<1>7. p = s
  BY <1>1, <1>6
<1> QED BY <1>3, <1>4, <1>5, <1>6, <1>7 DEF BootInv

(***************************************************************************)
(* What serves is whole: every name that the list creates, adds or indexes *)
(* belongs to one of its statements.                                       *)
(***************************************************************************)
LEMMA BootMeans == ASSUME BootInv PROVE Boots!TypeOK /\ Boots!BootLeavesWhole
<1>1. PICK p : p = Boots!Program[v6]
  OBVIOUS
<1>2. BootType /\ StandsAt(p) /\ BootRows(p)
  BY <1>1 DEF BootInv
<1>3. Boots!TypeOK
  <2>1. v3.dated \in 0 .. v3.wait
    BY <1>2 DEF BootType
  <2> QED BY <1>2, <2>1 DEF BootType, Boots!TypeOK
<1>4. ASSUME v7 = "serving", NEW s \in Boots!Range(Boots!Program) PROVE IsDone(s)
  <2>1. Holds(Boots!Program, s)
    BY <1>4, ProgramLength, ProgramIsFed DEF Holds, Boots!Range, Fed, Chain
  <2> QED BY <1>4, <2>1, ServedIsDone
<1>5. ASSUME v7 = "serving" PROVE Boots!Whole \cup Boots!Indexed \subseteq v1
  <2>1. \A t \in Boots!Created : <<t, "table">> \in v1
    BY <1>4, <1>5 DEF Boots!Created, IsDone
  <2>2. \A t \in Boots!Created : \A c \in Boots!Columns(t) : <<t, c>> \in v1
    BY <1>4, <1>5 DEF Boots!Columns, IsDone
  <2>3. \A x \in Boots!Indexed : x \in v1
    BY <1>4, <1>5 DEF Boots!Indexed, IsDone
  <2> QED BY <2>1, <2>2, <2>3 DEF Boots!Whole
<1>6. ASSUME v7 = "serving"
      PROVE  /\ v4.paid /\ v4.lines
             /\ \A t \in Boots!SeedTables \ v9 : v2[t] = SeedRows
             /\ "dates" \notin v9 => v3.dated = v3.wait
             /\ ~v10 => v5.total = v5.rows
  <2>1. v4.paid /\ v4.lines
    <3>1. IsDone(Boots!S("paid", "none", "imported")) /\ IsDone(Boots!S("lines", "none", "imported"))
      BY <1>6, ProgramIsFed, ServedIsDone
    <3> QED BY <3>1, StatementIs DEF IsDone
  <2>2. \A t \in Boots!SeedTables \ v9 : v2[t] = SeedRows
    <3>1. SUFFICES ASSUME NEW t \in Boots!SeedTables, t \notin v9 PROVE v2[t] = SeedRows
      OBVIOUS
    <3>2. PICK s : s = Boots!Seed(t)
      OBVIOUS
    <3>3. s.op = "seed" /\ s.what = t
      BY <3>2, StatementIs DEF Boots!Seed
    <3>4. IsDone(s)
      BY <1>6, <3>2, ProgramIsFed, ServedIsDone
    <3> QED BY <3>1, <3>3, <3>4 DEF IsDone
  <2>3. "dates" \notin v9 => v3.dated = v3.wait
    <3>1. IsDone(Boots!Add("pending_actions", "expires_at"))
      BY <1>6, ProgramIsFed, ServedIsDone
    <3>2. <<"pending_actions", "expires_at">> \in v1
      BY <3>1, StatementIs DEF IsDone, Boots!Add
    <3> QED BY <1>2, <1>6, <3>2 DEF BootRows, Boots!TooOld
  <2>4. ~v10 => v5.total = v5.rows
    <3>1. IsDone(Boots!S("backfill", "none", "cash_summary"))
      BY <1>6, ProgramIsFed, ServedIsDone
    <3> QED BY <3>1, StatementIs DEF IsDone
  <2> QED BY <2>1, <2>2, <2>3, <2>4
<1> QED BY <1>2, <1>3, <1>5, <1>6 DEF Boots!BootLeavesWhole, StandsAt
====
