---- MODULE Salary ----
(***************************************************************************)
(* Staff salaries (app/salary.py): the record of one employee and month,   *)
(* the operating expense it posts, the advances that reduce its final      *)
(* payment, and the drawer rows of both.  Every statement is autocommitted *)
(* and requests are threaded.  Each employee has one month here.  Salaries *)
(* are multiples of DAYS_BASIS, so rounding to paisa changes nothing.      *)
(***************************************************************************)
EXTENDS Integers, FiniteSets, FiniteSetsExt

CONSTANTS Employees, Workers,
          Salaries,      \* monthly salaries an owner may set
          OffDays,       \* off-days taken he may enter
          AdvancePay,    \* the amount of an advance
          MaxAdvances,   \* bound: advances ever recorded
          MaxRequests    \* bound: requests ever made

VARIABLES salary,    \* employees.monthly_salary
          record,    \* salary_records, or no record
          expense,   \* the linked expense rows: how many, and the amount of the last
          advances,  \* salary_advances rows
          cash,      \* cash_drawer rows of a record: the amount paid out
          handed,    \* salary_advances that have a drawer row
          worker, requests,
          raced,     \* history: employees two requests worked on at once
          late,      \* history: employees whose paid record was changed afterwards
          torn,      \* history: employees on whom a request stopped half way
          dropped    \* history: employees whose expense row was deleted on the Expenses page

vars == <<salary, record, expense, advances, cash, handed, worker, requests, raced, late, torn, dropped>>

AllowedOff == 4
DaysBasis == 30
none == [exists |-> FALSE, salary |-> 0, taken |-> 0, extra |-> 0,
         advances |-> 0, payable |-> 0, status |-> "draft", linked |-> FALSE]
resting == [at |-> "idle", e |-> "none", amount |-> 0, taken |-> 0, rec |-> none, id |-> 0]

\* extra working days are paid at a thirtieth of the salary
ExtraPay(monthly, taken) ==
    LET days == AllowedOff - taken IN IF days > 0 THEN days * (monthly \div DaysBasis) ELSE 0

Computed(rec, given) ==
    LET extra == ExtraPay(rec.salary, rec.taken)
    IN  [rec EXCEPT !.extra = extra, !.advances = given, !.payable = rec.salary + extra - given]

Given(e) == AdvancePay * Cardinality({a \in advances : a.e = e})

\* the month sheet compares the saved payable with one computed now
NeedsSave(e) ==
    record[e].exists /\ record[e].payable /= Computed([record[e] EXCEPT !.salary = salary[e]], Given(e)).payable

Init == /\ salary \in [Employees -> Salaries]
        /\ record = [e \in Employees |-> none]
        /\ expense = [e \in Employees |-> [rows |-> 0, amount |-> 0]]
        /\ advances = {} /\ handed = {}
        /\ cash = [e \in Employees |-> 0]
        /\ worker = [w \in Workers |-> resting]
        /\ requests = 0
        /\ raced = {} /\ late = {} /\ torn = {} /\ dropped = {}

Books == <<salary, record, expense, advances, cash, handed>>
Quiet == \A w \in Workers : worker[w].at = "idle"
At(w, place) == worker[w].at = place
Goes(w, place) == worker' = [worker EXCEPT ![w].at = place]
Done(w) == worker' = [worker EXCEPT ![w] = resting]

\* a request enters; a paid record it is about to change is marked
Enter(w, e, what, touches) ==
    /\ worker[w].at = "idle" /\ requests < MaxRequests
    /\ requests' = requests + 1
    /\ worker' = [worker EXCEPT ![w] = [what EXCEPT !.e = e]]
    /\ raced' = raced \cup {x \in {e} : \E o \in Workers : worker[o].e = e}
    /\ late' = late \cup {x \in {e} : touches /\ record[e].status = "paid"}
    /\ UNCHANGED <<torn, dropped>>
Inside == UNCHANGED <<requests, raced, late, torn, dropped>>

----
\* PUT /api/salary/employees: the salary, then each draft record
SetSalary(w, e, s) ==
    /\ salary' = [salary EXCEPT ![e] = s]
    /\ Enter(w, e, [resting EXCEPT !.at = "drafts"], FALSE)
    /\ UNCHANGED <<record, expense, advances, cash, handed>>

RefreshDraft(w) ==
    /\ At(w, "drafts") /\ Inside
    /\ LET e == worker[w].e
           draft == record[e].exists /\ record[e].status = "draft"
       IN  IF draft THEN /\ record' = [record EXCEPT ![e].salary = salary[e]]
                         /\ Goes(w, "recompute")
                    ELSE /\ Done(w) /\ UNCHANGED record
    /\ UNCHANGED <<salary, expense, advances, cash, handed>>

\* POST /api/salary/records: an existing record is recomputed, paid or not
UpsertRead(w, e, taken) ==
    /\ Enter(w, e, [resting EXCEPT !.at = "upsert", !.taken = taken,
                        !.rec = Computed([record[e] EXCEPT !.salary = salary[e], !.taken = taken], Given(e))],
             TRUE)
    /\ UNCHANGED Books

\* the unique key of employee and month refuses a second insert
UpsertWrite(w) ==
    /\ At(w, "upsert") /\ Inside
    /\ LET e == worker[w].e
           rec == worker[w].rec
       IN  IF rec.exists
           THEN /\ Goes(w, "recompute")
                /\ record' = IF record[e].exists
                             THEN [record EXCEPT ![e].salary = rec.salary, ![e].taken = rec.taken]
                             ELSE record
           ELSE IF record[e].exists THEN Done(w) /\ UNCHANGED record
           ELSE /\ Goes(w, "sync")
                /\ record' = [record EXCEPT ![e] = [rec EXCEPT !.exists = TRUE]]
    /\ UNCHANGED <<salary, expense, advances, cash, handed>>

\* _recompute_record: the record and the month's advances are read, then written
RecomputeRead(w) ==
    /\ At(w, "recompute") /\ Inside
    /\ LET e == worker[w].e
       IN  IF record[e].exists
           THEN worker' = [worker EXCEPT ![w].at = "derived", ![w].rec = Computed(record[e], Given(e))]
           ELSE Done(w)
    /\ UNCHANGED Books

RecomputeWrite(w) ==
    /\ At(w, "derived") /\ Inside /\ Goes(w, "sync")
    /\ LET e == worker[w].e
           rec == worker[w].rec
       IN  record' = IF record[e].exists
                     THEN [record EXCEPT ![e].extra = rec.extra, ![e].advances = rec.advances,
                                         ![e].payable = rec.payable]
                     ELSE record
    /\ UNCHANGED <<salary, expense, advances, cash, handed>>

\* _sync_expense: the linked expense is updated; a missing one is created and linked
SyncExpense(w) ==
    /\ At(w, "sync") /\ Done(w)
    /\ dropped' = dropped \ {worker[w].e}
    /\ LET e == worker[w].e
           rec == record[e]
           rows == IF rec.linked /\ expense[e].rows > 0 THEN expense[e].rows ELSE expense[e].rows + 1
       IN  IF rec.exists
           THEN /\ expense' = [expense EXCEPT ![e] = [rows |-> rows, amount |-> rec.salary + rec.extra]]
                /\ record' = [record EXCEPT ![e].linked = TRUE]
           ELSE UNCHANGED <<expense, record>>
    /\ UNCHANGED <<salary, advances, cash, handed, requests, raced, late, torn>>

\* the Expenses page may delete the row; the next recompute creates it again
DeleteExpense(e) ==
    /\ expense[e].rows > 0
    /\ expense' = [expense EXCEPT ![e] = [rows |-> 0, amount |-> 0]]
    /\ dropped' = dropped \cup {e}
    /\ UNCHANGED <<salary, record, advances, cash, handed, worker, requests, raced, late, torn>>

\* POST /api/salary/advances: the row, the drawer row, then the month's record
RecordAdvance(w, e) ==
    /\ Cardinality(advances) < MaxAdvances
    /\ LET id == IF advances = {} THEN 1 ELSE 1 + Max({a.id : a \in advances})
       IN  /\ advances' = advances \cup {[id |-> id, e |-> e]}
           /\ Enter(w, e, [resting EXCEPT !.at = "hand", !.id = id], TRUE)
    /\ UNCHANGED <<salary, record, expense, cash, handed>>

HandAdvance(w) == /\ At(w, "hand") /\ Inside /\ Goes(w, "recompute")
                  /\ handed' = handed \cup {[id |-> worker[w].id, e |-> worker[w].e]}
                  /\ UNCHANGED <<salary, record, expense, advances, cash>>

DeleteAdvance(w, a) ==
    /\ a \in advances
    /\ advances' = advances \ {a}
    /\ Enter(w, a.e, [resting EXCEPT !.at = "unhand", !.id = a.id], TRUE)
    /\ UNCHANGED <<salary, record, expense, cash, handed>>

UnhandAdvance(w) == /\ At(w, "unhand") /\ Inside /\ Goes(w, "recompute")
                    /\ handed' = handed \ {[id |-> worker[w].id, e |-> worker[w].e]}
                    /\ UNCHANGED <<salary, record, expense, advances, cash>>

\* Faulty variant: a record that is paid already is paid again.
PayReadAny(w, e) ==
    /\ record[e].exists
    /\ Enter(w, e, [resting EXCEPT !.at = "stamp", !.rec = record[e]], FALSE)
    /\ UNCHANGED Books

\* POST .../pay: status and amount are read, then the status is stamped
PayRead(w, e) ==
    /\ record[e].exists /\ record[e].status /= "paid"
    /\ Enter(w, e, [resting EXCEPT !.at = "stamp", !.rec = record[e]], FALSE)
    /\ UNCHANGED Books

PayStamp(w) == /\ At(w, "stamp") /\ Inside /\ Goes(w, "payout")
               /\ LET e == worker[w].e
                  IN  record' = [record EXCEPT ![e].status = IF record[e].exists THEN "paid" ELSE @]
               /\ UNCHANGED <<salary, expense, advances, cash, handed>>

PayOut(w) == /\ At(w, "payout") /\ Inside /\ Done(w)
             /\ cash' = [cash EXCEPT ![worker[w].e] = @ + worker[w].rec.payable]
             /\ UNCHANGED <<salary, record, expense, advances, handed>>

\* DELETE /api/salary/records: expense, drawer rows, record; the advances stay
DeleteRead(w, e) ==
    /\ record[e].exists
    /\ expense' = IF record[e].linked THEN [expense EXCEPT ![e] = [rows |-> 0, amount |-> 0]] ELSE expense
    /\ Enter(w, e, [resting EXCEPT !.at = "uncash"], FALSE)
    /\ UNCHANGED <<salary, record, advances, cash, handed>>

DeleteCash(w) == /\ At(w, "uncash") /\ Inside /\ Goes(w, "drop")
                 /\ cash' = [cash EXCEPT ![worker[w].e] = 0]
                 /\ UNCHANGED <<salary, record, expense, advances, handed>>

DeleteRecord(w) == /\ At(w, "drop") /\ Done(w)
                   /\ record' = [record EXCEPT ![worker[w].e] = none]
                   /\ late' = late \ {worker[w].e}
                   /\ UNCHANGED <<salary, expense, advances, cash, handed, requests, raced, torn, dropped>>

Die == /\ ~Quiet
       /\ worker' = [w \in Workers |-> resting]
       /\ torn' = torn \cup ({worker[w].e : w \in Workers} \ {"none"})
       /\ UNCHANGED <<salary, record, expense, advances, cash, handed, requests, raced, late, dropped>>

Next == \/ \E w \in Workers, e \in Employees :
              \/ \E s \in Salaries : SetSalary(w, e, s)
              \/ \E taken \in OffDays : UpsertRead(w, e, taken)
              \/ RecordAdvance(w, e) \/ PayRead(w, e) \/ DeleteRead(w, e)
        \/ \E w \in Workers, a \in advances : DeleteAdvance(w, a)
        \/ \E w \in Workers : \/ RefreshDraft(w) \/ UpsertWrite(w) \/ RecomputeRead(w) \/ RecomputeWrite(w)
                              \/ SyncExpense(w) \/ HandAdvance(w) \/ UnhandAdvance(w) \/ PayStamp(w)
                              \/ PayOut(w) \/ DeleteCash(w) \/ DeleteRecord(w)
        \/ (\E e \in Employees : DeleteExpense(e)) \/ Die

Spec == Init /\ [][Next]_vars

\* Records hold whole amounts, and an advance has at most one drawer row.
TypeOK ==
    /\ salary \in [Employees -> Salaries]
    /\ \A e \in Employees : record[e].payable \in Int /\ record[e].taken \in Nat /\ cash[e] \in Int
    /\ \A e \in Employees : expense[e].rows \in Nat
    /\ requests \in 0..MaxRequests /\ late \cup raced \cup torn \cup dropped \subseteq Employees

\* Nothing is counted twice: a record posts one expense of its full cost, a draft
\* never needs saving again, and once a record is paid, the advances and the payment that left the drawer are that cost,
\* unless two requests of the employee overlapped, one stopped half way, the expense
\* was deleted by hand, or the record or its advances changed after the payment.
PayrollCountedOnce ==
    Quiet => \A e \in Employees \ (raced \cup torn) :
        LET out == cash[e] + AdvancePay * Cardinality({a \in handed : a.e = e})
            cost == record[e].salary + record[e].extra
        IN  IF record[e].exists
            THEN /\ e \notin dropped => expense[e] = [rows |-> 1, amount |-> cost]
                 /\ record[e].payable = cost - Given(e)
                 /\ record[e].status = "paid" /\ e \notin late => out = cost
                 /\ record[e].status = "draft" => cash[e] = 0 /\ ~NeedsSave(e)
            ELSE expense[e].rows = 0 /\ cash[e] = 0
====
