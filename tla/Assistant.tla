---- MODULE Assistant ----
(***************************************************************************)
(* The approval queue of the assistant (app/routers/extensions.py): the    *)
(* agent, the auditor (app/routers/audit.py) and the season planner        *)
(* (app/ext_intel.py) propose actions, the owner approves, edits or        *)
(* rejects them.  Every statement is autocommitted, requests are threaded. *)
(***************************************************************************)
EXTENDS Integers, Sequences, FiniteSetsExt

CONSTANTS Workers,
          Kinds,       \* action types the agent proposes
          Wanted,      \* values a payload asks for
          Keys,        \* checks of the auditor that may turn critical
          Plan,        \* action types of a season's plan, in order
          MaxActions   \* bound: rows of pending_actions

VARIABLES queue,     \* pending_actions, in the order of ids
          expenses,  \* rows of expenses that approvals added, summed
          drawer,    \* their cash_drawer rows, summed
          worker,
          carried,   \* history: what each action's executions did, in order
          refused,   \* history: actions whose rejection was answered with ok
          lapped,    \* history: actions two requests worked on at once, or a stop interrupted
          doubled,   \* history: two proposals overlapped
          torn       \* history: the process died in the middle of a request

vars == <<queue, expenses, drawer, worker, carried, refused, lapped, doubled, torn>>
effects == <<expenses, drawer, carried>>
history == <<refused, lapped, doubled, torn>>

idle == [at |-> "idle", act |-> 0, kind |-> "none", want |-> 0, left |-> <<>>]

Init == /\ queue = <<>> /\ carried = <<>>
        /\ expenses = 0 /\ drawer = 0
        /\ worker = [w \in Workers |-> idle]
        /\ refused = {} /\ lapped = {} /\ doubled = FALSE /\ torn = FALSE

Done(w) == worker' = [worker EXCEPT ![w] = idle]
Busy(places) == {w \in Workers : worker[w].at \in places}
WorkedOn(i) == \E w \in Busy({"expire", "execute", "drawer", "mark", "edit"}) : worker[w].act = i
Lapping(i) == lapped' = IF WorkedOn(i) THEN lapped \cup {i} ELSE lapped
Planned == MapThenSumSet(LAMBDA w : Len(worker[w].left), Workers) + Cardinality(Busy({"insert"}))
Room(n) == Len(queue) + Planned + n <= MaxActions

\* timed: the row has an expires_at; it may have passed whenever it is looked at
Row(kind, want, source, group, timed) ==
    [kind |-> kind, want |-> want, source |-> source, group |-> group,
     status |-> "pending", timed |-> timed]

Insert(row) == queue' = Append(queue, row) /\ carried' = Append(carried, <<>>)
Mark(i, status) == queue' = [queue EXCEPT ![i].status = status]
Pending(source) == {i \in DOMAIN queue : queue[i].source = source /\ queue[i].status = "pending"}

----
(***************************************************************************)
(* Proposals.                                                              *)
(***************************************************************************)
CreatePendingAction(kind, want) ==
    /\ Room(1) /\ Insert(Row(kind, want, "ai", 0, TRUE))
    /\ UNCHANGED <<expenses, drawer, worker, history>>

\* trigger_run, for a critical finding: open proposals of the check expire ...
AuditExpire(w, key) ==
    /\ worker[w] = idle /\ Room(1)
    /\ queue' = [i \in DOMAIN queue |->
                    IF i \in Pending("auditor") /\ queue[i].group = key
                    THEN [queue[i] EXCEPT !.status = "expired"] ELSE queue[i]]
    /\ worker' = [worker EXCEPT ![w] = [idle EXCEPT !.at = "insert", !.want = key]]
    /\ doubled' = (doubled \/ Busy({"insert"}) /= {})
    /\ UNCHANGED <<effects, refused, lapped, torn>>

\* ... and a new one, that never expires by itself, takes their place
AuditInsert(w) ==
    /\ worker[w].at = "insert" /\ Done(w)
    /\ Insert(Row("note", 0, "auditor", worker[w].want, FALSE))
    /\ UNCHANGED <<expenses, drawer, history>>

\* prepare_for_season: only when nothing of the season is open
PrepareRead(w) ==
    /\ worker[w] = idle /\ Room(Len(Plan))
    /\ Pending("season") = {}
    /\ worker' = [worker EXCEPT ![w] = [idle EXCEPT !.at = "plan", !.want = Len(queue) + 1, !.left = Plan]]
    /\ doubled' = (doubled \/ Busy({"plan"}) /= {})
    /\ UNCHANGED <<queue, effects, refused, lapped, torn>>

PrepareInsert(w) ==
    LET rest == Tail(worker[w].left) IN
    /\ worker[w].at = "plan"
    /\ Insert(Row(Head(worker[w].left), 0, "season", worker[w].want, TRUE))
    /\ IF rest = <<>> THEN Done(w) ELSE worker' = [worker EXCEPT ![w].left = rest]
    /\ UNCHANGED <<expenses, drawer, history>>

----
(***************************************************************************)
(* The owner's answer.                                                     *)
(***************************************************************************)
\* Faulty variant: an action that was answered can be answered again.
OpenAlways(i) == TRUE

Open(i) == queue[i].status = "pending"

\* the row is read; a price change needs the manager's PIN in the request
ApproveRead(w, i, late, pin) ==
    /\ worker[w] = idle /\ Open(i)
    /\ late => queue[i].timed
    /\ ~late /\ queue[i].kind = "price" => pin
    /\ worker' = [worker EXCEPT ![w] =
           [idle EXCEPT !.at = IF late THEN "expire" ELSE "execute",
                        !.act = i, !.kind = queue[i].kind, !.want = queue[i].want]]
    /\ Lapping(i)
    /\ UNCHANGED <<queue, effects, refused, doubled, torn>>

\* answered with 410
ApproveExpire(w) ==
    /\ worker[w].at = "expire" /\ Done(w)
    /\ Mark(worker[w].act, "expired")
    /\ UNCHANGED <<effects, history>>

\* _execute_pending_action, with the payload read before; what a price, a bill's
\* status or a note becomes is kept in carried alone
ExecutePendingAction(w) ==
    LET a == worker[w] IN
    /\ a.at = "execute"
    /\ expenses' = IF a.kind = "expense" THEN expenses + a.want ELSE expenses
    /\ carried' = [carried EXCEPT ![a.act] = Append(@, a.want)]
    /\ worker' = [worker EXCEPT ![w].at = IF a.kind = "expense" THEN "drawer" ELSE "mark"]
    /\ UNCHANGED <<queue, drawer, history>>

\* add_expense's second row
ExpenseDrawer(w) ==
    /\ worker[w].at = "drawer"
    /\ drawer' = drawer - worker[w].want
    /\ worker' = [worker EXCEPT ![w].at = "mark"]
    /\ UNCHANGED <<queue, expenses, carried, history>>

\* executed, whatever the status is by now
ApproveMark(w) ==
    /\ worker[w].at = "mark" /\ Done(w)
    /\ Mark(worker[w].act, "executed")
    /\ UNCHANGED <<effects, history>>

RejectPendingAction(i) ==
    /\ Open(i) /\ Mark(i, "rejected")
    /\ refused' = refused \cup {i}
    /\ Lapping(i)
    /\ UNCHANGED <<effects, worker, doubled, torn>>

EditRead(w, i, want) ==
    /\ worker[w] = idle /\ Open(i)
    /\ worker' = [worker EXCEPT ![w] = [idle EXCEPT !.at = "edit", !.act = i, !.want = want]]
    /\ Lapping(i)
    /\ UNCHANGED <<queue, effects, refused, doubled, torn>>

\* the new payload, whatever the status is by now
EditWrite(w) ==
    /\ worker[w].at = "edit" /\ Done(w)
    /\ queue' = [queue EXCEPT ![worker[w].act].want = worker[w].want]
    /\ UNCHANGED <<effects, history>>

----
\* init() at every boot expires what is late by then; the stop before it may have
\* been a crash (bound: one)
Boot ==
    /\ torn => Busy({"idle"}) = Workers
    /\ worker' = [w \in Workers |-> idle]
    /\ torn' = (torn \/ Busy({"idle"}) /= Workers)
    /\ lapped' = lapped \cup {i \in DOMAIN queue : WorkedOn(i)}
    /\ \E late \in SUBSET {i \in DOMAIN queue : Open(i) /\ queue[i].timed} :
          queue' = [i \in DOMAIN queue |->
                       IF i \in late THEN [queue[i] EXCEPT !.status = "expired"] ELSE queue[i]]
    /\ UNCHANGED <<effects, refused, doubled>>

Next == \/ \E kind \in Kinds, want \in Wanted : CreatePendingAction(kind, want)
        \/ \E w \in Workers :
              \/ \E key \in Keys : AuditExpire(w, key)
              \/ AuditInsert(w) \/ PrepareRead(w) \/ PrepareInsert(w)
              \/ \E i \in DOMAIN queue : \/ \E late, pin \in BOOLEAN : ApproveRead(w, i, late, pin)
                                         \/ \E want \in Wanted : EditRead(w, i, want)
              \/ ApproveExpire(w) \/ ExecutePendingAction(w) \/ ExpenseDrawer(w)
              \/ ApproveMark(w) \/ EditWrite(w)
        \/ \E i \in DOMAIN queue : RejectPendingAction(i)
        \/ Boot

Spec == Init /\ [][Next]_vars

\* Rows are of their kinds, and every row has its history.
TypeOK ==
    /\ queue \in Seq([kind : Kinds \cup {"note"}, want : Wanted \cup {0}, source : {"ai", "auditor", "season"},
                      group : Nat, status : {"pending", "executed", "rejected", "expired"},
                      timed : BOOLEAN])
    /\ DOMAIN carried = DOMAIN queue
    /\ \A w \in Workers : worker[w].act \in 0 .. Len(queue)

\* An action is carried out once, with the payload its row shows, if and only if
\* its row says executed, and one whose rejection was confirmed never is -- unless
\* two requests worked on it at once or the process died in between.  What was
\* approved as an expense left the drawer.  A check of the auditor, and a season,
\* have one open proposal, unless two proposals overlapped.
ApprovedOnce ==
    /\ \A i \in DOMAIN queue \ lapped :
          /\ ~WorkedOn(i) => carried[i] = IF queue[i].status = "executed" THEN <<queue[i].want>> ELSE <<>>
          /\ i \in refused => carried[i] = <<>>
    /\ ~torn /\ Busy({"drawer"}) = {} => drawer = -expenses
    /\ ~doubled => /\ \A i, j \in Pending("auditor") : queue[i].group = queue[j].group => i = j
                   /\ \A i, j \in Pending("season") : queue[i].group = queue[j].group
====
