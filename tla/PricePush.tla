---- MODULE PricePush ----
(***************************************************************************)
(* Prices pushed by head office to a branch (app/routers/hq.py).  Pushes   *)
(* are delivered in any order, more than once or not at all; the branch    *)
(* applies each with three statements on an autocommit connection.         *)
(***************************************************************************)
EXTENDS Integers, Sequences, FiniteSetsExt

CONSTANTS Workers,   \* requests the branch may run at once
          Missing,   \* pushes of a category the branch does not have; the others share one
          MaxPushes  \* bound

VARIABLES pushed,    \* pushes head office has recorded, 1 .. pushed; a push's price is its number
          recorded,  \* the branch's price_pushes, in the order of their rows
          price,     \* the branch's sell_price of the category; 0 before any push
          apply,     \* where each delivery stands
          blurred    \* history: a delivery overtook another, came late, or died

vars == <<pushed, recorded, price, apply, blurred>>

idle == [at |-> "idle", push |-> 0]

Init == /\ pushed = 0
        /\ recorded = <<>>
        /\ price = 0
        /\ apply = [w \in Workers |-> idle]
        /\ blurred = FALSE

Rows == {recorded[i] : i \in DOMAIN recorded}

CreatePricePush == /\ pushed < MaxPushes
                   /\ pushed' = pushed + 1
                   /\ UNCHANGED <<recorded, price, apply, blurred>>

\* "already applied" is answered for every push with a row
Applied(p) == p \in Rows

ApplyCheck(w, p) ==
    /\ apply[w].at = "idle"
    /\ ~Applied(p)
    /\ apply' = [apply EXCEPT ![w] = [at |-> "record", push |-> p]]
    /\ UNCHANGED <<pushed, recorded, price, blurred>>

\* Faulty variant: a second row is ignored, and the price set again.
ApplyRecordOrIgnore(w) ==
    LET p == apply[w].push IN
    /\ apply[w].at = "record"
    /\ apply' = [apply EXCEPT ![w].at = "price"]
    /\ IF p \in Rows
       THEN UNCHANGED <<recorded, blurred>>
       ELSE /\ recorded' = Append(recorded, p)
            /\ blurred' = (blurred \/ (\E q \in Rows : q > p) \/ \E v \in Workers : apply[v].at = "price")
    /\ UNCHANGED <<pushed, price>>

\* price_push_id is unique: the second of two deliveries ends here
ApplyRecord(w) ==
    LET p == apply[w].push IN
    /\ apply[w].at = "record"
    /\ IF p \in Rows
       THEN /\ apply' = [apply EXCEPT ![w] = idle]
            /\ UNCHANGED <<recorded, blurred>>
       ELSE /\ apply' = [apply EXCEPT ![w].at = "price"]
            /\ recorded' = Append(recorded, p)
            /\ blurred' = \/ blurred
                          \/ \E q \in Rows : q > p
                          \/ \E v \in Workers : apply[v].at = "price"
    /\ UNCHANGED <<pushed, price>>

\* a category the branch does not have answers 404, and the row stays
ApplyPrice(w) ==
    /\ apply[w].at = "price"
    /\ price' = IF apply[w].push \in Missing THEN price ELSE apply[w].push
    /\ apply' = [apply EXCEPT ![w] = idle]
    /\ UNCHANGED <<pushed, recorded, blurred>>

\* the branch's process ends between two statements, and the sender delivers again
ApplyDies(w) ==
    /\ apply[w].at /= "idle"
    /\ blurred' = (blurred \/ apply[w].at = "price")
    /\ apply' = [apply EXCEPT ![w] = idle]
    /\ UNCHANGED <<pushed, recorded, price>>

Next == \/ CreatePricePush
        \/ \E w \in Workers : \/ \E p \in 1 .. pushed : ApplyCheck(w, p)
                              \/ ApplyRecord(w) \/ ApplyPrice(w) \/ ApplyDies(w)

Spec == Init /\ [][Next]_vars

(***************************************************************************)
(* Properties.                                                             *)
(***************************************************************************)
\* Variables keep their types, and a push has one row.
TypeOK ==
    /\ pushed \in 0 .. MaxPushes
    /\ recorded \in Seq(1 .. pushed)
    /\ \A i, j \in DOMAIN recorded : recorded[i] = recorded[j] => i = j
    /\ price \in 0 .. pushed
    /\ apply \in [Workers -> {idle} \cup [at : {"record", "price"}, push : 1 .. pushed]]

\* Between deliveries the branch sells at the newest price it has recorded, however often
\* pushes are delivered, unless one came late, overtook another or died half way
\* (apply_price_push).
NewestPriceWins ==
    (~blurred /\ \A w \in Workers : apply[w].at /= "price") =>
        price = Max({0} \cup (Rows \ Missing))

====
