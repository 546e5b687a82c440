---- MODULE AtomicCheckout ----
(***************************************************************************)
(* What app/db.py promises of write_tx(): every checkout takes effect in   *)
(* one indivisible step, or not at all.  Checkout implements it.           *)
(***************************************************************************)
EXTENDS Integers

CONSTANTS Cats,      \* price categories
          Tills,     \* checkout requests
          Need,      \* Need[t][c]: pieces of c that request t sells
          Modes,     \* values of the setting stock_strategy
          InitStock  \* pieces on hand at the start

VARIABLES stock,     \* category_stock_state.current_qty
          outcome    \* what the client of each request was told

vars == <<stock, outcome>>

Init == /\ stock = InitStock
        /\ outcome = [t \in Tills |-> "open"]

Enough(t) == \A c \in Cats : Need[t][c] > 0 => stock[c] >= Need[t][c]

Sell(t, m) ==
    /\ outcome[t] = "open"
    /\ m = "strict" => Enough(t)
    /\ stock' = [c \in Cats |-> stock[c] - Need[t][c]]
    /\ outcome' = [outcome EXCEPT ![t] = "done"]

\* HTTP 409: some category is short and nothing is sold.
Block(t) ==
    /\ outcome[t] = "open"
    /\ ~Enough(t)
    /\ outcome' = [outcome EXCEPT ![t] = "blocked"]
    /\ UNCHANGED stock

Fail(T) ==
    /\ \A t \in T : outcome[t] = "open"
    /\ outcome' = [t \in Tills |-> IF t \in T THEN "failed" ELSE outcome[t]]
    /\ UNCHANGED stock

Next == \/ \E t \in Tills : (\E m \in Modes : Sell(t, m)) \/ Block(t)
        \/ \E T \in SUBSET Tills : Fail(T)

Spec == Init /\ [][Next]_vars

====
