---- MODULE MCCheckout ----
(* Small shops for Checkout: two categories, three requests, two write-offs. *)
EXTENDS Checkout, TLC

CONSTANTS c1, c2, t1, t2, t3, l1, l2, l3, l4, w1, w2

\* t1 and t2 compete for c1, t2 and t3 for c2.
mcLineCat == l1 :> c1 @@ l2 :> c1 @@ l3 :> c2 @@ l4 :> c2
mcLineQty == l1 :> 2 @@ l2 :> 2 @@ l3 :> 1 @@ l4 :> 2
mcCart == t1 :> {l1} @@ t2 :> {l2, l3} @@ t3 :> {l4}
mcStock == c1 :> 3 @@ c2 :> 2

\* t1 holds two lines of c1, each of which fits on its own.
mcCartTwice == t1 :> {l1, l2} @@ t2 :> {l3} @@ t3 :> {}

mcWoCat == w1 :> c1 @@ w2 :> c1
mcWoQty == w1 :> 1 @@ w2 :> 2
mcNoWo == [w \in {} |-> 0]

\* One write-off of a piece of c1, beside the tills.
mcOneCat == w1 :> c1
mcOneQty == w1 :> 1
====
