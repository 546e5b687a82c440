---- MODULE MCPosLedger ----
(* A shop with two customers, three kinds of sale and one settled debt.    *)
EXTENDS PosLedger, TLC

CONSTANTS ann, bob, u1, u2, u3, u4, k1, a1, a2

req(u, c, m, net, cash, other, pts, qty, emp) ==
    [uuid |-> u, cust |-> c, method |-> m, net |-> net, cash |-> cash,
     other |-> other, pts |-> pts, qty |-> qty, emp |-> emp]

\* a cash sale that redeems, a split with an open rest, two sales on credit
mcPayloads == {req(u1, ann, "cash", 5, 0, 0, 3, 2, TRUE),
               req(u2, ann, "split", 6, 3, 1, 1, 1, FALSE),
               req(u3, bob, "credit", 4, 0, 0, 2, 2, FALSE),
               req(u4, ann, "credit", 3, 0, 0, 0, 0, TRUE)}

mcLimit == ann :> 0 @@ bob :> 3
mcOpening == ann :> 2 @@ bob :> 0
mcEdits == {<<"card", "paid">>, <<"cash", "credit">>}
mcPayKey == a1 :> k1 @@ a2 :> k1
mcPayAmount == a1 :> 2 @@ a2 :> 2
====
