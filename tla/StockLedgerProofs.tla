---- MODULE StockLedgerProofs ----
(***************************************************************************)
(* Proofs about StockLedger: the pool's quantity follows the rows, for any *)
(* number of bills, lines, sales, adjustments, threads and crashes; and    *)
(* without adjustments, money is neither made nor lost.  What live         *)
(* confirmed bills cost is in the pool or in the cost of a standing sale,  *)
(* to the paisa, for any averages and their rounding.                      *)
(***************************************************************************)
EXTENDS StockLedger, SumTheorems, SequenceTheorems

(***************************************************************************)
(* The three folds of the model: "add", lines added to a pool; "take",     *)
(* lines taken out of it; and "replay".  Op is what one element makes of   *)
(* the pool, Pick the element that comes last.                             *)
(***************************************************************************)
Op(k, x, p) ==
    IF k = "add" THEN AddItem(p, x) ELSE IF k = "take" THEN TakeItem(p, x) ELSE ReplayEvent(x, p)

Pick(k, S) == IF k = "replay" THEN Latest(S) ELSE Max(S)

\* the recursion behind a fold, and a function that satisfies it if there is one
Walk(k, f, base, S, g) ==
    g = [s \in SUBSET S |->
            IF s = {} THEN base ELSE Op(k, f[Pick(k, s)], g[s \ {Pick(k, s)}])]

WalkOf(k, f, base, S) == CHOOSE g : Walk(k, f, base, S, g)

Folded(k, f, base, S) == WalkOf(k, f, base, S)[S]

\* a choice that finds an element of every subset
Picks(k, S) == \A s \in SUBSET S : s # {} => Pick(k, s) \in s

LEMMA WalkAt ==
  ASSUME NEW k, NEW f, NEW base, NEW S, NEW g, Walk(k, f, base, S, g), NEW s \in SUBSET S
  PROVE  g[s] = IF s = {} THEN base ELSE Op(k, f[Pick(k, s)], g[s \ {Pick(k, s)}])
  BY DEF Walk

\* two such functions agree where both are defined
LEMMA WalkAgree ==
  ASSUME NEW k, NEW f, NEW base, NEW S, IsFiniteSet(S), Picks(k, S), NEW g, Walk(k, f, base, S, g),
         NEW T, NEW h, Walk(k, f, base, T, h)
  PROVE  \A s \in SUBSET S : s \subseteq T => g[s] = h[s]
  <1> DEFINE X == {s \in SUBSET S : s \subseteq T /\ g[s] # h[s]}
  <1>1. SUFFICES ASSUME X # {} PROVE FALSE
    OBVIOUS
  <1>0. X \in SUBSET SUBSET S
    OBVIOUS
  <1>2. PICK s \in X : \A u \in SUBSET s : u \in X => u = s
    <2> HIDE DEF X
    <2> QED
      BY <1>0, <1>1, SmallestSubset
  <1>3. s # {}
    <2>1. s \in SUBSET S /\ s \in SUBSET T /\ g[s] # h[s]
      OBVIOUS
    <2> HIDE DEF X
    <2>2. s = {} => g[s] = base
      BY <2>1, WalkAt
    <2>3. s = {} => h[s] = base
      BY <2>1, WalkAt
    <2> QED
      BY <2>1, <2>2, <2>3
  <1>4. Pick(k, s) \in s
    BY <1>3 DEF Picks
  <1>5. s \ {Pick(k, s)} \notin X
    BY <1>2, <1>4
  <1>6. g[s \ {Pick(k, s)}] = h[s \ {Pick(k, s)}]
    BY <1>5
  <1>7. s \in SUBSET S /\ s \in SUBSET T /\ g[s] # h[s]
    OBVIOUS
  <1> HIDE DEF X
  <1>8. g[s] = Op(k, f[Pick(k, s)], g[s \ {Pick(k, s)}])
    BY <1>3, <1>7, WalkAt
  <1>9. h[s] = Op(k, f[Pick(k, s)], h[s \ {Pick(k, s)}])
    BY <1>3, <1>7 DEF Walk
  <1> QED
    BY <1>6, <1>7, <1>8, <1>9

\* and there is one for every finite set
LEMMA WalkExists ==
  ASSUME NEW k, NEW f, NEW base, NEW S, IsFiniteSet(S), Picks(k, S)
  PROVE  Walk(k, f, base, S, WalkOf(k, f, base, S))
  <1> DEFINE X == {T \in SUBSET S : ~ \E g : Walk(k, f, base, T, g)}
  <1>1. SUFFICES ASSUME X # {} PROVE FALSE
    BY DEF WalkOf
  <1>0. X \in SUBSET SUBSET S
    OBVIOUS
  <1>2. PICK T \in X : \A U \in SUBSET T : U \in X => U = T
    <2> HIDE DEF X
    <2> QED
      BY <1>0, <1>1, SmallestSubset
  <1>3. \A U \in SUBSET T : U # T => Walk(k, f, base, U, WalkOf(k, f, base, U))
    BY <1>2 DEF WalkOf
  <1>4. \A U \in SUBSET T : IsFiniteSet(U) /\ Picks(k, U)
    BY FS_Subset DEF Picks
  <1> DEFINE rest(s) == s \ {Pick(k, s)}
             end(U) == WalkOf(k, f, base, U)[U]
             h == [s \in SUBSET T |-> IF s = {} THEN base ELSE Op(k, f[Pick(k, s)], end(rest(s)))]
  <1>8. \A s \in SUBSET T : s # {} => rest(s) \in SUBSET s /\ rest(s) \in SUBSET T /\ rest(s) # T
    BY DEF Picks
  <1>5. ASSUME NEW U \in SUBSET T, U # T, U # {}
        PROVE  end(U) = Op(k, f[Pick(k, U)], end(rest(U)))
    <2>1. rest(U) \in SUBSET U /\ rest(U) \in SUBSET T /\ rest(U) # T
      BY <1>5, <1>8
    <2>2. Walk(k, f, base, U, WalkOf(k, f, base, U)) /\ Walk(k, f, base, rest(U), WalkOf(k, f, base, rest(U)))
      BY <1>3, <1>5, <2>1
    <2>3. WalkOf(k, f, base, U)[rest(U)] = WalkOf(k, f, base, rest(U))[rest(U)]
      BY <1>4, <2>1, <2>2, WalkAgree
    <2>4. WalkOf(k, f, base, U)[U] = Op(k, f[Pick(k, U)], WalkOf(k, f, base, U)[rest(U)])
      BY <1>5, <2>2, WalkAt
    <2> QED
      BY <2>3, <2>4
  <1>6. end({}) = base \/ T = {}
    <2>1. T # {} => Walk(k, f, base, {}, WalkOf(k, f, base, {}))
      BY <1>3
    <2>2. {} \in SUBSET {}
      OBVIOUS
    <2>3. \A g : Walk(k, f, base, {}, g) => g[{}] = base
      BY <2>2, WalkAt
    <2> QED
      BY <2>1, <2>3
  <1>7. \A U \in SUBSET T : U # T => h[U] = end(U)
    BY <1>5, <1>6
  <1>9. Walk(k, f, base, T, h)
    <2>1. \A s \in SUBSET T : s # {} => h[rest(s)] = end(rest(s))
      BY <1>7, <1>8
    <2>2. \A s \in SUBSET T : h[s] = IF s = {} THEN base ELSE Op(k, f[Pick(k, s)], h[rest(s)])
      BY <2>1
    <2> HIDE DEF h
    <2>3. h = [s \in SUBSET T |-> h[s]]
      BY DEF h
    <2> QED
      BY <2>2, <2>3 DEF Walk
  <1> QED
    BY <1>2, <1>9

(***************************************************************************)
(* A fold over no element, and a fold's last step.                         *)
(***************************************************************************)
LEMMA FoldEmpty == \A k, f, base : Folded(k, f, base, {}) = base
  <1> TAKE k, f, base
  <1>1. Picks(k, {}) /\ IsFiniteSet({})
    BY FS_EmptySet DEF Picks
  <1> QED
    BY <1>1, WalkExists, WalkAt DEF Folded

LEMMA FoldStep ==
  ASSUME NEW k, NEW f, NEW base, NEW S, IsFiniteSet(S), Picks(k, S), S # {}
  PROVE  Folded(k, f, base, S) = Op(k, f[Pick(k, S)], Folded(k, f, base, S \ {Pick(k, S)}))
  <1> DEFINE R == S \ {Pick(k, S)}
  <1>1. IsFiniteSet(R) /\ Picks(k, R) /\ R \in SUBSET S
    BY FS_Subset DEF Picks
  <1>2. Walk(k, f, base, S, WalkOf(k, f, base, S)) /\ Walk(k, f, base, R, WalkOf(k, f, base, R))
    BY <1>1, WalkExists
  <1>3. WalkOf(k, f, base, S)[R] = WalkOf(k, f, base, R)[R]
    BY <1>1, <1>2, WalkAgree
  <1>4. WalkOf(k, f, base, S)[S] = Op(k, f[Pick(k, S)], WalkOf(k, f, base, S)[R])
    BY <1>2, WalkAt
  <1> QED
    BY <1>3, <1>4 DEF Folded

(***************************************************************************)
(* What one operation does to a pool.                                      *)
(***************************************************************************)
LEMMA RoundedType == ASSUME NEW n \in Int, NEW d \in Int, d > 0 PROVE Rounded(n, d) \in Int
  BY DEF Rounded

LEMMA AveragedQty ==
  ASSUME NEW q \in Int, NEW v \in Int
  PROVE  Averaged(q, v) \in Pools /\ Averaged(q, v).qty = q
  BY RoundedType DEF Averaged, Pool, Pools

LEMMA PurchaseQty ==
  ASSUME NEW p \in Pools, NEW q \in Int, NEW price \in Int
  PROVE  ApplyPurchase(p, q, price) \in Pools /\ ApplyPurchase(p, q, price).qty = p.qty + q
  <1>1. p.qty + q \in Int /\ p.value + q * price \in Int
    BY DEF Pools
  <1> QED
    BY <1>1, AveragedQty DEF ApplyPurchase

LEMMA TakeBackQty ==
  ASSUME NEW p \in Pools, NEW q \in Int, NEW price \in Int
  PROVE  ReversePurchase(p, q, price) \in Pools /\ ReversePurchase(p, q, price).qty = p.qty - q
  <1>1. p.qty - q \in Int /\ p.value - q * price \in Int
    BY DEF Pools
  <1>2. Pool(p.qty - q, 0, 0) \in Pools /\ Pool(p.qty - q, 0, 0).qty = p.qty - q
    BY <1>1 DEF Pools, Pool
  <1> QED
    BY <1>1, <1>2, AveragedQty DEF ReversePurchase

LEMMA SaleQty ==
  ASSUME NEW p \in Pools, NEW q \in Int
  PROVE  ApplySale(p, q) \in Pools /\ ApplySale(p, q).qty = p.qty - q
  <1>1. p.qty - q \in Int /\ p.value - q * p.avg \in Int /\ p.avg \in Int
    BY DEF Pools
  <1> QED
    BY <1>1 DEF ApplySale, Pool, Pools

LEMMA RefundQty ==
  ASSUME NEW p \in Pools, NEW q \in Int, NEW cost \in Int
  PROVE  ReverseSale(p, q, cost) \in Pools /\ ReverseSale(p, q, cost).qty = p.qty + q
  <1> DEFINE back == IF cost > 0 THEN cost ELSE p.avg
  <1>1. back \in Int
    BY DEF Pools
  <1> HIDE DEF back
  <1>2. p.qty + q \in Int /\ p.value + q * back \in Int
    BY <1>1 DEF Pools
  <1> QED
    BY <1>2, AveragedQty DEF ReverseSale, back

LEMMA AdjustmentQty ==
  ASSUME NEW p \in Pools, NEW d \in Int
  PROVE  ApplyAdjustment(p, d) \in Pools /\ ApplyAdjustment(p, d).qty = p.qty + d
  <1>1. p.qty + d \in Int /\ p.value + d * p.avg \in Int /\ p.avg \in Int
    BY DEF Pools
  <1>2. Pool(p.qty + d, p.value + d * p.avg, p.avg) \in Pools
    BY <1>1 DEF Pool, Pools
  <1>3. Pool(p.qty + d, p.value + d * p.avg, p.avg).qty = p.qty + d
    BY DEF Pool
  <1> QED
    BY <1>1, <1>2, <1>3, AveragedQty DEF ApplyAdjustment

\* what a replayed event adds to the quantity
Moved == [e \in Event |-> IF e.kind = "sale" THEN -e.qty ELSE e.qty]

LEMMA ReplayEventQty ==
  ASSUME NEW e \in Event, NEW p \in Pools
  PROVE  ReplayEvent(e, p) \in Pools /\ ReplayEvent(e, p).qty = p.qty + Moved[e]
  <1>1. e.qty \in Int /\ e.price \in Int /\ p.qty \in Int /\ p.avg \in Int
    BY DEF Event, Pools
  <1>2. CASE e.kind = "purchase"
    BY <1>1, <1>2, PurchaseQty DEF ReplayEvent, Moved
  <1>3. CASE e.kind = "adjustment"
    <2> DEFINE r == ApplyAdjustment(p, e.qty)
    <2>1. r \in Pools /\ r.qty = p.qty + e.qty
      BY <1>1, AdjustmentQty
    <2> HIDE DEF r
    <2>2. [r EXCEPT !.avg = p.avg] \in Pools /\ [r EXCEPT !.avg = p.avg].qty = r.qty
      BY <1>1, <2>1 DEF Pools
    <2>3. ReplayEvent(e, p) = IF r.qty > 0 THEN r ELSE [r EXCEPT !.avg = p.avg]
      BY <1>3 DEF ReplayEvent, ReplayAdjustment, r
    <2> QED
      BY <1>3, <2>1, <2>2, <2>3 DEF Moved
  <1>4. CASE e.kind = "sale"
    BY <1>1, <1>4, SaleQty DEF ReplayEvent, Moved
  <1> QED
    BY <1>2, <1>3, <1>4 DEF Event

(***************************************************************************)
(* The replay's order.                                                     *)
(***************************************************************************)
LEMMA TurnType == \A e \in Event : Turn(e) \in Nat
  BY DEF Event, Turn

LEMMA BeforeIrreflexive == \A e \in Event : ~Before(e, e)
  BY TurnType DEF Event, Before

LEMMA BeforeTransitive ==
  ASSUME NEW e \in Event, NEW f \in Event, NEW g \in Event, Before(e, f), Before(f, g)
  PROVE  Before(e, g)
  <1>1. Turn(e) \in Nat /\ Turn(f) \in Nat /\ Turn(g) \in Nat
    BY TurnType
  <1>2. /\ e.ts \in Nat /\ f.ts \in Nat /\ g.ts \in Nat
        /\ e.id \in Nat /\ f.id \in Nat /\ g.id \in Nat
        /\ e.line \in Nat /\ f.line \in Nat /\ g.line \in Nat
    BY DEF Event
  <1> QED
    BY <1>1, <1>2 DEF Before

LEMMA LastEvent ==
  ASSUME NEW S \in SUBSET Event, IsFiniteSet(S)
  PROVE  \A T \in SUBSET S : T # {} => \E x \in T : \A y \in T : ~Before(x, y)
  <1> DEFINE R == {p \in S \X S : Before(p[1], p[2])}
  <1>1. \A x, y \in S : <<x, y>> \in R <=> Before(x, y)
    OBVIOUS
  <1>2. \A x \in S : <<x, x>> \notin R
    BY <1>1, BeforeIrreflexive
  <1>3. \A x, y, z \in S : <<x, y>> \in R /\ <<y, z>> \in R => <<x, z>> \in R
    BY <1>1, BeforeTransitive
  <1> HIDE DEF R
  <1>4. \A T \in SUBSET S : T # {} => \E x \in T : \A y \in T : <<x, y>> \notin R
    BY <1>2, <1>3, LastElement
  <1> QED
    BY <1>1, <1>4

LEMMA LatestIn ==
  ASSUME NEW S \in SUBSET Event, IsFiniteSet(S)
  PROVE  Picks("replay", S)
  BY LastEvent DEF Picks, Pick, Latest

LEMMA LatestIsLast ==
  ASSUME NEW S \in SUBSET Event, IsFiniteSet(S), S # {}
  PROVE  Latest(S) \in S /\ \A f \in S : ~Before(Latest(S), f)
  BY LastEvent DEF Latest

\* the greatest number of a finite set
LEMMA MaxIn ==
  ASSUME NEW S \in SUBSET Int, IsFiniteSet(S)
  PROVE  \A T \in SUBSET S : T # {} => Max(T) \in T
  <1> DEFINE R == {p \in S \X S : p[1] < p[2]}
  <1>1. \A x, y \in S : <<x, y>> \in R <=> x < y
    OBVIOUS
  <1>2. \A x \in S : <<x, x>> \notin R
    BY <1>1
  <1>3. \A x, y, z \in S : <<x, y>> \in R /\ <<y, z>> \in R => <<x, z>> \in R
    BY <1>1
  <1>4. \A T \in SUBSET S : T # {} => \E x \in T : \A y \in T : x >= y
    <2> HIDE DEF R
    <2>1. \A T \in SUBSET S : T # {} => \E x \in T : \A y \in T : <<x, y>> \notin R
      BY <1>2, <1>3, LastElement
    <2> TAKE T \in SUBSET S
    <2> HAVE T # {}
    <2>2. PICK x \in T : \A y \in T : <<x, y>> \notin R
      BY <2>1
    <2>3. \A y \in T : x >= y
      <3> TAKE y \in T
      <3>1. x \in S /\ y \in S /\ x \in Int /\ y \in Int
        OBVIOUS
      <3>2. ~(x < y)
        BY <1>1, <2>2, <3>1
      <3> QED
        BY <3>1, <3>2
    <2> QED
      BY <2>3
  <1> QED
    BY <1>4 DEF Max

(***************************************************************************)
(* A replay ends on the quantity its events moved.                         *)
(***************************************************************************)
ReplayWalk(S, g) ==
    g = [s \in SUBSET S |->
            IF s = {} THEN Empty ELSE ReplayEvent(Latest(s), g[s \ {Latest(s)}])]

LEMMA ReplayIsFold ==
  ASSUME NEW S \in SUBSET Event, IsFiniteSet(S), NEW f, \A e \in S : f[e] = e
  PROVE  Replay(S) = Folded("replay", f, Empty, S)
  <1> DEFINE end == CHOOSE g : ReplayWalk(S, g)
  <1>1. Picks("replay", S)
    BY LatestIn
  <1>2. \A s \in SUBSET S : s # {} => f[Latest(s)] = Latest(s)
    BY <1>1 DEF Picks, Pick
  <1>3. \A g : ReplayWalk(S, g) <=> Walk("replay", f, Empty, S, g)
    <2> TAKE g
    <2> DEFINE one == [s \in SUBSET S |->
                          IF s = {} THEN Empty ELSE ReplayEvent(Latest(s), g[s \ {Latest(s)}])]
               two == [s \in SUBSET S |->
                          IF s = {} THEN Empty
                          ELSE Op("replay", f[Pick("replay", s)], g[s \ {Pick("replay", s)}])]
    <2>1. one = two
      BY <1>2 DEF Op, Pick
    <2> QED
      BY <2>1 DEF ReplayWalk, Walk
  <1>4. Walk("replay", f, Empty, S, WalkOf("replay", f, Empty, S))
    BY <1>1, WalkExists
  <1>5. Walk("replay", f, Empty, S, end)
    BY <1>3, <1>4
  <1>6. end[S] = WalkOf("replay", f, Empty, S)[S]
    <2> HIDE DEF end
    <2> QED
      BY <1>1, <1>4, <1>5, WalkAgree
  <1>7. Replay(S) = end[S]
    BY DEF Replay, MapThenFoldSet, ReplayWalk
  <1> QED
    BY <1>6, <1>7 DEF Folded

LEMMA ReplayLast ==
  ASSUME NEW S \in SUBSET Event, IsFiniteSet(S), S # {}
  PROVE  /\ Latest(S) \in S
         /\ Replay(S) = ReplayEvent(Latest(S), Replay(S \ {Latest(S)}))
  <1> DEFINE f == [e \in S |-> e]
             R == S \ {Latest(S)}
  <1>1. Latest(S) \in S
    BY LatestIn DEF Picks, Pick
  <1>2. R \in SUBSET Event /\ IsFiniteSet(R) /\ \A e \in R : f[e] = e
    BY FS_Subset
  <1>3. Picks("replay", S)
    BY LatestIn
  <1>4. f[Latest(S)] = Latest(S) /\ \A e \in S : f[e] = e
    BY <1>1
  <1> HIDE DEF f
  <1>5. Folded("replay", f, Empty, S) = ReplayEvent(f[Latest(S)], Folded("replay", f, Empty, R))
    BY <1>3, FoldStep DEF Op, Pick
  <1> HIDE DEF R
  <1>6. Replay(R) = Folded("replay", f, Empty, R) /\ Replay(S) = Folded("replay", f, Empty, S)
    BY <1>2, <1>4, ReplayIsFold
  <1> QED
    BY <1>1, <1>4, <1>5, <1>6 DEF R

LEMMA ReplayNone == Replay({}) = Empty
  <1>1. IsFiniteSet({}) /\ {} \in SUBSET Event
    BY FS_EmptySet
  <1>2. Replay({}) = Folded("replay", <<>>, Empty, {})
    BY <1>1, ReplayIsFold
  <1> QED
    BY <1>2, FoldEmpty

LEMMA ReplayQty ==
  ASSUME NEW S \in SUBSET Event, IsFiniteSet(S)
  PROVE  Replay(S) \in Pools /\ Replay(S).qty = SumFunctionOnSet(Moved, S)
  <1> DEFINE right(T) == Replay(T) \in Pools /\ Replay(T).qty = SumFunctionOnSet(Moved, T)
             X == {T \in SUBSET S : ~right(T)}
  <1>1. SUFFICES ASSUME X # {} PROVE FALSE
    OBVIOUS
  <1>0. X \in SUBSET SUBSET S
    OBVIOUS
  <1>2. PICK T \in X : \A U \in SUBSET T : U \in X => U = T
    <2> HIDE DEF X
    <2> QED
      BY <1>0, <1>1, SmallestSubset
  <1>3. T # {}
    <2>1. Empty \in Pools /\ Empty.qty = 0
      BY DEF Empty, Pool, Pools
    <2> QED
      BY <2>1, ReplayNone, SumEmpty
  <1>4. T \in SUBSET Event /\ IsFiniteSet(T)
    BY FS_Subset
  <1> DEFINE e == Latest(T)
             R == T \ {e}
  <1>5. e \in T /\ Replay(T) = ReplayEvent(e, Replay(R))
    BY <1>3, <1>4, ReplayLast
  <1>6. right(R)
    BY <1>2, <1>5
  <1>7. \A x \in T : Moved[x] \in Int
    BY <1>4 DEF Moved, Event
  <1> HIDE DEF e, R
  <1>8. Replay(T) \in Pools /\ Replay(T).qty = Replay(R).qty + Moved[e]
    BY <1>4, <1>5, <1>6, ReplayEventQty
  <1>9. SumFunctionOnSet(Moved, T) = Moved[e] + SumFunctionOnSet(Moved, R)
    BY <1>4, <1>5, <1>7, SumRemove DEF R
  <1>10. SumFunctionOnSet(Moved, R) \in Int
    BY <1>4, <1>7, SumType, FS_Subset DEF R
  <1> QED
    BY <1>2, <1>5, <1>6, <1>7, <1>8, <1>9, <1>10

(***************************************************************************)
(* The lines of a bill, added to a pool or taken out of it.  A weight says *)
(* what a line counts for: its pieces or its price.                        *)
(***************************************************************************)
Weights == [Line -> Int]
Qty == [l \in Line |-> l.qty]

Weighed(W, items) == [i \in DOMAIN items |-> W[items[i]]]
Weight(W, items) == SumFunctionOnSet(Weighed(W, items), DOMAIN items)
Qtys(items) == Weighed(Qty, items)
Pieces(items) == Weight(Qty, items)

LEMMA LinesFinite ==
  ASSUME NEW X, NEW s \in Seq(X)
  PROVE  IsFiniteSet(DOMAIN s) /\ DOMAIN s \in SUBSET Int
  <1>1. Len(s) \in Nat /\ DOMAIN s = 1 .. Len(s)
    BY LenProperties
  <1> QED
    BY <1>1, FS_Interval

LEMMA ElementIn == ASSUME NEW X, NEW s \in Seq(X) PROVE \A i \in DOMAIN s : s[i] \in X
  OBVIOUS

LEMMA QtyIsWeight == Qty \in Weights
  BY DEF Qty, Weights, Line

LEMMA WeightType ==
  ASSUME NEW W \in Weights, NEW items \in Seq(Line)
  PROVE  (\A i \in DOMAIN items : Weighed(W, items)[i] \in Int) /\ Weight(W, items) \in Int
  <1>1. \A i \in DOMAIN items : items[i] \in Line
    BY ElementIn
  <1>2. \A i \in DOMAIN items : Weighed(W, items)[i] \in Int
    BY <1>1 DEF Weighed, Weights
  <1>3. IsFiniteSet(DOMAIN items)
    BY LinesFinite
  <1> QED
    BY <1>2, <1>3, SumType DEF Weight

LEMMA QtysType ==
  \A items \in Seq(Line) : \A i \in DOMAIN items :
     Qtys(items)[i] \in Nat /\ Qtys(items)[i] = items[i].qty
  <1> TAKE items \in Seq(Line)
  <1> TAKE i \in DOMAIN items
  <1>1. items[i] \in Line
    OBVIOUS
  <1>2. Qtys(items)[i] = items[i].qty
    BY <1>1 DEF Qty, Qtys, Weighed
  <1> QED
    BY <1>1, <1>2 DEF Line

AddWalk(items, base, S, g) ==
    g = [s \in SUBSET S |->
            IF s = {} THEN base ELSE AddItem(g[s \ {Max(s)}], items[Max(s)])]

LEMMA AddIsFold ==
  ASSUME NEW items \in Seq(Line), NEW base
  PROVE  FoldLeft(AddItem, base, items) = Folded("add", items, base, DOMAIN items)
  <1> DEFINE S == DOMAIN items
             end == CHOOSE g : AddWalk(items, base, S, g)
  <1>1. IsFiniteSet(S) /\ Picks("add", S)
    BY LinesFinite, MaxIn DEF Picks, Pick
  <1>2. \A g : AddWalk(items, base, S, g) <=> Walk("add", items, base, S, g)
    BY DEF AddWalk, Walk, Op, Pick
  <1>3. Walk("add", items, base, S, WalkOf("add", items, base, S))
    <2> HIDE DEF S
    <2> QED
      BY <1>1, WalkExists
  <1>4. Walk("add", items, base, S, end)
    <2> HIDE DEF S
    <2> QED
      BY <1>2, <1>3
  <1>5. end[S] = WalkOf("add", items, base, S)[S]
    <2> HIDE DEF end, S
    <2> QED
      BY <1>1, <1>3, <1>4, WalkAgree
  <1>6. FoldLeft(AddItem, base, items) = end[S]
    BY DEF FoldLeft, MapThenFoldSet, AddWalk
  <1> QED
    BY <1>5, <1>6 DEF Folded

LEMMA AddQty ==
  ASSUME NEW items \in Seq(Line), NEW base \in Pools
  PROVE  /\ FoldLeft(AddItem, base, items) \in Pools
         /\ FoldLeft(AddItem, base, items).qty = base.qty + Pieces(items)
  <1> DEFINE S == DOMAIN items
             fold(T) == Folded("add", items, base, T)
             sum(T) == SumFunctionOnSet(Qtys(items), T)
             right(T) == fold(T) \in Pools /\ fold(T).qty = base.qty + sum(T)
             X == {T \in SUBSET S : ~right(T)}
  <1>0. IsFiniteSet(S) /\ S \in SUBSET Int
    BY LinesFinite
  <1>1. SUFFICES ASSUME X # {} PROVE FALSE
    <2>1. X = {} => right(S)
      OBVIOUS
    <2> HIDE DEF X
    <2> QED
      BY <2>1, AddIsFold DEF Pieces, Weight, Qtys
  <1>2. X \in SUBSET SUBSET S
    OBVIOUS
  <1>3. PICK T \in X : \A U \in SUBSET T : U \in X => U = T
    <2> HIDE DEF X
    <2> QED
      BY <1>0, <1>1, <1>2, SmallestSubset
  <1>4. T \in SUBSET S /\ ~right(T) /\ IsFiniteSet(T)
    BY <1>0, FS_Subset
  <1>5. T # {}
    <2>1. base.qty \in Int
      BY DEF Pools
    <2>2. fold({}) = base /\ sum({}) = 0
      BY FoldEmpty, SumEmpty
    <2>3. right({})
      BY <2>1, <2>2
    <2> HIDE DEF right
    <2> QED
      BY <1>4, <2>3
  <1> DEFINE i == Max(T)
             R == T \ {i}
  <1>6. i \in T /\ Picks("add", T)
    <2>1. \A U \in SUBSET T : U # {} => Max(U) \in U
      BY <1>0, <1>4, MaxIn
    <2>2. i \in T
      BY <1>5, <2>1
    <2> QED
      BY <1>4, <2>1, <2>2 DEF Picks, Pick
  <1>7. right(R)
    <2>1. R \in SUBSET T /\ R # T /\ R \in SUBSET S
      BY <1>4, <1>6
    <2>2. R \notin X
      <3> HIDE DEF X, R
      <3> QED
        BY <1>3, <2>1
    <2> HIDE DEF right, R
    <2> QED
      BY <2>1, <2>2
  <1>8. fold(T) = AddItem(fold(R), items[i])
    <2> HIDE DEF R
    <2> QED
      BY <1>4, <1>5, <1>6, FoldStep DEF R, Op, Pick
  <1>9. items[i] \in Line
    BY <1>4, <1>6
  <1>10. items[i].qty \in Int /\ items[i].price \in Int /\ \A x \in T : Qtys(items)[x] \in Int
    BY <1>4, <1>9, QtysType DEF Line
  <1>11. fold(T) \in Pools /\ fold(T).qty = fold(R).qty + items[i].qty
    <2> HIDE DEF fold, i, R, X
    <2> QED
      BY <1>7, <1>8, <1>10, PurchaseQty DEF AddItem
  <1>12. sum(T) = items[i].qty + sum(R) /\ sum(R) \in Int
    <2>1. Qtys(items)[i] = items[i].qty
      BY <1>4, <1>6, QtysType
    <2>2. SumFunctionOnSet(Qtys(items), T) = Qtys(items)[i] + SumFunctionOnSet(Qtys(items), T \ {i})
      <3> HIDE DEF i, X
      <3> QED
        BY <1>4, <1>6, <1>10, SumRemove
    <2>3. IsFiniteSet(R) /\ \A x \in R : Qtys(items)[x] \in Int
      BY <1>4, <1>10, FS_Subset
    <2>4. sum(R) \in Int
      <3> HIDE DEF i, R, X
      <3> QED
        BY <2>3, SumType
    <2> QED
      BY <2>1, <2>2, <2>4
  <1>13. base.qty \in Int
    BY DEF Pools
  <1> QED
    <2> HIDE DEF fold, sum, i, R, X, S
    <2> QED
      BY <1>4, <1>7, <1>10, <1>11, <1>12, <1>13

TakeWalk(items, base, S, g) ==
    g = [s \in SUBSET S |->
            IF s = {} THEN base ELSE TakeItem(g[s \ {Max(s)}], items[Max(s)])]

LEMMA TakeIsFold ==
  ASSUME NEW items \in Seq(Line), NEW base
  PROVE  FoldLeft(TakeItem, base, items) = Folded("take", items, base, DOMAIN items)
  <1> DEFINE S == DOMAIN items
             end == CHOOSE g : TakeWalk(items, base, S, g)
  <1>1. IsFiniteSet(S) /\ Picks("take", S)
    BY LinesFinite, MaxIn DEF Picks, Pick
  <1>2. \A g : TakeWalk(items, base, S, g) <=> Walk("take", items, base, S, g)
    BY DEF TakeWalk, Walk, Op, Pick
  <1>3. Walk("take", items, base, S, WalkOf("take", items, base, S))
    <2> HIDE DEF S
    <2> QED
      BY <1>1, WalkExists
  <1>4. Walk("take", items, base, S, end)
    <2> HIDE DEF S
    <2> QED
      BY <1>2, <1>3
  <1>5. end[S] = WalkOf("take", items, base, S)[S]
    <2> HIDE DEF end, S
    <2> QED
      BY <1>1, <1>3, <1>4, WalkAgree
  <1>6. FoldLeft(TakeItem, base, items) = end[S]
    BY DEF FoldLeft, MapThenFoldSet, TakeWalk
  <1> QED
    BY <1>5, <1>6 DEF Folded

LEMMA TakeQty ==
  ASSUME NEW items \in Seq(Line), NEW base \in Pools
  PROVE  /\ FoldLeft(TakeItem, base, items) \in Pools
         /\ FoldLeft(TakeItem, base, items).qty = base.qty - Pieces(items)
  <1> DEFINE S == DOMAIN items
             fold(T) == Folded("take", items, base, T)
             sum(T) == SumFunctionOnSet(Qtys(items), T)
             right(T) == fold(T) \in Pools /\ fold(T).qty = base.qty - sum(T)
             X == {T \in SUBSET S : ~right(T)}
  <1>0. IsFiniteSet(S) /\ S \in SUBSET Int
    BY LinesFinite
  <1>1. SUFFICES ASSUME X # {} PROVE FALSE
    <2>1. X = {} => right(S)
      OBVIOUS
    <2> HIDE DEF X
    <2> QED
      BY <2>1, TakeIsFold DEF Pieces, Weight, Qtys
  <1>2. X \in SUBSET SUBSET S
    OBVIOUS
  <1>3. PICK T \in X : \A U \in SUBSET T : U \in X => U = T
    <2> HIDE DEF X
    <2> QED
      BY <1>0, <1>1, <1>2, SmallestSubset
  <1>4. T \in SUBSET S /\ ~right(T) /\ IsFiniteSet(T)
    BY <1>0, FS_Subset
  <1>5. T # {}
    <2>1. base.qty \in Int
      BY DEF Pools
    <2>2. fold({}) = base /\ sum({}) = 0
      BY FoldEmpty, SumEmpty
    <2>3. right({})
      BY <2>1, <2>2
    <2> HIDE DEF right
    <2> QED
      BY <1>4, <2>3
  <1> DEFINE i == Max(T)
             R == T \ {i}
  <1>6. i \in T /\ Picks("take", T)
    <2>1. \A U \in SUBSET T : U # {} => Max(U) \in U
      BY <1>0, <1>4, MaxIn
    <2>2. i \in T
      BY <1>5, <2>1
    <2> QED
      BY <1>4, <2>1, <2>2 DEF Picks, Pick
  <1>7. right(R)
    <2>1. R \in SUBSET T /\ R # T /\ R \in SUBSET S
      BY <1>4, <1>6
    <2>2. R \notin X
      <3> HIDE DEF X, R
      <3> QED
        BY <1>3, <2>1
    <2> HIDE DEF right, R
    <2> QED
      BY <2>1, <2>2
  <1>8. fold(T) = TakeItem(fold(R), items[i])
    <2> HIDE DEF R
    <2> QED
      BY <1>4, <1>5, <1>6, FoldStep DEF R, Op, Pick
  <1>9. items[i] \in Line
    BY <1>4, <1>6
  <1>10. items[i].qty \in Int /\ items[i].price \in Int /\ \A x \in T : Qtys(items)[x] \in Int
    BY <1>4, <1>9, QtysType DEF Line
  <1>11. fold(T) \in Pools /\ fold(T).qty = fold(R).qty - items[i].qty
    <2> HIDE DEF fold, i, R, X
    <2> QED
      BY <1>7, <1>8, <1>10, TakeBackQty DEF TakeItem
  <1>12. sum(T) = items[i].qty + sum(R) /\ sum(R) \in Int
    <2>1. Qtys(items)[i] = items[i].qty
      BY <1>4, <1>6, QtysType
    <2>2. SumFunctionOnSet(Qtys(items), T) = Qtys(items)[i] + SumFunctionOnSet(Qtys(items), T \ {i})
      <3> HIDE DEF i, X
      <3> QED
        BY <1>4, <1>6, <1>10, SumRemove
    <2>3. IsFiniteSet(R) /\ \A x \in R : Qtys(items)[x] \in Int
      BY <1>4, <1>10, FS_Subset
    <2>4. sum(R) \in Int
      <3> HIDE DEF i, R, X
      <3> QED
        BY <2>3, SumType
    <2> QED
      BY <2>1, <2>2, <2>4
  <1>13. base.qty \in Int
    BY DEF Pools
  <1> QED
    <2> HIDE DEF fold, sum, i, R, X, S
    <2> QED
      BY <1>4, <1>7, <1>10, <1>11, <1>12, <1>13

(***************************************************************************)
(* The rows, as the events of a replay.                                    *)
(***************************************************************************)
BillRows == [Bills -> BillRow]

CountedBills(B) == {b \in Bills : Counted(B, b)}
BillLines(B, b) == {<<b, i>> : i \in DOMAIN B[b].items}
LinesOf(B) == UNION {BillLines(B, b) : b \in CountedBills(B)}
LineWeights(W, B) == [k \in LinesOf(B) |-> W[B[k[1]].items[k[2]]]]
WeightIn(W, B) == SumFunctionOnSet(LineWeights(W, B), LinesOf(B))
BoughtIn(B) == WeightIn(Qty, B)

LEMMA LineIn ==
  ASSUME NEW B \in BillRows, NEW b \in Bills
  PROVE  /\ B[b].items \in Seq(Line) /\ B[b].date \in 0 .. MaxDay
         /\ \A i \in DOMAIN B[b].items : B[b].items[i] \in Line /\ i \in Nat
  <1>1. B[b].items \in Seq(Line) /\ B[b].date \in 0 .. MaxDay
    BY DEF BillRows, BillRow
  <1>2. DOMAIN B[b].items = 1 .. Len(B[b].items) /\ Len(B[b].items) \in Nat
    BY <1>1, LenProperties
  <1> QED
    BY <1>1, <1>2

LEMMA LineInBill ==
  ASSUME NEW B, NEW k \in LinesOf(B)
  PROVE  /\ k[1] \in CountedBills(B) /\ k[1] \in Bills
         /\ k[2] \in DOMAIN B[k[1]].items /\ k = <<k[1], k[2]>>
  BY DEF LinesOf, BillLines, CountedBills

LEMMA LineOf ==
  ASSUME NEW B \in BillRows, NEW k \in LinesOf(B)
  PROVE  B[k[1]].items[k[2]] \in Line
  <1>1. k[1] \in Bills /\ k[2] \in DOMAIN B[k[1]].items
    BY LineInBill
  <1> QED
    BY <1>1, LineIn

LEMMA LineWeightType ==
  ASSUME NEW W \in Weights, NEW B \in BillRows
  PROVE  \A k \in LinesOf(B) : LineWeights(W, B)[k] \in Int
  BY LineOf DEF LineWeights, Weights

LEMMA BoughtIsBoughtIn == TypeOK => Bought = BoughtIn(bills)
  <1> SUFFICES ASSUME TypeOK PROVE Bought = BoughtIn(bills)
    OBVIOUS
  <1> DEFINE F == [k \in BillItems |-> Item(k).qty]
  <1>1. BillItems = LinesOf(bills) /\ bills \in BillRows
    BY DEF BillItems, LinesOf, BillLines, CountedBills, TypeOK, BillRows
  <1>2. \A k \in LinesOf(bills) : F[k] = LineWeights(Qty, bills)[k]
    BY <1>1, LineOf DEF LineWeights, Item, Qty
  <1>3. F = LineWeights(Qty, bills)
    BY <1>1, <1>2 DEF LineWeights
  <1>4. Bought = SumFunctionOnSet(F, BillItems)
    BY DEF Bought, SumFunction
  <1> HIDE DEF F
  <1> QED
    BY <1>1, <1>3, <1>4 DEF BoughtIn, WeightIn

LEMMA BillLinesFinite ==
  ASSUME NEW B \in BillRows, NEW b \in Bills
  PROVE  IsFiniteSet(BillLines(B, b))
  <1> DEFINE S == DOMAIN B[b].items
             name == [i \in S |-> <<b, i>>]
  <1>1. IsFiniteSet(S)
    BY LineIn, LinesFinite
  <1>2. BillLines(B, b) = {name[i] : i \in S}
    BY DEF BillLines
  <1> HIDE DEF S, name
  <1> QED
    BY <1>1, <1>2, FiniteImage

LEMMA LinesOfFinite ==
  ASSUME NEW B \in BillRows
  PROVE  IsFiniteSet(LinesOf(B))
  <1> DEFINE S == CountedBills(B)
             name == [b \in S |-> BillLines(B, b)]
             T == {name[b] : b \in S}
  <1>1. IsFiniteSet(S)
    BY LedgerAssumption, FS_Subset DEF CountedBills
  <1>2. IsFiniteSet(T)
    <2> HIDE DEF S, name
    <2> QED
      BY <1>1, FiniteImage
  <1>3. \A L \in T : IsFiniteSet(L)
    BY BillLinesFinite DEF CountedBills
  <1>4. LinesOf(B) = UNION T
    BY DEF LinesOf
  <1> HIDE DEF T
  <1> QED
    BY <1>2, <1>3, <1>4, FS_UNION

LEMMA TimesType ==
  ASSUME NEW d \in 0 .. MaxDay
  PROVE  Midnight(d) \in Nat
  <1>1. DayLength \in Nat
    BY LedgerAssumption DEF DayLength
  <1>2. d \in Nat
    BY LedgerAssumption
  <1> QED
    BY <1>1, <1>2 DEF Midnight

Purchase(B, k) == [kind |-> "purchase", ts |-> Midnight(B[k[1]].date), id |-> k[1], line |-> k[2],
                   qty |-> B[k[1]].items[k[2]].qty, price |-> B[k[1]].items[k[2]].price]

LEMMA PurchaseEventsAre ==
  ASSUME NEW B
  PROVE  PurchaseEvents(B) = {Purchase(B, k) : k \in LinesOf(B)}
  <1>1. ASSUME NEW e \in PurchaseEvents(B)
        PROVE  e \in {Purchase(B, k) : k \in LinesOf(B)}
    <2>0. PICK b \in CountedBills(B) : \E i \in DOMAIN B[b].items :
             e = [kind |-> "purchase", ts |-> Midnight(B[b].date), id |-> b, line |-> i,
                  qty |-> B[b].items[i].qty, price |-> B[b].items[i].price]
      BY DEF PurchaseEvents, CountedBills
    <2>1. PICK i \in DOMAIN B[b].items :
             e = [kind |-> "purchase", ts |-> Midnight(B[b].date), id |-> b, line |-> i,
                  qty |-> B[b].items[i].qty, price |-> B[b].items[i].price]
      BY <2>0
    <2>2. <<b, i>> \in LinesOf(B)
      BY DEF LinesOf, BillLines
    <2>3. e = Purchase(B, <<b, i>>)
      BY <2>1 DEF Purchase
    <2> QED
      BY <2>2, <2>3
  <1>2. ASSUME NEW k \in LinesOf(B)
        PROVE  Purchase(B, k) \in PurchaseEvents(B)
    BY LineInBill DEF Purchase, PurchaseEvents, CountedBills
  <1> QED
    BY <1>1, <1>2

LEMMA PurchaseIsEvent ==
  ASSUME NEW B \in BillRows, NEW k \in LinesOf(B)
  PROVE  Purchase(B, k) \in Event
  <1>1. k[1] \in Bills /\ k[2] \in DOMAIN B[k[1]].items
    BY LineInBill
  <1>2. B[k[1]].items[k[2]] \in Line /\ k[1] \in Nat /\ k[2] \in Nat /\ B[k[1]].date \in 0 .. MaxDay
    BY <1>1, LineIn, LedgerAssumption
  <1>3. Midnight(B[k[1]].date) \in Nat
    BY <1>2, TimesType
  <1> QED
    BY <1>2, <1>3 DEF Purchase, Event, Line

LEMMA PurchasesDiffer ==
  ASSUME NEW B, NEW k \in LinesOf(B), NEW m \in LinesOf(B),
         Purchase(B, k).id = Purchase(B, m).id, Purchase(B, k).line = Purchase(B, m).line
  PROVE  k = m
  <1>1. k[1] = m[1] /\ k[2] = m[2]
    BY DEF Purchase
  <1> QED
    BY <1>1, LineInBill

\* adding up over the purchases is adding up over the lines
LEMMA PurchaseSum ==
  ASSUME NEW B \in BillRows, NEW F, NEW G,
         \A k \in LinesOf(B) : F[k] \in Int /\ G[Purchase(B, k)] = F[k]
  PROVE  SumFunctionOnSet(G, PurchaseEvents(B)) = SumFunctionOnSet(F, LinesOf(B))
  <1> DEFINE S == LinesOf(B)
             name == [k \in S |-> Purchase(B, k)]
  <1>1. \A k, m \in S : name[k] = name[m] => k = m
    BY PurchasesDiffer
  <1>2. PurchaseEvents(B) = {name[k] : k \in S}
    BY PurchaseEventsAre
  <1>3. \A k \in S : F[k] \in Int /\ G[name[k]] = F[k]
    OBVIOUS
  <1>4. IsFiniteSet(S)
    BY LinesOfFinite
  <1> HIDE DEF S, name
  <1>5. SumFunctionOnSet(G, {name[k] : k \in S}) = SumFunctionOnSet(F, S)
    BY <1>1, <1>3, <1>4, SumRenamed
  <1> QED
    BY <1>2, <1>5 DEF S

LEMMA PurchaseMoves ==
  ASSUME NEW B \in BillRows
  PROVE  /\ PurchaseEvents(B) \in SUBSET Event /\ IsFiniteSet(PurchaseEvents(B))
         /\ SumFunctionOnSet(Moved, PurchaseEvents(B)) = BoughtIn(B)
  <1> DEFINE S == LinesOf(B)
             name == [k \in S |-> Purchase(B, k)]
             F == LineWeights(Qty, B)
  <1>1. \A k \in S : F[k] \in Int /\ Moved[Purchase(B, k)] = F[k]
    <2> TAKE k \in S
    <2>1. B[k[1]].items[k[2]] \in Line /\ Purchase(B, k) \in Event
      BY LineOf, PurchaseIsEvent
    <2>2. Moved[Purchase(B, k)] = F[k]
      BY <2>1 DEF Purchase, Moved, LineWeights, Qty
    <2> QED
      BY <2>2, LineWeightType, QtyIsWeight
  <1>2. PurchaseEvents(B) = {name[k] : k \in S} /\ IsFiniteSet(S)
    BY PurchaseEventsAre, LinesOfFinite
  <1>3. PurchaseEvents(B) \in SUBSET Event
    BY PurchaseIsEvent, PurchaseEventsAre
  <1>4. SumFunctionOnSet(Moved, PurchaseEvents(B)) = SumFunctionOnSet(F, S)
    <2> HIDE DEF F
    <2> QED
      BY <1>1, PurchaseSum
  <1>5. BoughtIn(B) = SumFunctionOnSet(F, S)
    BY DEF BoughtIn, WeightIn
  <1> HIDE DEF S, name, F
  <1>6. IsFiniteSet(PurchaseEvents(B))
    BY <1>2, FiniteImage
  <1> QED
    BY <1>3, <1>4, <1>5, <1>6

LEMMA AdjustMoves ==
  ASSUME TypeOK
  PROVE  /\ AdjustEvents \in SUBSET Event /\ IsFiniteSet(AdjustEvents)
         /\ SumFunctionOnSet(Moved, AdjustEvents) = Adjusted
  <1> DEFINE S == DOMAIN adjs
             event(i) == [kind |-> "adjustment", ts |-> adjs[i].ts, id |-> i, line |-> 0,
                          qty |-> adjs[i].delta, price |-> 0]
             name == [i \in S |-> event(i)]
             F == [i \in S |-> adjs[i].delta]
  <1>1. IsFiniteSet(S) /\ \A i \in S : i \in Nat /\ adjs[i] \in AdjRow
    <2>1. adjs \in Seq(AdjRow)
      BY DEF TypeOK
    <2>2. S = 1 .. Len(adjs) /\ Len(adjs) \in Nat
      BY <2>1, LenProperties
    <2>3. IsFiniteSet(S)
      BY <2>1, LinesFinite
    <2>4. \A i \in S : adjs[i] \in AdjRow
      BY <2>1, ElementIn
    <2> QED
      BY <2>2, <2>3, <2>4
  <1>2. \A i \in S : event(i) \in Event
    BY <1>1 DEF Event, AdjRow
  <1>3. \A i \in S : F[i] \in Int /\ Moved[name[i]] = F[i]
    BY <1>1, <1>2 DEF Moved, AdjRow
  <1>4. \A i, j \in S : name[i] = name[j] => i = j
    <2> SUFFICES ASSUME NEW i \in S, NEW j \in S, name[i] = name[j] PROVE i = j
      OBVIOUS
    <2>1. event(i).id = event(j).id
      OBVIOUS
    <2> QED
      BY <2>1
  <1>5. AdjustEvents = {name[i] : i \in S}
    BY DEF AdjustEvents
  <1>6. Adjusted = SumFunctionOnSet(F, S)
    BY DEF Adjusted, SumFunction
  <1>7. AdjustEvents \in SUBSET Event
    BY <1>2, <1>5
  <1> HIDE DEF S, name, F
  <1>8. IsFiniteSet(AdjustEvents)
    BY <1>1, <1>5, FiniteImage
  <1>9. SumFunctionOnSet(Moved, {name[i] : i \in S}) = SumFunctionOnSet(F, S)
    BY <1>1, <1>3, <1>4, SumRenamed
  <1> QED
    BY <1>5, <1>6, <1>7, <1>8, <1>9

LEMMA SaleIn ==
  ASSUME TypeOK
  PROVE  /\ IsFiniteSet(DOMAIN sales) /\ DOMAIN sales = 1 .. Len(sales) /\ Len(sales) \in Nat
         /\ \A i \in DOMAIN sales : /\ sales[i] \in SaleRow
                                    /\ sales[i].qty \in Nat /\ sales[i].qty > 0 /\ i \in Nat
         /\ IsFiniteSet(Standing) /\ Standing \in SUBSET DOMAIN sales
  <1>1. sales \in Seq(SaleRow)
    BY DEF TypeOK
  <1>2. DOMAIN sales = 1 .. Len(sales) /\ Len(sales) \in Nat
    BY <1>1, LenProperties
  <1>3. IsFiniteSet(DOMAIN sales)
    BY <1>1, LinesFinite
  <1>4. \A i \in DOMAIN sales : sales[i] \in SaleRow
    BY <1>1, ElementIn
  <1>5. \A i \in DOMAIN sales : sales[i].qty \in Nat /\ sales[i].qty > 0
    <2> TAKE i \in DOMAIN sales
    <2>1. sales[i].qty \in Quantities
      BY <1>4 DEF SaleRow
    <2>2. \A q \in Quantities : q \in Nat /\ q > 0
      BY LedgerAssumption
    <2> QED
      BY <2>1, <2>2
  <1>6. Standing \in SUBSET DOMAIN sales
    BY DEF Standing
  <1> QED
    BY <1>2, <1>3, <1>4, <1>5, <1>6, FS_Subset

SaleEvent(i) == [kind |-> "sale", ts |-> sales[i].ts, id |-> i, line |-> 0,
                 qty |-> sales[i].qty, price |-> 0]

LEMMA SaleIsEvent ==
  ASSUME TypeOK, NEW i \in Standing
  PROVE  SaleEvent(i) \in Event
  <1>1. i \in Nat /\ sales[i].qty \in Nat /\ sales[i].ts \in Nat
    BY SaleIn DEF SaleRow
  <1> QED
    BY <1>1 DEF Event, SaleEvent

LEMMA SaleEventsAre == SaleEvents = {SaleEvent(i) : i \in Standing}
  BY DEF SaleEvents, Standing, SaleEvent

\* adding up over the sale events is adding up over the standing sales
LEMMA SaleSum ==
  ASSUME TypeOK, NEW F, NEW G,
         \A i \in Standing : F[i] \in Int /\ G[SaleEvent(i)] = F[i]
  PROVE  SumFunctionOnSet(G, SaleEvents) = SumFunctionOnSet(F, Standing)
  <1> DEFINE S == Standing
             name == [i \in S |-> SaleEvent(i)]
  <1>1. \A i, j \in S : name[i] = name[j] => i = j
    <2> SUFFICES ASSUME NEW i \in S, NEW j \in S, name[i] = name[j] PROVE i = j
      OBVIOUS
    <2>1. SaleEvent(i).id = SaleEvent(j).id
      OBVIOUS
    <2> QED
      BY <2>1 DEF SaleEvent
  <1>2. SaleEvents = {name[i] : i \in S}
    BY SaleEventsAre
  <1>3. IsFiniteSet(S) /\ \A i \in S : F[i] \in Int /\ G[name[i]] = F[i]
    BY SaleIn
  <1> HIDE DEF S, name
  <1>4. SumFunctionOnSet(G, {name[i] : i \in S}) = SumFunctionOnSet(F, S)
    BY <1>1, <1>3, SumRenamed
  <1> QED
    BY <1>2, <1>4 DEF S

LEMMA SaleMoves ==
  ASSUME TypeOK
  PROVE  /\ SaleEvents \in SUBSET Event /\ IsFiniteSet(SaleEvents)
         /\ SumFunctionOnSet(Moved, SaleEvents) = -Sold
  <1> DEFINE S == Standing
             name == [i \in S |-> SaleEvent(i)]
             F == [i \in S |-> sales[i].qty]
             G == [i \in S |-> -sales[i].qty]
  <1>1. IsFiniteSet(S) /\ \A i \in S : sales[i].qty \in Nat
    BY SaleIn
  <1>2. \A i \in S : G[i] \in Int /\ Moved[SaleEvent(i)] = G[i] /\ F[i] \in Int /\ G[i] = -F[i]
    BY <1>1, SaleIsEvent DEF Moved, SaleEvent
  <1>3. SaleEvents = {name[i] : i \in S}
    BY SaleEventsAre
  <1>4. Sold = SumFunctionOnSet(F, S)
    BY DEF Sold, SumFunction
  <1>5. SaleEvents \in SUBSET Event
    BY SaleIsEvent, SaleEventsAre
  <1>6. SumFunctionOnSet(Moved, SaleEvents) = SumFunctionOnSet(G, S)
    <2> HIDE DEF G
    <2> QED
      BY <1>2, SaleSum
  <1> HIDE DEF S, name, F, G
  <1>7. IsFiniteSet(SaleEvents)
    BY <1>1, <1>3, FiniteImage
  <1>8. SumFunctionOnSet(G, S) = -SumFunctionOnSet(F, S)
    BY <1>1, <1>2, SumNegated
  <1> QED
    BY <1>4, <1>5, <1>6, <1>7, <1>8

(***************************************************************************)
(* A replay of all rows ends on the quantity they add up to.               *)
(***************************************************************************)
LEMMA WeightInType ==
  ASSUME NEW W \in Weights, NEW B \in BillRows
  PROVE  WeightIn(W, B) \in Int
  <1>1. \A k \in LinesOf(B) : LineWeights(W, B)[k] \in Int
    BY LineWeightType
  <1> QED
    BY <1>1, LinesOfFinite, SumType DEF WeightIn

LEMMA SumsType ==
  ASSUME TypeOK, NEW B \in BillRows
  PROVE  BoughtIn(B) \in Int /\ Adjusted \in Int /\ Sold \in Int
  <1>1. BoughtIn(B) \in Int
    BY WeightInType, QtyIsWeight DEF BoughtIn
  <1>2. ASSUME NEW S \in SUBSET Event, IsFiniteSet(S)
        PROVE  SumFunctionOnSet(Moved, S) \in Int
    <2>1. \A e \in S : Moved[e] \in Int
      BY DEF Moved, Event
    <2> QED
      BY <1>2, <2>1, SumType
  <1>3. Adjusted \in Int
    BY <1>2, AdjustMoves
  <1>4. Sold \in Int
    <2> DEFINE F == [i \in Standing |-> sales[i].qty]
    <2>1. IsFiniteSet(Standing) /\ \A i \in Standing : F[i] \in Int
      BY SaleIn
    <2>2. Sold = SumFunctionOnSet(F, Standing)
      BY DEF Sold, SumFunction
    <2> HIDE DEF F
    <2> QED
      BY <2>1, <2>2, SumType
  <1> QED
    BY <1>1, <1>3, <1>4

LEMMA EventsQty ==
  ASSUME TypeOK, NEW B \in BillRows
  PROVE  /\ Events(B) \in SUBSET Event /\ IsFiniteSet(Events(B))
         /\ SumFunctionOnSet(Moved, Events(B)) = BoughtIn(B) + Adjusted - Sold
  <1> DEFINE P == PurchaseEvents(B)
             A == AdjustEvents
             S == SaleEvents
  <1>1. P \in SUBSET Event /\ IsFiniteSet(P) /\ SumFunctionOnSet(Moved, P) = BoughtIn(B)
    BY PurchaseMoves
  <1>2. A \in SUBSET Event /\ IsFiniteSet(A) /\ SumFunctionOnSet(Moved, A) = Adjusted
    BY AdjustMoves
  <1>3. S \in SUBSET Event /\ IsFiniteSet(S) /\ SumFunctionOnSet(Moved, S) = -Sold
    BY SaleMoves
  <1>4. /\ \A e \in P : e.kind = "purchase"
        /\ \A e \in A : e.kind = "adjustment"
        /\ \A e \in S : e.kind = "sale"
    BY PurchaseEventsAre DEF Purchase, AdjustEvents, SaleEvents
  <1>5. P \cap A = {} /\ (P \cup A) \cap S = {}
    BY <1>4
  <1>6. Events(B) = (P \cup A) \cup S
    BY DEF Events
  <1>7. \A e \in Event : Moved[e] \in Int
    BY DEF Moved, Event
  <1> HIDE DEF P, A, S
  <1>8. IsFiniteSet(P \cup A) /\ IsFiniteSet(Events(B))
    BY <1>1, <1>2, <1>3, <1>6, FS_Union
  <1>9. SumFunctionOnSet(Moved, P \cup A) = SumFunctionOnSet(Moved, P) + SumFunctionOnSet(Moved, A)
    BY <1>1, <1>2, <1>5, <1>7, SumUnion
  <1>10. SumFunctionOnSet(Moved, (P \cup A) \cup S)
            = SumFunctionOnSet(Moved, P \cup A) + SumFunctionOnSet(Moved, S)
    BY <1>1, <1>2, <1>3, <1>5, <1>7, <1>8, SumUnion
  <1>11. BoughtIn(B) \in Int /\ Adjusted \in Int /\ Sold \in Int
    BY SumsType
  <1>12. Events(B) \in SUBSET Event
    BY <1>1, <1>2, <1>3, <1>6
  <1> QED
    BY <1>1, <1>2, <1>3, <1>6, <1>8, <1>9, <1>10, <1>11, <1>12

(***************************************************************************)
(* The tasks of a thread.                                                  *)
(***************************************************************************)
LEMMA PlainTasks ==
  /\ idle \in Tasks /\ [at |-> "snapshot"] \in Tasks
  /\ [at |-> "mark"] \in Tasks /\ [at |-> "clear"] \in Tasks
  BY DEF Tasks, idle

LEMMA DatedTasks ==
  /\ \A d \in 0 .. MaxDay : [at |-> "crossed", date |-> d] \in Tasks
  /\ \A b \in Bills, d \in 1 .. MaxDay, t \in Statuses :
        [at |-> "patch", bill |-> b, date |-> d, status |-> t] \in Tasks
  BY DEF Tasks

LEMMA RowTasks ==
  /\ \A d \in Int \ {0} : [at |-> "adjust", delta |-> d] \in Tasks
  /\ \A S \in SUBSET Event, c \in Seq(Int) :
        IsFiniteSet(S) => [at |-> "write", events |-> S, costs |-> c] \in Tasks
  <1>1. \A d \in Int \ {0} : [at |-> "adjust", delta |-> d] \in Tasks
    BY DEF Tasks
  <1>2. ASSUME NEW S \in SUBSET Event, NEW c \in Seq(Int), IsFiniteSet(S)
        PROVE  [at |-> "write", events |-> S, costs |-> c] \in Tasks
    <2> DEFINE E == {T \in SUBSET Event : IsFiniteSet(T)}
    <2>1. S \in E
      BY <1>2
    <2> HIDE DEF E
    <2>2. [at |-> "write", events |-> S, costs |-> c] \in [at : {"write"}, events : E, costs : Seq(Int)]
      BY <2>1
    <2> QED
      BY <2>2 DEF Tasks, E
  <1> QED
    BY <1>1, <1>2

LEMMA TaskIs ==
  ASSUME NEW t \in Tasks
  PROVE  /\ t.at = "crossed" => t.date \in 0 .. MaxDay
         /\ t.at = "patch" => /\ t.bill \in Bills /\ t.date \in 1 .. MaxDay
                             /\ t.status \in Statuses
         /\ t.at = "adjust" => t.delta \in Int \ {0}
         /\ t.at = "write" => /\ t.events \in SUBSET Event /\ IsFiniteSet(t.events)
                             /\ t.costs \in Seq(Int)
  <1> DEFINE E == {T \in SUBSET Event : IsFiniteSet(T)}
  <1>1. \/ t \in [at : {"idle", "snapshot", "mark", "clear"}]
        \/ t \in [at : {"crossed"}, date : 0 .. MaxDay]
        \/ t \in [at : {"patch"}, bill : Bills, date : 1 .. MaxDay, status : Statuses]
        \/ t \in [at : {"adjust"}, delta : Int \ {0}]
        \/ t \in [at : {"write"}, events : E, costs : Seq(Int)]
    BY DEF Tasks
  <1>2. \A T \in E : T \in SUBSET Event /\ IsFiniteSet(T)
    OBVIOUS
  <1> HIDE DEF E
  <1> QED
    BY <1>1, <1>2

LEMMA WorkerTask == TypeOK => \A w \in Workers : worker[w] \in Tasks
  BY DEF TypeOK

LEMMA StartTask ==
  ASSUME TypeOK, NEW w \in Workers, NEW t \in Tasks, Start(w, t)
  PROVE  worker' \in [Workers -> Tasks] /\ worker[w] = idle /\ worker' = [worker EXCEPT ![w] = t]
  BY DEF Start, TypeOK

LEMMA ContinueTask ==
  ASSUME TypeOK, NEW w \in Workers, NEW from, NEW t \in Tasks, Continue(w, from, t)
  PROVE  worker' \in [Workers -> Tasks] /\ worker' = [worker EXCEPT ![w] = t]
  BY DEF Continue, TypeOK

(***************************************************************************)
(* A rebuild gives sales other costs, nothing else.                        *)
(***************************************************************************)
LEMMA CostType ==
  ASSUME NEW S \in SUBSET Event, IsFiniteSet(S), NEW e
  PROVE  ReplayCost(S, e) \in Int
  <1> DEFINE R == {f \in S : Before(f, e)}
  <1>1. R \in SUBSET Event /\ IsFiniteSet(R)
    BY FS_Subset
  <1> HIDE DEF R
  <1>2. Replay(R) \in Pools
    BY <1>1, ReplayQty
  <1> QED
    BY <1>2 DEF ReplayCost, Pools, R

LEMMA RestatedRows ==
  ASSUME TypeOK, NEW S \in SUBSET Event, IsFiniteSet(S), NEW costs
  PROVE  /\ Restated(S, costs) \in Seq(SaleRow) /\ DOMAIN Restated(S, costs) = DOMAIN sales
         /\ \A i \in DOMAIN sales : /\ Restated(S, costs)[i].qty = sales[i].qty
                                    /\ Restated(S, costs)[i].valid = sales[i].valid
  <1> DEFINE mine(i) == {e \in S : e.kind = "sale" /\ e.id = i}
             new(i) == ReplayCost(S, CHOOSE e \in mine(i) : TRUE)
             row(i) == IF mine(i) # {} /\ new(i) # costs[i] THEN [sales[i] EXCEPT !.cost = new(i)]
                                                            ELSE sales[i]
  <1>1. Restated(S, costs) = [i \in DOMAIN sales |-> row(i)]
    BY DEF Restated
  <1>2. DOMAIN sales = 1 .. Len(sales) /\ Len(sales) \in Nat
    BY SaleIn
  <1>3. \A i \in DOMAIN sales : new(i) \in Int
    BY CostType
  <1>4. \A i \in DOMAIN sales : sales[i] \in SaleRow
    BY SaleIn
  <1>5. ASSUME NEW i \in DOMAIN sales
        PROVE  row(i) \in SaleRow /\ row(i).qty = sales[i].qty /\ row(i).valid = sales[i].valid
    <2>1. sales[i] \in SaleRow /\ new(i) \in Int
      BY <1>3, <1>4
    <2>2. [sales[i] EXCEPT !.cost = new(i)] \in SaleRow
      <3> HIDE DEF new
      <3> QED
        BY <2>1 DEF SaleRow
    <2>3. /\ [sales[i] EXCEPT !.cost = new(i)].qty = sales[i].qty
          /\ [sales[i] EXCEPT !.cost = new(i)].valid = sales[i].valid
      <3> HIDE DEF new
      <3> QED
        BY <2>1 DEF SaleRow
    <2> HIDE DEF new, mine
    <2> QED
      BY <2>1, <2>2, <2>3
  <1> HIDE DEF row
  <1>6. [i \in DOMAIN sales |-> row(i)] \in Seq(SaleRow)
    BY <1>2, <1>5, IsASeq
  <1> QED
    BY <1>1, <1>5, <1>6

LEMMA CostsType == TypeOK => Costs \in Seq(Int)
  <1> SUFFICES ASSUME TypeOK PROVE Costs \in Seq(Int)
    OBVIOUS
  <1>1. DOMAIN sales = 1 .. Len(sales) /\ Len(sales) \in Nat
    BY SaleIn
  <1>2. \A i \in DOMAIN sales : sales[i].cost \in Int
    BY SaleIn DEF SaleRow
  <1> QED
    BY <1>1, <1>2, IsASeq DEF Costs

(***************************************************************************)
(* Every step keeps the types.                                             *)
(***************************************************************************)
LEMMA TypeParts ==
  TypeOK <=> /\ bills \in BillRows /\ sales \in Seq(SaleRow) /\ adjs \in Seq(AdjRow)
             /\ pool \in Pools /\ day \in 1 .. MaxDay /\ dirty \in BOOLEAN
             /\ app \in {"up", "stopped", "crashed"} /\ worker \in [Workers -> Tasks]
             /\ trust \in {"none", "qty", "full"}
  BY DEF TypeOK, BillRows

LEMMA TrustLevels ==
  /\ \A level \in {"none", "qty", "full"} : Realigned(level) \in {"none", "qty", "full"}
  /\ TypeOK => AtMostQty \in {"none", "qty", "full"}
  BY DEF Realigned, AtMostQty, TypeOK

LEMMA ReplayedPool ==
  ASSUME TypeOK, NEW B \in BillRows
  PROVE  Replay(Events(B)) \in Pools /\ Replay(Events(B)).qty = BoughtIn(B) + Adjusted - Sold
  BY EventsQty, ReplayQty

LEMMA PeekType == TypeOK => PeekAvgCost \in Int
  <1> SUFFICES ASSUME TypeOK PROVE PeekAvgCost \in Int
    OBVIOUS
  <1>1. Bought \in Int
    BY SumsType, BoughtIsBoughtIn, TypeParts
  <1>2. BoughtFor \in Int
    <2> DEFINE F == [k \in BillItems |-> Item(k).qty * Item(k).price]
    <2>1. BillItems = LinesOf(bills) /\ bills \in BillRows
      BY TypeParts DEF BillItems, LinesOf, BillLines, CountedBills
    <2>2. IsFiniteSet(BillItems)
      BY <2>1, LinesOfFinite
    <2>3. \A k \in BillItems : F[k] \in Int
      <3> TAKE k \in BillItems
      <3>1. k[1] \in Bills /\ k[2] \in DOMAIN bills[k[1]].items
        BY <2>1, LineInBill
      <3>2. Item(k) \in Line
        BY <2>1, <3>1, LineIn DEF Item
      <3>3. Item(k).qty \in Int /\ Item(k).price \in Int
        BY <3>2 DEF Line
      <3>4. Item(k).qty * Item(k).price \in Int
        BY <3>3
      <3> QED
        BY <3>4
    <2>4. BoughtFor = SumFunctionOnSet(F, BillItems)
      BY DEF BoughtFor, SumFunction
    <2> HIDE DEF F
    <2> QED
      BY <2>2, <2>3, <2>4, SumType
  <1>3. pool.avg \in Int
    BY DEF TypeOK, Pools
  <1>4. Bought > 0 => Rounded(BoughtFor, Bought) \in Int
    BY <1>1, <1>2, RoundedType
  <1> QED
    BY <1>1, <1>3, <1>4 DEF PeekAvgCost

LEMMA BillWrite ==
  ASSUME TypeOK, NEW b \in Bills, NEW row \in BillRow
  PROVE  [bills EXCEPT ![b] = row] \in BillRows
  BY DEF TypeOK, BillRows

LEMMA NewRowTime == TypeOK => Now \in Nat
  <1> SUFFICES ASSUME TypeOK PROVE Now \in Nat
    OBVIOUS
  <1>1. Len(sales) \in Nat /\ Len(adjs) \in Nat
    BY LenProperties DEF TypeOK
  <1>2. day \in 0 .. MaxDay
    BY LedgerAssumption DEF TypeOK
  <1> QED
    BY <1>1, <1>2, TimesType DEF Now

LEMMA AddedRow ==
  ASSUME TypeOK, NEW d \in Int \ {0}, AddRow(d)
  PROVE  adjs' \in Seq(AdjRow)
  <1>1. PICK row : row = [delta |-> d, ts |-> Now]
    OBVIOUS
  <1>2. row \in AdjRow /\ adjs' = Append(adjs, row)
    BY <1>1, NewRowTime DEF AdjRow, AddRow
  <1> QED
    BY <1>2, TypeParts, AppendProperties

LEMMA TypeStep ==
  ASSUME TypeOK, [Next]_vars
  PROVE  TypeOK'
  <1>0. /\ bills \in BillRows /\ sales \in Seq(SaleRow) /\ adjs \in Seq(AdjRow)
        /\ pool \in Pools /\ day \in 1 .. MaxDay /\ dirty \in BOOLEAN
        /\ app \in {"up", "stopped", "crashed"} /\ worker \in [Workers -> Tasks]
        /\ trust \in {"none", "qty", "full"}
    BY TypeParts
  <1>1. ASSUME NEW w \in Workers, NEW b \in Bills, NEW f \in Forms, Confirm(w, b, f)
        PROVE  TypeOK'
    <2> DEFINE row == [status |-> "confirmed", deleted |-> FALSE, date |-> f.date, items |-> f.items]
               again == bills[b].status = "confirmed"
               base == IF again THEN FoldLeft(TakeItem, pool, bills[b].items) ELSE pool
               task == IF again THEN [at |-> "snapshot"] ELSE [at |-> "crossed", date |-> f.date]
    <2>1. f.date \in 0 .. MaxDay /\ f.items \in Seq(Line)
      BY LedgerAssumption
    <2>2. /\ bills' = [bills EXCEPT ![b] = row] /\ pool' = FoldLeft(AddItem, base, f.items)
          /\ Start(w, task) /\ trust' = IF again THEN AtMostQty ELSE trust
      BY <1>1 DEF Confirm
    <2>3. row \in BillRow
      BY <2>1 DEF BillRow, Statuses
    <2>4. bills[b].items \in Seq(Line)
      BY <1>0, LineIn
    <2>5. base \in Pools
      BY <1>0, <2>4, TakeQty
    <2>6. task \in Tasks
      BY <2>1, PlainTasks, DatedTasks
    <2> HIDE DEF row, again, base, task
    <2>7. bills' \in BillRows
      BY <2>2, <2>3, BillWrite
    <2>8. pool' \in Pools
      BY <2>1, <2>2, <2>5, AddQty
    <2>9. worker' \in [Workers -> Tasks]
      BY <2>2, <2>6, StartTask
    <2>10. trust' \in {"none", "qty", "full"}
      BY <1>0, <2>2, TrustLevels
    <2> QED
      BY <1>0, <1>1, <2>7, <2>8, <2>9, <2>10 DEF Confirm, TypeOK, BillRows, rows
  <1>2. ASSUME NEW w \in Workers, NEW b \in Bills, NEW permanent \in BOOLEAN,
               DeleteBill(w, b, permanent)
        PROVE  TypeOK'
    <2>1. PICK B : B = [bills EXCEPT ![b].deleted = TRUE,
                                     ![b].status = IF permanent THEN "gone" ELSE @]
      OBVIOUS
    <2>2. bills' = B
      BY <1>2, <2>1 DEF DeleteBill
    <2>3. B \in BillRows
      BY <1>0, <2>1 DEF BillRows, BillRow, Statuses
    <2>4. IF bills[b].deleted THEN Start(w, idle) /\ UNCHANGED <<pool, trust>>
                              ELSE Start(w, Marking(b)) /\ ScopedReplay(b, B)
      BY <1>2, <2>1 DEF DeleteBill
    <2>5. Marking(b) \in Tasks /\ idle \in Tasks
      BY PlainTasks DEF Marking
    <2>6. worker' \in [Workers -> Tasks]
      BY <2>4, <2>5, StartTask
    <2>7. Replay(Events(B)) \in Pools
      BY <2>3, ReplayedPool
    <2>8. pool' \in Pools /\ trust' \in {"none", "qty", "full"}
      BY <1>0, <2>4, <2>7, TrustLevels DEF ScopedReplay
    <2> QED
      BY <1>0, <1>2, <2>2, <2>3, <2>6, <2>8 DEF DeleteBill, TypeOK, BillRows, rows
  <1>3. ASSUME NEW w \in Workers, NEW b \in Bills, RestoreBill(w, b)
        PROVE  TypeOK'
    <2>1. PICK B : B = [bills EXCEPT ![b].deleted = FALSE]
      OBVIOUS
    <2>2. bills' = B /\ Start(w, Marking(b)) /\ ScopedReplay(b, B)
      BY <1>3, <2>1 DEF RestoreBill
    <2>3. B \in BillRows
      BY <1>0, <2>1 DEF BillRows, BillRow
    <2>4. Marking(b) \in Tasks
      BY PlainTasks DEF Marking
    <2>5. worker' \in [Workers -> Tasks]
      BY <2>2, <2>4, StartTask
    <2>6. Replay(Events(B)) \in Pools
      BY <2>3, ReplayedPool
    <2>7. pool' \in Pools /\ trust' \in {"none", "qty", "full"}
      BY <1>0, <2>2, <2>6, TrustLevels DEF ScopedReplay
    <2> QED
      BY <1>0, <1>3, <2>2, <2>3, <2>5, <2>7 DEF RestoreBill, TypeOK, BillRows, rows
  <1>4. ASSUME NEW w \in Workers, NEW b \in Bills, NEW d \in 1 .. MaxDay, PatchRead(w, b, d)
        PROVE  TypeOK'
    <2>1. bills[b].status \in Statuses
      BY <1>0 DEF BillRows, BillRow
    <2>2. [at |-> "patch", bill |-> b, date |-> d, status |-> bills[b].status] \in Tasks
      BY <2>1, DatedTasks
    <2>3. worker' \in [Workers -> Tasks]
      BY <1>4, <2>2, StartTask DEF PatchRead
    <2> QED
      BY <1>0, <1>4, <2>2, <2>3 DEF PatchRead, TypeOK, BillRows, rows
  <1>5. ASSUME NEW w \in Workers, CheckCrossed(w)
        PROVE  TypeOK'
    <2> DEFINE d == worker[w].date
               task == IF d # 0 /\ d < day /\ CrossedSales(d) # {} THEN [at |-> "snapshot"] ELSE idle
    <2>1. Continue(w, "crossed", task)
      BY <1>5 DEF CheckCrossed
    <2>2. task \in Tasks
      BY PlainTasks
    <2> HIDE DEF task
    <2>3. worker' \in [Workers -> Tasks]
      BY <2>1, <2>2, ContinueTask
    <2> QED
      BY <1>0, <1>5, <2>1, <2>2, <2>3 DEF CheckCrossed, TypeOK, BillRows, rows
  <1>6. ASSUME NEW w \in Workers, MarkDirty(w)
        PROVE  TypeOK'
    <2>1. worker' \in [Workers -> Tasks]
      BY <1>6, PlainTasks, ContinueTask DEF MarkDirty
    <2> QED
      BY <1>0, <1>6, <2>1 DEF MarkDirty, TypeOK, BillRows, rows
  <1>7. ASSUME NEW w \in Workers, PatchWrite(w)
        PROVE  TypeOK'
    <2>1. worker[w].bill \in Bills /\ worker[w].date \in 1 .. MaxDay
      BY <1>0, <1>7, TaskIs DEF PatchWrite
    <2>2. bills' \in BillRows
      <3>1. PICK b, d : b = worker[w].bill /\ d = worker[w].date
        OBVIOUS
      <3>2. b \in Bills /\ d \in 0 .. MaxDay
        BY <2>1, <3>1
      <3>3. bills' = [bills EXCEPT ![b].date = d]
        BY <1>7, <3>1 DEF PatchWrite
      <3> QED
        BY <1>0, <3>2, <3>3 DEF BillRows, BillRow
    <2> DEFINE task == IF worker[w].status = "confirmed" THEN [at |-> "snapshot"] ELSE idle
    <2>3. Continue(w, "patch", task) /\ task \in Tasks
      BY <1>7, PlainTasks DEF PatchWrite
    <2> HIDE DEF task
    <2>4. worker' \in [Workers -> Tasks]
      BY <2>2, <2>3, ContinueTask
    <2> QED
      BY <1>0, <1>7, <2>2, <2>3, <2>4 DEF PatchWrite, TypeOK, BillRows, rows
  <1>8. ASSUME NEW w \in Workers, NEW d \in Deltas, AdjustRow(w, d)
        PROVE  TypeOK'
    <2>1. d \in Int \ {0}
      BY LedgerAssumption
    <2>2. adjs' \in Seq(AdjRow)
      BY <1>8, <2>1, AddedRow DEF AdjustRow
    <2>3. worker' \in [Workers -> Tasks]
      BY <1>8, <2>1, <2>2, RowTasks, StartTask DEF AdjustRow
    <2> QED
      BY <1>0, <1>8, <2>1, <2>2, <2>3 DEF AdjustRow, TypeOK, BillRows, rows
  <1>9. ASSUME NEW w \in Workers, AdjustApply(w)
        PROVE  TypeOK'
    <2>1. worker[w].delta \in Int
      BY <1>0, <1>9, TaskIs DEF AdjustApply
    <2>2. pool' \in Pools
      BY <1>0, <1>9, <2>1, AdjustmentQty DEF AdjustApply
    <2>3. worker' \in [Workers -> Tasks]
      BY <1>9, <2>2, PlainTasks, ContinueTask DEF AdjustApply
    <2> QED
      BY <1>0, <1>9, <2>2, <2>3 DEF AdjustApply, TypeOK, BillRows, rows
  <1>10. ASSUME NEW w \in Workers, RebuildRoute(w)
         PROVE  TypeOK'
    <2>1. worker' \in [Workers -> Tasks]
      BY <1>10, PlainTasks, StartTask DEF RebuildRoute
    <2> QED
      BY <1>0, <1>10, <2>1 DEF RebuildRoute, TypeOK, BillRows, rows
  <1>11. ASSUME NEW w \in Workers, RebuildRead(w)
         PROVE  TypeOK'
    <2>1. Events(bills) \in SUBSET Event /\ IsFiniteSet(Events(bills)) /\ Costs \in Seq(Int)
      BY <1>0, EventsQty, CostsType
    <2>2. [at |-> "write", events |-> Events(bills), costs |-> Costs] \in Tasks
      BY <2>1, RowTasks
    <2>3. worker' \in [Workers -> Tasks]
      BY <1>11, <2>2, ContinueTask DEF RebuildRead
    <2> QED
      BY <1>0, <1>11, <2>2, <2>3 DEF RebuildRead, TypeOK, BillRows, rows
  <1>12. ASSUME NEW w \in Workers, RebuildWrite(w)
         PROVE  TypeOK'
    <2>1. PICK S, c : S = worker[w].events /\ c = worker[w].costs
      OBVIOUS
    <2>2. S \in SUBSET Event /\ IsFiniteSet(S)
      BY <1>0, <1>12, <2>1, TaskIs DEF RebuildWrite
    <2>3. /\ pool' = Replay(S) /\ sales' = Restated(S, c)
          /\ trust' = IF S # Events(bills) THEN "none"
                      ELSE Realigned(IF c = Costs THEN "full" ELSE "qty")
          /\ Continue(w, "write", [at |-> "clear"])
      BY <1>12, <2>1 DEF RebuildWrite
    <2>4. pool' \in Pools
      BY <2>2, <2>3, ReplayQty
    <2>5. sales' \in Seq(SaleRow)
      BY <2>2, <2>3, RestatedRows
    <2>6. trust' \in {"none", "qty", "full"}
      BY <2>3, TrustLevels
    <2>7. worker' \in [Workers -> Tasks]
      BY <2>3, PlainTasks, ContinueTask
    <2> QED
      BY <1>0, <1>12, <2>4, <2>5, <2>6, <2>7 DEF RebuildWrite, TypeOK, BillRows, rows
  <1>13. ASSUME NEW w \in Workers, RebuildClear(w)
         PROVE  TypeOK'
    <2>1. worker' \in [Workers -> Tasks]
      BY <1>13, PlainTasks, ContinueTask DEF RebuildClear
    <2> QED
      BY <1>0, <1>13, <2>1 DEF RebuildClear, TypeOK, BillRows, rows
  <1>14. ASSUME NEW n \in Quantities, CreateSale(n)
         PROVE  TypeOK'
    <2>1. n \in Int /\ Now \in Nat /\ PeekAvgCost \in Int
      BY LedgerAssumption, NewRowTime, PeekType
    <2>2. PICK row : row = [qty |-> n, ts |-> Now, cost |-> PeekAvgCost, valid |-> TRUE]
      OBVIOUS
    <2>3. row \in SaleRow /\ sales' = Append(sales, row)
      BY <1>14, <2>1, <2>2 DEF SaleRow, CreateSale
    <2>4. sales' \in Seq(SaleRow)
      BY <1>0, <2>3, AppendProperties
    <2>5. pool' \in Pools
      BY <1>0, <1>14, <2>1, SaleQty DEF CreateSale
    <2>6. trust' \in {"none", "qty", "full"}
      BY <1>0, <1>14, TrustLevels DEF CreateSale
    <2> QED
      BY <1>0, <1>14, <2>4, <2>5, <2>6 DEF CreateSale, TypeOK, BillRows, rows
  <1>15. ASSUME NEW i \in DOMAIN sales, RefundSale(i)
         PROVE  TypeOK'
    <2>1. sales[i] \in SaleRow /\ sales[i].qty \in Int /\ sales[i].cost \in Int
      BY SaleIn DEF SaleRow
    <2>2. PICK row : row = [sales[i] EXCEPT !.valid = FALSE]
      OBVIOUS
    <2>3. row \in SaleRow /\ sales' = [sales EXCEPT ![i] = row]
      BY <1>15, <2>1, <2>2 DEF SaleRow, RefundSale
    <2>4. sales' \in Seq(SaleRow)
      BY <1>0, <2>3, ExceptSeq
    <2>5. pool' \in Pools
      BY <1>0, <1>15, <2>1, RefundQty DEF RefundSale
    <2>6. trust' \in {"none", "qty", "full"}
      BY <1>0, <1>15, TrustLevels DEF RefundSale
    <2> QED
      BY <1>0, <1>15, <2>4, <2>5, <2>6 DEF RefundSale, TypeOK, BillRows, rows
  <1>16. ASSUME NEW n \in Counts, StockCount(n)
         PROVE  TypeOK'
    <2>1. n \in Int /\ pool.qty \in Int /\ n # pool.qty
      BY <1>0, <1>16, LedgerAssumption DEF StockCount, Pools
    <2>2. n - pool.qty \in Int \ {0}
      BY <2>1
    <2>3. adjs' \in Seq(AdjRow)
      BY <1>16, <2>2, AddedRow DEF StockCount
    <2> QED
      BY <1>0, <1>16, <2>2, <2>3 DEF StockCount, TypeOK, BillRows, rows
  <1>17. ASSUME Crash
         PROVE  TypeOK'
    <2>1. worker' \in [Workers -> Tasks] /\ trust' \in {"none", "qty", "full"}
      BY <1>0, <1>17, PlainTasks, TrustLevels DEF Crash
    <2> QED
      BY <1>0, <1>17, <2>1 DEF Crash, TypeOK, BillRows, rows
  <1>18. ASSUME Boot
         PROVE  TypeOK'
    <2>1. Events(bills) \in SUBSET Event /\ IsFiniteSet(Events(bills))
      BY <1>0, EventsQty
    <2>2. Replay(Events(bills)) \in Pools /\ Restated(Events(bills), Costs) \in Seq(SaleRow)
      BY <2>1, ReplayQty, RestatedRows
    <2>3. /\ pool' \in Pools /\ sales' \in Seq(SaleRow) /\ trust' \in {"none", "qty", "full"}
      BY <1>0, <1>18, <2>2 DEF Boot
    <2> QED
      BY <1>0, <1>18, <2>2, <2>3 DEF Boot, TypeOK, BillRows, rows
  <1>19. CASE NextDay
    BY <1>0, <1>19, LedgerAssumption DEF NextDay, rows, TypeOK, BillRows
  <1>20. CASE CleanShutdown
    BY <1>0, <1>20 DEF CleanShutdown, rows, TypeOK, BillRows
  <1>21. CASE UNCHANGED vars
    BY <1>0, <1>21 DEF vars, rows, TypeOK, BillRows
  <1> QED
    BY <1>1, <1>2, <1>3, <1>4, <1>5, <1>6, <1>7, <1>8, <1>9, <1>10, <1>11, <1>12, <1>13, <1>14,
       <1>15, <1>16, <1>17, <1>18, <1>19, <1>20, <1>21 DEF Next

(***************************************************************************)
(* Variables keep their types, for any bills, lines, sales, adjustments,   *)
(* request threads, rebuilds, crashes and boots.                           *)
(***************************************************************************)
THEOREM TypeCorrect == Spec => []TypeOK
  <1>1. Init => TypeOK
    <2> SUFFICES ASSUME Init PROVE TypeOK
      OBVIOUS
    <2>1. [status |-> "review", deleted |-> FALSE, date |-> 0, items |-> <<>>] \in BillRow
      <3>1. 0 \in 0 .. MaxDay /\ <<>> \in Seq(Line)
        BY LedgerAssumption
      <3> QED
        BY <3>1 DEF BillRow, Statuses
    <2>2. bills \in [Bills -> BillRow]
      BY <2>1 DEF Init
    <2>3. pool \in Pools
      BY DEF Init, Empty, Pool, Pools
    <2>4. worker \in [Workers -> Tasks]
      BY PlainTasks DEF Init
    <2>5. 1 \in 1 .. MaxDay
      BY LedgerAssumption
    <2>6. sales \in Seq(SaleRow) /\ adjs \in Seq(AdjRow)
      BY DEF Init
    <2> QED
      BY <2>2, <2>3, <2>4, <2>5, <2>6 DEF Init, TypeOK
  <1>2. TypeOK /\ [Next]_vars => TypeOK'
    BY TypeStep
  <1> QED
    BY <1>1, <1>2, PTL DEF Spec

(***************************************************************************)
(* What a bill brings, and what the others bring.                          *)
(***************************************************************************)
PartOf(W, B, b) == IF Counted(B, b) THEN Weight(W, B[b].items) ELSE 0
Part(B, b) == PartOf(Qty, B, b)
OtherLines(B, b) == {k \in LinesOf(B) : k[1] # b}

LEMMA WeightSplit ==
  ASSUME NEW W \in Weights, NEW B \in BillRows, NEW b \in Bills
  PROVE  /\ WeightIn(W, B) = SumFunctionOnSet(LineWeights(W, B), OtherLines(B, b)) + PartOf(W, B, b)
         /\ PartOf(W, B, b) \in Int
         /\ SumFunctionOnSet(LineWeights(W, B), OtherLines(B, b)) \in Int
  <1> DEFINE O == OtherLines(B, b)
             L == BillLines(B, b)
             F == LineWeights(W, B)
  <1>1. IsFiniteSet(O) /\ IsFiniteSet(L)
    BY LinesOfFinite, BillLinesFinite, FS_Subset DEF OtherLines
  <1>2. \A k \in LinesOf(B) : F[k] \in Int
    BY LineWeightType
  <1>3. SumFunctionOnSet(F, O) \in Int
    <2>1. \A k \in O : F[k] \in Int
      BY <1>2 DEF OtherLines
    <2> HIDE DEF O, F
    <2> QED
      BY <1>1, <2>1, SumType
  <1>4. B[b].items \in Seq(Line)
    BY LineIn
  <1>5. PartOf(W, B, b) \in Int
    BY <1>4, WeightType DEF PartOf
  <1>6. CASE Counted(B, b)
    <2>1. LinesOf(B) = O \cup L /\ O \cap L = {}
      <3>1. L \subseteq LinesOf(B)
        BY <1>6 DEF LinesOf, CountedBills
      <3>2. \A k \in LinesOf(B) : k[1] = b => k \in L
        BY LineInBill DEF BillLines
      <3>3. \A k \in L : k[1] = b
        BY DEF BillLines
      <3> QED
        BY <3>1, <3>2, <3>3 DEF OtherLines
    <2>2. SumFunctionOnSet(F, L) = Weight(W, B[b].items)
      <3> DEFINE S == DOMAIN B[b].items
                 G == Weighed(W, B[b].items)
                 name == [i \in S |-> <<b, i>>]
      <3>1. IsFiniteSet(S)
        BY <1>4, LinesFinite
      <3>2. \A i, j \in S : name[i] = name[j] => i = j
        OBVIOUS
      <3>3. \A i \in S : G[i] \in Int /\ F[name[i]] = G[i]
        <4> TAKE i \in S
        <4>1. <<b, i>> \in LinesOf(B)
          BY <2>1 DEF BillLines
        <4>2. F[<<b, i>>] = W[B[b].items[i]]
          BY <4>1 DEF LineWeights
        <4> QED
          BY <1>4, <4>2, WeightType DEF Weighed
      <3>4. L = {name[i] : i \in S}
        BY DEF BillLines
      <3>5. Weight(W, B[b].items) = SumFunctionOnSet(G, S)
        BY DEF Weight
      <3> HIDE DEF S, G, F, L, name
      <3> QED
        BY <3>1, <3>2, <3>3, <3>4, <3>5, SumRenamed
    <2>3. \A k \in O : F[k] \in Int
      BY <1>2 DEF OtherLines
    <2>4. \A k \in L : F[k] \in Int
      BY <1>2, <2>1
    <2>5. WeightIn(W, B) = SumFunctionOnSet(F, LinesOf(B))
      BY DEF WeightIn
    <2> HIDE DEF O, L, F
    <2>6. SumFunctionOnSet(F, O \cup L) = SumFunctionOnSet(F, O) + SumFunctionOnSet(F, L)
      BY <1>1, <2>1, <2>3, <2>4, SumUnion
    <2>7. PartOf(W, B, b) = Weight(W, B[b].items)
      BY <1>6 DEF PartOf
    <2>8. WeightIn(W, B) = SumFunctionOnSet(F, O) + PartOf(W, B, b)
      BY <2>1, <2>2, <2>5, <2>6, <2>7
    <2> QED
      BY <1>3, <1>5, <2>8 DEF O, F
  <1>7. CASE ~Counted(B, b)
    <2>1. O = LinesOf(B)
      BY <1>7, LineInBill DEF OtherLines, CountedBills
    <2>2. PartOf(W, B, b) = 0
      BY <1>7 DEF PartOf
    <2> QED
      BY <1>3, <1>5, <2>1, <2>2 DEF WeightIn
  <1> QED
    BY <1>6, <1>7

LEMMA WeightChanged ==
  ASSUME NEW W \in Weights, NEW B \in BillRows, NEW C \in BillRows, NEW b \in Bills,
         \A x \in Bills : x # b => C[x] = B[x]
  PROVE  WeightIn(W, C) = WeightIn(W, B) - PartOf(W, B, b) + PartOf(W, C, b)
  <1> DEFINE F == LineWeights(W, B)
             G == LineWeights(W, C)
             O == OtherLines(B, b)
  <1>1. \A x \in Bills : x # b => (x \in CountedBills(C) <=> x \in CountedBills(B))
    BY DEF CountedBills, Counted
  <1>2. ASSUME NEW k PROVE k \in OtherLines(C, b) <=> k \in OtherLines(B, b)
    <2>1. k \in OtherLines(B, b) <=>
             \E x \in CountedBills(B) : x # b /\ k \in BillLines(B, x)
      BY DEF OtherLines, LinesOf, BillLines
    <2>2. k \in OtherLines(C, b) <=>
             \E x \in CountedBills(C) : x # b /\ k \in BillLines(C, x)
      BY DEF OtherLines, LinesOf, BillLines
    <2>3. \A x \in Bills : x # b => BillLines(C, x) = BillLines(B, x)
      BY DEF BillLines
    <2>4. CountedBills(B) \subseteq Bills /\ CountedBills(C) \subseteq Bills
      BY DEF CountedBills
    <2> QED
      BY <1>1, <2>1, <2>2, <2>3, <2>4
  <1>3. OtherLines(C, b) = O
    BY <1>2
  <1>4. \A k \in O : F[k] = G[k]
    <2> TAKE k \in O
    <2>1. k \in LinesOf(B) /\ k \in LinesOf(C) /\ k[1] # b
      BY <1>3 DEF OtherLines
    <2>2. k[1] \in Bills
      BY <2>1, LineInBill
    <2> QED
      BY <2>1, <2>2 DEF LineWeights
  <1>5. IsFiniteSet(O)
    BY LinesOfFinite, FS_Subset DEF OtherLines
  <1>6. SumFunctionOnSet(F, O) = SumFunctionOnSet(G, O)
    <2> HIDE DEF F, G, O
    <2> QED
      BY <1>4, <1>5, SumEqual
  <1>7. /\ WeightIn(W, B) = SumFunctionOnSet(F, O) + PartOf(W, B, b)
        /\ PartOf(W, B, b) \in Int /\ SumFunctionOnSet(F, O) \in Int
    BY WeightSplit
  <1>8. WeightIn(W, C) = SumFunctionOnSet(G, O) + PartOf(W, C, b) /\ PartOf(W, C, b) \in Int
    BY <1>3, WeightSplit
  <1> HIDE DEF F, G, O
  <1> QED
    BY <1>6, <1>7, <1>8

LEMMA BillChanged ==
  ASSUME NEW B \in BillRows, NEW C \in BillRows, NEW b \in Bills,
         \A x \in Bills : x # b => C[x] = B[x]
  PROVE  BoughtIn(C) = BoughtIn(B) - Part(B, b) + Part(C, b)
  BY WeightChanged, QtyIsWeight DEF BoughtIn, Part

LEMMA PartType ==
  ASSUME NEW B \in BillRows, NEW b \in Bills
  PROVE  Part(B, b) \in Int
  BY WeightSplit, QtyIsWeight DEF Part

(***************************************************************************)
(* What the threads still owe the pool: adjustments that are written down  *)
(* and not applied yet.                                                    *)
(***************************************************************************)
Due == [w \in Workers |-> IF worker[w].at = "adjust" THEN worker[w].delta ELSE 0]
Pending == SumFunctionOnSet(Due, Workers)

(***************************************************************************)
(* The invariant.  A stopped store has no threads left, and the quantity,  *)
(* with what is still owed, is that of the rows.                           *)
(***************************************************************************)
Settled == app # "up" => \A w \in Workers : worker[w] = idle

QtyInv == trust # "none" => pool.qty + Pending = BoughtIn(bills) + Adjusted - Sold

LEMMA DueType == TypeOK => \A w \in Workers : Due[w] \in Int
  BY WorkerTask, TaskIs DEF Due

LEMMA PendingType == TypeOK => Pending \in Int
  BY DueType, SumType, LedgerAssumption DEF Pending

LEMMA NothingDue == TypeOK /\ ~HalfApplied => Pending = 0
  <1> SUFFICES ASSUME TypeOK, ~HalfApplied PROVE Pending = 0
    OBVIOUS
  <1> DEFINE Z == [w \in Workers |-> 0]
  <1>1. \A w \in Workers : Due[w] = 0
    BY DEF Due, HalfApplied
  <1>2. \A w \in Workers : Due[w] = -Due[w]
    BY <1>1
  <1>3. SumFunctionOnSet(Due, Workers) = -SumFunctionOnSet(Due, Workers)
    BY <1>1, <1>2, SumNegated, LedgerAssumption
  <1>4. SumFunctionOnSet(Due, Workers) \in Int
    BY PendingType DEF Pending
  <1> QED
    BY <1>3, <1>4 DEF Pending

LEMMA TaskChanged ==
  ASSUME TypeOK, NEW w \in Workers, NEW t \in Tasks, worker' = [worker EXCEPT ![w] = t]
  PROVE  /\ t.at = "adjust" => Pending' = Pending - Due[w] + t.delta
         /\ t.at # "adjust" => Pending' = Pending - Due[w]
         /\ Due[w] \in Int /\ Pending \in Int
  <1>1. DOMAIN worker = Workers
    BY DEF TypeOK
  <1>2. Due'[w] = IF t.at = "adjust" THEN t.delta ELSE 0
    BY <1>1 DEF Due
  <1>3. \A v \in Workers : v # w => Due'[v] = Due[v]
    BY <1>1 DEF Due
  <1>4. Due'[w] \in Int
    BY <1>2, TaskIs
  <1>5. Pending \in Int /\ \A v \in Workers : Due[v] \in Int
    BY DueType, PendingType
  <1>6. SumFunctionOnSet(Due', Workers) = SumFunctionOnSet(Due, Workers) - Due[w] + Due'[w]
    BY <1>3, <1>4, <1>5, SumOneChanged, LedgerAssumption
  <1>7. Pending' = Pending - Due[w] + Due'[w]
    BY <1>6 DEF Pending
  <1> HIDE DEF Pending, Due
  <1> QED
    BY <1>2, <1>4, <1>5, <1>7

LEMMA StartedTask ==
  ASSUME TypeOK, NEW w \in Workers, NEW t \in Tasks, Start(w, t)
  PROVE  /\ t.at = "adjust" => Pending' = Pending + t.delta
         /\ t.at # "adjust" => Pending' = Pending
  <1>1. worker[w] = idle /\ worker' = [worker EXCEPT ![w] = t]
    BY StartTask
  <1>2. Due[w] = 0
    BY <1>1 DEF Due, idle
  <1>3. /\ t.at = "adjust" => Pending' = Pending - Due[w] + t.delta
        /\ t.at # "adjust" => Pending' = Pending - Due[w]
        /\ Pending \in Int
    BY <1>1, TaskChanged
  <1>4. t.at = "adjust" => t.delta \in Int
    BY TaskIs
  <1> HIDE DEF Pending, Due
  <1> QED
    BY <1>2, <1>3, <1>4

LEMMA ContinuedTask ==
  ASSUME TypeOK, NEW w \in Workers, NEW from, NEW t \in Tasks, Continue(w, from, t),
         from # "adjust", t.at # "adjust"
  PROVE  Pending' = Pending
  <1>1. worker[w].at = from /\ worker' = [worker EXCEPT ![w] = t]
    BY ContinueTask DEF Continue
  <1>2. Due[w] = 0
    BY <1>1 DEF Due
  <1>3. Pending' = Pending - Due[w] /\ Pending \in Int
    BY <1>1, TaskChanged
  <1> HIDE DEF Pending, Due
  <1> QED
    BY <1>2, <1>3

(***************************************************************************)
(* What a step on the rows of sales and adjustments does to their sums.    *)
(***************************************************************************)
LEMMA SoldKept ==
  ASSUME TypeOK, DOMAIN sales' = DOMAIN sales,
         \A i \in DOMAIN sales : /\ sales'[i].qty = sales[i].qty
                                 /\ sales'[i].valid = sales[i].valid
  PROVE  Sold' = Sold
  <1>1. Standing' = Standing
    BY DEF Standing
  <1>2. [i \in Standing |-> sales[i].qty]' = [i \in Standing |-> sales[i].qty]
    BY <1>1 DEF Standing
  <1> QED
    BY <1>2 DEF Sold

LEMMA SoldMore ==
  ASSUME TypeOK, NEW row, sales' = Append(sales, row), row.valid, row.qty \in Int
  PROVE  Sold' = Sold + row.qty
  <1> DEFINE F == [i \in Standing |-> sales[i].qty]
             n == Len(sales) + 1
  <1>1. /\ DOMAIN sales' = DOMAIN sales \cup {n} /\ n \notin DOMAIN sales
        /\ sales'[n] = row /\ \A i \in DOMAIN sales : sales'[i] = sales[i]
    BY SaleIn, AppendProperties DEF TypeOK
  <1>2. Standing' = Standing \cup {n} /\ n \notin Standing
    BY <1>1 DEF Standing
  <1>3. \A i \in Standing : F[i] \in Int /\ F'[i] = F[i]
    BY <1>1, <1>2, SaleIn DEF Standing
  <1>4. F'[n] = row.qty
    BY <1>1, <1>2
  <1>5. IsFiniteSet(Standing)
    BY SaleIn
  <1>6. Sold = SumFunctionOnSet(F, Standing) /\ Sold' = SumFunctionOnSet(F', Standing')
    BY DEF Sold, SumFunction
  <1> HIDE DEF F, n
  <1> QED
    BY <1>2, <1>3, <1>4, <1>5, <1>6, SumJoin

LEMMA SoldLess ==
  ASSUME TypeOK, NEW i \in DOMAIN sales, sales[i].valid,
         sales' = [sales EXCEPT ![i].valid = FALSE]
  PROVE  Sold' = Sold - sales[i].qty
  <1> DEFINE F == [j \in Standing |-> sales[j].qty]
  <1>1. /\ DOMAIN sales' = DOMAIN sales /\ ~sales'[i].valid
        /\ \A j \in DOMAIN sales : j # i => sales'[j] = sales[j]
    BY SaleIn DEF SaleRow
  <1>2. Standing' = Standing \ {i} /\ i \in Standing
    BY <1>1 DEF Standing
  <1>3. /\ \A j \in Standing : F[j] \in Int
        /\ \A j \in Standing' : F'[j] = F[j]
    BY <1>1, <1>2, SaleIn DEF Standing
  <1>4. F[i] = sales[i].qty
    BY <1>2
  <1>5. IsFiniteSet(Standing)
    BY SaleIn
  <1>6. Sold = SumFunctionOnSet(F, Standing) /\ Sold' = SumFunctionOnSet(F', Standing')
    BY DEF Sold, SumFunction
  <1> HIDE DEF F
  <1> QED
    BY <1>2, <1>3, <1>4, <1>5, <1>6, SumLeave

LEMMA AdjustedMore ==
  ASSUME TypeOK, NEW d \in Int, AddRow(d)
  PROVE  Adjusted' = Adjusted + d
  <1> DEFINE S == DOMAIN adjs
             F == [i \in S |-> adjs[i].delta]
             n == Len(adjs) + 1
  <1>1. PICK row : row = [delta |-> d, ts |-> Now] /\ adjs' = Append(adjs, row)
    BY DEF AddRow
  <1>2. adjs \in Seq(AdjRow)
    BY DEF TypeOK
  <1>3. /\ S' = S \cup {n} /\ n \notin S
        /\ adjs'[n] = row /\ \A i \in S : adjs'[i] = adjs[i]
    BY <1>1, <1>2, AppendProperties, LenProperties
  <1>4. \A i \in S : F[i] \in Int /\ F'[i] = F[i]
    <2>1. \A i \in S : adjs[i] \in AdjRow
      BY <1>2, ElementIn
    <2>2. \A i \in S : F[i] = adjs[i].delta /\ adjs[i].delta \in Int
      BY <2>1 DEF AdjRow
    <2>3. \A i \in S : F'[i] = adjs'[i].delta
      BY <1>3
    <2> QED
      BY <1>3, <2>2, <2>3
  <1>5. F'[n] = d
    BY <1>1, <1>3
  <1>6. IsFiniteSet(S)
    BY <1>2, LinesFinite
  <1>7. Adjusted = SumFunctionOnSet(F, S) /\ Adjusted' = SumFunctionOnSet(F', S')
    BY DEF Adjusted, SumFunction
  <1> HIDE DEF F, S, n
  <1> QED
    BY <1>3, <1>4, <1>5, <1>6, <1>7, SumJoin

LEMMA SumsKept ==
  /\ sales' = sales => Sold' = Sold
  /\ adjs' = adjs => Adjusted' = Adjusted
  /\ worker' = worker => Pending' = Pending /\ Settled' = (app' # "up" => \A w \in Workers : worker[w] = idle)
  BY DEF Sold, Standing, Adjusted, Pending, Due, Settled

LEMMA NoPieces == Pieces(<<>>) = 0
  <1>1. DOMAIN <<>> = {}
    OBVIOUS
  <1> QED
    BY <1>1, SumEmpty DEF Pieces, Weight

LEMMA RealignedQty ==
  ASSUME TypeOK, NEW level, Realigned(level) # "none"
  PROVE  Pending = 0
  BY NothingDue DEF Realigned

(***************************************************************************)
(* No step breaks QtyInv.                                                  *)
(***************************************************************************)
LEMMA QtyStep ==
  ASSUME TypeOK, TypeOK', Settled, QtyInv, [Next]_vars, trust' # "none"
  PROVE  pool'.qty + Pending' = BoughtIn(bills') + Adjusted' - Sold'
  <1>0. /\ bills \in BillRows /\ bills' \in BillRows /\ pool \in Pools
        /\ pool.qty \in Int /\ Pending \in Int /\ Adjusted \in Int /\ Sold \in Int
        /\ BoughtIn(bills) \in Int
    <2>1. bills \in BillRows /\ bills' \in BillRows /\ pool \in Pools
      BY TypeParts DEF TypeOK, BillRows
    <2> QED
      BY <2>1, SumsType, PendingType DEF Pools
  <1>00. trust # "none" => pool.qty + Pending = BoughtIn(bills) + Adjusted - Sold
    BY DEF QtyInv
  <1> HIDE DEF QtyInv
  <1>1. ASSUME NEW w \in Workers, NEW b \in Bills, NEW f \in Forms, Confirm(w, b, f)
        PROVE  pool'.qty + Pending' = BoughtIn(bills') + Adjusted' - Sold'
    <2> DEFINE row == [status |-> "confirmed", deleted |-> FALSE, date |-> f.date, items |-> f.items]
               again == bills[b].status = "confirmed"
               base == IF again THEN FoldLeft(TakeItem, pool, bills[b].items) ELSE pool
               task == IF again THEN [at |-> "snapshot"] ELSE [at |-> "crossed", date |-> f.date]
    <2>1. f.date \in 0 .. MaxDay /\ f.items \in Seq(Line) /\ bills[b].items \in Seq(Line)
      BY <1>0, LedgerAssumption, LineIn
    <2>2. /\ bills' = [bills EXCEPT ![b] = row] /\ pool' = FoldLeft(AddItem, base, f.items)
          /\ Start(w, task) /\ trust' = IF again THEN AtMostQty ELSE trust
          /\ sales' = sales /\ adjs' = adjs /\ ~bills[b].deleted
      BY <1>1 DEF Confirm
    <2>3. task \in Tasks /\ task.at # "adjust"
      BY <2>1, PlainTasks, DatedTasks
    <2>4. base \in Pools /\ base.qty = pool.qty - Part(bills, b)
      <3>1. CASE again
        BY <1>0, <2>1, <2>2, <3>1, TakeQty DEF Part, PartOf, Pieces, Counted
      <3>2. CASE ~again
        BY <1>0, <3>2 DEF Part, PartOf, Pieces, Counted
      <3> QED
        BY <3>1, <3>2
    <2>5. Part(bills', b) = Pieces(f.items)
      <3>1. bills'[b] = row
        BY <1>0, <2>2 DEF BillRows
      <3> QED
        BY <3>1 DEF Part, PartOf, Pieces, Counted
    <2>6. \A x \in Bills : x # b => bills'[x] = bills[x]
      BY <1>0, <2>2 DEF BillRows
    <2>7. BoughtIn(bills') = BoughtIn(bills) - Part(bills, b) + Part(bills', b)
      BY <1>0, <2>6, BillChanged
    <2>8. Part(bills, b) \in Int /\ Pieces(f.items) \in Int
      BY <1>0, <2>1, PartType, WeightType, QtyIsWeight DEF Pieces
    <2>9. trust # "none"
      BY <2>2 DEF AtMostQty
    <2> HIDE DEF row, again, base, task
    <2>10. pool'.qty = base.qty + Pieces(f.items)
      BY <2>1, <2>2, <2>4, AddQty
    <2>11. Pending' = Pending
      BY <2>2, <2>3, StartedTask
    <2>12. Sold' = Sold /\ Adjusted' = Adjusted
      BY <2>2, SumsKept
    <2>13. pool.qty + Pending = BoughtIn(bills) + Adjusted - Sold
      BY <1>00, <2>9
    <2>14. pool'.qty = pool.qty - Part(bills, b) + Pieces(f.items)
      BY <2>4, <2>10
    <2>15. BoughtIn(bills') = BoughtIn(bills) - Part(bills, b) + Pieces(f.items)
      BY <2>5, <2>7
    <2> HIDE DEF Part, Pieces
    <2> QED
      BY <1>0, <2>8, <2>11, <2>12, <2>13, <2>14, <2>15
  <1>2. ASSUME NEW w \in Workers, NEW b \in Bills, NEW B, bills' = B,
               \A x \in Bills : x # b => B[x] = bills[x],
               ~Counted(bills, b) \/ ~Counted(B, b),
               Counted(bills, b) \/ Counted(B, b) => bills[b].status = "confirmed",
               B[b].items = bills[b].items,
               ScopedReplay(b, B), Start(w, Marking(b)), sales' = sales, adjs' = adjs
        PROVE  pool'.qty + Pending' = BoughtIn(bills') + Adjusted' - Sold'
    <2>1. Pending' = Pending
      <3>1. Marking(b) \in Tasks /\ Marking(b).at # "adjust"
        BY PlainTasks DEF Marking, idle
      <3> QED
        BY <1>2, <3>1, StartedTask
    <2>2. Sold' = Sold /\ Adjusted' = Adjusted
      BY <1>2, SumsKept
    <2>3. CASE bills[b].status = "confirmed" /\ bills[b].items # <<>>
      <3>1. pool' = Replay(Events(B)) /\ trust' = Realigned("qty")
        BY <1>2, <2>3 DEF ScopedReplay
      <3>2. Pending = 0
        BY <3>1, RealignedQty
      <3>3. pool'.qty = BoughtIn(B) + Adjusted - Sold
        BY <1>0, <1>2, <3>1, ReplayedPool
      <3>4. BoughtIn(B) \in Int
        BY <1>0, <1>2, SumsType
      <3> QED
        BY <1>0, <1>2, <2>1, <2>2, <3>2, <3>3, <3>4
    <2>4. CASE ~(bills[b].status = "confirmed" /\ bills[b].items # <<>>)
      <3>1. pool' = pool /\ trust' = trust
        BY <1>2, <2>4 DEF ScopedReplay
      <3>2. Part(bills, b) = 0 /\ Part(B, b) = 0
        BY <1>2, <2>4, NoPieces DEF Part, PartOf, Pieces
      <3>3. BoughtIn(B) = BoughtIn(bills) - Part(bills, b) + Part(B, b)
        BY <1>0, <1>2, BillChanged
      <3>4. BoughtIn(bills') = BoughtIn(bills)
        BY <1>0, <1>2, <3>2, <3>3
      <3> QED
        BY <1>0, <1>00, <2>1, <2>2, <3>1, <3>4
    <2> QED
      BY <2>3, <2>4
  <1>3. ASSUME NEW w \in Workers, NEW b \in Bills, NEW permanent \in BOOLEAN,
               DeleteBill(w, b, permanent)
        PROVE  pool'.qty + Pending' = BoughtIn(bills') + Adjusted' - Sold'
    <2>1. PICK B : B = [bills EXCEPT ![b].deleted = TRUE,
                                     ![b].status = IF permanent THEN "gone" ELSE @]
      OBVIOUS
    <2>2. bills' = B /\ sales' = sales /\ adjs' = adjs
      BY <1>3, <2>1 DEF DeleteBill
    <2>3. /\ \A x \in Bills : x # b => B[x] = bills[x]
          /\ B[b].deleted /\ B[b].items = bills[b].items
      BY <1>0, <2>1 DEF BillRows, BillRow
    <2>4. ~Counted(B, b) /\ (Counted(bills, b) => bills[b].status = "confirmed")
      BY <2>3 DEF Counted
    <2>5. CASE ~bills[b].deleted
      <3>1. Start(w, Marking(b)) /\ ScopedReplay(b, B)
        BY <1>3, <2>1, <2>5 DEF DeleteBill
      <3> QED
        BY <1>2, <2>2, <2>3, <2>4, <3>1
    <2>6. CASE bills[b].deleted
      <3>1. Start(w, idle) /\ pool' = pool /\ trust' = trust
        BY <1>3, <2>6 DEF DeleteBill
      <3>2. Pending' = Pending
        <4>1. idle.at # "adjust"
          BY DEF idle
        <4> QED
          BY <3>1, <4>1, PlainTasks, StartedTask
      <3>3. Sold' = Sold /\ Adjusted' = Adjusted
        BY <2>2, SumsKept
      <3>4. Part(bills, b) = 0 /\ Part(B, b) = 0
        BY <2>4, <2>6 DEF Part, PartOf, Pieces, Counted
      <3>5. BoughtIn(B) = BoughtIn(bills) - Part(bills, b) + Part(B, b)
        BY <1>0, <2>2, <2>3, BillChanged
      <3>6. BoughtIn(bills') = BoughtIn(bills)
        BY <1>0, <2>2, <3>4, <3>5
      <3> QED
        BY <1>0, <1>00, <3>1, <3>2, <3>3, <3>6
    <2> QED
      BY <2>5, <2>6
  <1>4. ASSUME NEW w \in Workers, NEW b \in Bills, RestoreBill(w, b)
        PROVE  pool'.qty + Pending' = BoughtIn(bills') + Adjusted' - Sold'
    <2>1. PICK B : B = [bills EXCEPT ![b].deleted = FALSE]
      OBVIOUS
    <2>2. /\ bills' = B /\ sales' = sales /\ adjs' = adjs /\ bills[b].deleted
          /\ Start(w, Marking(b)) /\ ScopedReplay(b, B)
      BY <1>4, <2>1 DEF RestoreBill
    <2>3. /\ \A x \in Bills : x # b => B[x] = bills[x]
          /\ B[b].status = bills[b].status /\ B[b].items = bills[b].items
      BY <1>0, <2>1 DEF BillRows, BillRow
    <2>4. ~Counted(bills, b) /\ (Counted(B, b) => bills[b].status = "confirmed")
      BY <2>2, <2>3 DEF Counted
    <2> QED
      BY <1>2, <2>2, <2>3, <2>4
  <1>5. ASSUME NEW w \in Workers, PatchWrite(w)
        PROVE  pool'.qty + Pending' = BoughtIn(bills') + Adjusted' - Sold'
    <2>1. PICK b, d : b = worker[w].bill /\ d = worker[w].date
      OBVIOUS
    <2>2. b \in Bills
      <3>1. worker[w] \in Tasks /\ worker[w].at = "patch"
        BY <1>5, WorkerTask DEF PatchWrite
      <3> QED
        BY <2>1, <3>1, TaskIs
    <2>3. bills' = [bills EXCEPT ![b].date = d] /\ pool' = pool /\ trust' = trust
          /\ sales' = sales /\ adjs' = adjs
      BY <1>5, <2>1 DEF PatchWrite
    <2>4. /\ \A x \in Bills : x # b => bills'[x] = bills[x]
          /\ bills'[b].items = bills[b].items /\ bills'[b].status = bills[b].status
          /\ bills'[b].deleted = bills[b].deleted
      BY <1>0, <2>2, <2>3 DEF BillRows, BillRow
    <2>5. Part(bills', b) = Part(bills, b)
      BY <2>4 DEF Part, PartOf, Pieces, Counted
    <2>6. BoughtIn(bills') = BoughtIn(bills) - Part(bills, b) + Part(bills', b) /\ Part(bills, b) \in Int
      BY <1>0, <2>2, <2>4, BillChanged, PartType
    <2> DEFINE task == IF worker[w].status = "confirmed" THEN [at |-> "snapshot"] ELSE idle
    <2>7. Continue(w, "patch", task) /\ task \in Tasks /\ task.at # "adjust"
      BY <1>5, PlainTasks DEF PatchWrite, idle
    <2> HIDE DEF task
    <2>8. Pending' = Pending
      BY <2>7, ContinuedTask
    <2>9. Sold' = Sold /\ Adjusted' = Adjusted
      BY <2>3, SumsKept
    <2> QED
      BY <1>0, <1>00, <2>3, <2>5, <2>6, <2>8, <2>9
  <1>6. ASSUME NEW w \in Workers, NEW d \in Deltas, AdjustRow(w, d)
        PROVE  pool'.qty + Pending' = BoughtIn(bills') + Adjusted' - Sold'
    <2>1. d \in Int \ {0}
      BY LedgerAssumption
    <2>2. PICK t : t = [at |-> "adjust", delta |-> d]
      OBVIOUS
    <2>3. t \in Tasks /\ t.at = "adjust" /\ t.delta = d
      BY <2>1, <2>2, RowTasks
    <2>4. Start(w, t) /\ AddRow(d) /\ pool' = pool /\ trust' = trust /\ bills' = bills /\ sales' = sales
      BY <1>6, <2>2 DEF AdjustRow
    <2>5. Pending' = Pending + d
      BY <2>3, <2>4, StartedTask
    <2>6. Adjusted' = Adjusted + d /\ Sold' = Sold
      BY <2>1, <2>4, AdjustedMore, SumsKept
    <2> QED
      BY <1>0, <1>00, <2>1, <2>4, <2>5, <2>6
  <1>7. ASSUME NEW w \in Workers, AdjustApply(w)
        PROVE  pool'.qty + Pending' = BoughtIn(bills') + Adjusted' - Sold'
    <2>1. PICK d : d = worker[w].delta
      OBVIOUS
    <2>2. /\ worker[w].at = "adjust" /\ pool' = ApplyAdjustment(pool, d)
          /\ Continue(w, "adjust", idle) /\ bills' = bills /\ sales' = sales /\ adjs' = adjs
          /\ trust' = trust
      BY <1>7, <2>1 DEF AdjustApply, rows
    <2>3. d \in Int
      BY <2>1, <2>2, WorkerTask, TaskIs
    <2>4. pool'.qty = pool.qty + d
      BY <1>0, <2>2, <2>3, AdjustmentQty
    <2>5. Due[w] = d
      BY <2>1, <2>2 DEF Due
    <2>6. Pending' = Pending - d
      <3>1. worker' = [worker EXCEPT ![w] = idle] /\ idle \in Tasks /\ idle.at # "adjust"
        BY <2>2, PlainTasks, ContinueTask DEF idle
      <3> QED
        BY <2>5, <3>1, TaskChanged
    <2>7. Sold' = Sold /\ Adjusted' = Adjusted
      BY <2>2, SumsKept
    <2> QED
      BY <1>0, <1>00, <2>2, <2>3, <2>4, <2>6, <2>7
  <1>8. ASSUME NEW n \in Quantities, CreateSale(n)
        PROVE  pool'.qty + Pending' = BoughtIn(bills') + Adjusted' - Sold'
    <2>1. n \in Int
      BY LedgerAssumption
    <2>2. PICK row : row = [qty |-> n, ts |-> Now, cost |-> PeekAvgCost, valid |-> TRUE]
      OBVIOUS
    <2>3. /\ sales' = Append(sales, row) /\ pool' = ApplySale(pool, n) /\ bills' = bills
          /\ adjs' = adjs /\ worker' = worker /\ trust # "none"
      BY <1>8, <2>2 DEF CreateSale, AtMostQty
    <2>4. row.qty = n /\ row.valid
      BY <2>2
    <2>5. Sold' = Sold + n
      BY <2>1, <2>3, <2>4, SoldMore
    <2>6. pool'.qty = pool.qty - n
      BY <1>0, <2>1, <2>3, SaleQty
    <2>7. Adjusted' = Adjusted /\ Pending' = Pending
      BY <2>3, SumsKept
    <2>8. pool.qty + Pending = BoughtIn(bills) + Adjusted - Sold
      BY <1>00, <2>3
    <2>9. BoughtIn(bills') = BoughtIn(bills)
      BY <2>3
    <2> QED
      BY <1>0, <2>1, <2>4, <2>5, <2>6, <2>7, <2>8, <2>9
  <1>9. ASSUME NEW i \in DOMAIN sales, RefundSale(i)
        PROVE  pool'.qty + Pending' = BoughtIn(bills') + Adjusted' - Sold'
    <2>1. sales[i].qty \in Int /\ sales[i].cost \in Int
      BY SaleIn DEF SaleRow
    <2>2. /\ sales[i].valid /\ sales' = [sales EXCEPT ![i].valid = FALSE]
          /\ pool' = ReverseSale(pool, sales[i].qty, sales[i].cost)
          /\ bills' = bills /\ adjs' = adjs /\ worker' = worker /\ trust # "none"
      BY <1>9 DEF RefundSale, AtMostQty
    <2>3. Sold' = Sold - sales[i].qty
      BY <2>2, SoldLess
    <2>4. pool'.qty = pool.qty + sales[i].qty
      BY <1>0, <2>1, <2>2, RefundQty
    <2>5. Adjusted' = Adjusted /\ Pending' = Pending
      BY <2>2, SumsKept
    <2> QED
      BY <1>0, <1>00, <2>1, <2>2, <2>3, <2>4, <2>5
  <1>10. ASSUME NEW w \in Workers, RebuildWrite(w)
         PROVE  pool'.qty + Pending' = BoughtIn(bills') + Adjusted' - Sold'
    <2>1. PICK S, c : S = worker[w].events /\ c = worker[w].costs
      OBVIOUS
    <2>2. /\ pool' = Replay(S) /\ sales' = Restated(S, c) /\ bills' = bills /\ adjs' = adjs
          /\ trust' = IF S # Events(bills) THEN "none"
                      ELSE Realigned(IF c = Costs THEN "full" ELSE "qty")
          /\ Continue(w, "write", [at |-> "clear"])
      BY <1>10, <2>1 DEF RebuildWrite
    <2>3. S = Events(bills) /\ Pending = 0
      BY <2>2, RealignedQty
    <2>4. pool'.qty = BoughtIn(bills) + Adjusted - Sold
      BY <1>0, <2>2, <2>3, ReplayedPool
    <2>5. Pending' = Pending
      BY <2>2, PlainTasks, ContinuedTask
    <2>6. Sold' = Sold
      <3>1. S \in SUBSET Event /\ IsFiniteSet(S)
        BY <1>0, <2>3, EventsQty
      <3>2. /\ DOMAIN sales' = DOMAIN sales
            /\ \A i \in DOMAIN sales : /\ sales'[i].qty = sales[i].qty
                                       /\ sales'[i].valid = sales[i].valid
        BY <2>2, <3>1, RestatedRows
      <3> QED
        BY <3>2, SoldKept
    <2>7. Adjusted' = Adjusted
      BY <2>2, SumsKept
    <2> QED
      BY <1>0, <2>2, <2>3, <2>4, <2>5, <2>6, <2>7
  <1>11. ASSUME Crash
         PROVE  pool'.qty + Pending' = BoughtIn(bills') + Adjusted' - Sold'
    <2>1. /\ pool' = pool /\ bills' = bills /\ sales' = sales /\ adjs' = adjs
          /\ worker' = [w \in Workers |-> idle] /\ trust' = Realigned(trust)
      BY <1>11 DEF Crash, rows
    <2>2. Pending = 0 /\ trust # "none"
      BY <2>1, RealignedQty DEF Realigned
    <2>3. Pending' = 0
      <3>1. ~HalfApplied'
        BY <2>1 DEF HalfApplied, idle
      <3>2. (TypeOK /\ ~HalfApplied => Pending = 0)'
        BY NothingDue, PTL
      <3> QED
        BY <3>1, <3>2
    <2>4. Sold' = Sold /\ Adjusted' = Adjusted
      BY <2>1, SumsKept
    <2> QED
      BY <1>0, <1>00, <2>1, <2>2, <2>3, <2>4
  <1>12. ASSUME Boot
         PROVE  pool'.qty + Pending' = BoughtIn(bills') + Adjusted' - Sold'
    <2>1. /\ app # "up" /\ bills' = bills /\ adjs' = adjs /\ worker' = worker
          /\ IF dirty THEN pool' = Replay(Events(bills)) /\ sales' = Restated(Events(bills), Costs)
                      ELSE pool' = pool /\ sales' = sales /\ trust' = trust
      BY <1>12 DEF Boot
    <2>2. Pending = 0
      <3>1. ~HalfApplied
        BY <2>1 DEF Settled, HalfApplied, idle
      <3> QED
        BY <3>1, NothingDue
    <2>3. Adjusted' = Adjusted /\ Pending' = Pending
      BY <2>1, SumsKept
    <2>4. CASE dirty
      <3>1. Events(bills) \in SUBSET Event /\ IsFiniteSet(Events(bills))
        BY <1>0, EventsQty
      <3>2. pool'.qty = BoughtIn(bills) + Adjusted - Sold
        BY <1>0, <2>1, <2>4, ReplayedPool
      <3>3. Sold' = Sold
        BY <2>1, <2>4, <3>1, RestatedRows, SoldKept
      <3> QED
        BY <1>0, <2>1, <2>2, <2>3, <3>2, <3>3
    <2>5. CASE ~dirty
      BY <1>0, <1>00, <2>1, <2>3, <2>5, SumsKept
    <2> QED
      BY <2>4, <2>5
  <1>13. ASSUME pool' = pool, bills' = bills, sales' = sales, adjs' = adjs, trust' = trust,
                Pending' = Pending
         PROVE  pool'.qty + Pending' = BoughtIn(bills') + Adjusted' - Sold'
    BY <1>0, <1>00, <1>13, SumsKept
  <1>14. ASSUME NEW w \in Workers,
                \/ \E b \in Bills, d \in 1 .. MaxDay : PatchRead(w, b, d)
                \/ RebuildRoute(w)
         PROVE  pool'.qty + Pending' = BoughtIn(bills') + Adjusted' - Sold'
    <2>1. CASE RebuildRoute(w)
      <3>1. Pending' = Pending
        BY <2>1, PlainTasks, StartedTask DEF RebuildRoute
      <3> QED
        BY <1>13, <2>1, <3>1 DEF RebuildRoute, rows
    <2>2. ASSUME NEW b \in Bills, NEW d \in 1 .. MaxDay, PatchRead(w, b, d)
          PROVE  pool'.qty + Pending' = BoughtIn(bills') + Adjusted' - Sold'
      <3>1. PICK t : t = [at |-> "patch", bill |-> b, date |-> d, status |-> bills[b].status]
        OBVIOUS
      <3>2. bills[b].status \in Statuses
        BY <1>0 DEF BillRows, BillRow
      <3>3. t \in Tasks /\ t.at # "adjust"
        BY <3>1, <3>2, DatedTasks
      <3>4. Start(w, t)
        BY <2>2, <3>1 DEF PatchRead
      <3>5. Pending' = Pending
        BY <3>3, <3>4, StartedTask
      <3> QED
        BY <1>13, <2>2, <3>5 DEF PatchRead, rows
    <2> QED
      BY <1>14, <2>1, <2>2
  <1>15. ASSUME NEW w \in Workers,
                CheckCrossed(w) \/ MarkDirty(w) \/ RebuildRead(w) \/ RebuildClear(w)
         PROVE  pool'.qty + Pending' = BoughtIn(bills') + Adjusted' - Sold'
    <2>1. PICK from \in {"crossed", "mark", "snapshot", "clear"}, t \in Tasks :
             Continue(w, from, t) /\ t.at # "adjust"
      <3>1. CASE CheckCrossed(w)
        <4>1. Continue(w, "crossed", [at |-> "snapshot"]) \/ Continue(w, "crossed", idle)
          BY <3>1 DEF CheckCrossed
        <4> QED
          BY <4>1, PlainTasks DEF idle
      <3>2. CASE MarkDirty(w)
        BY <3>2, PlainTasks DEF MarkDirty, idle
      <3>3. CASE RebuildClear(w)
        BY <3>3, PlainTasks DEF RebuildClear, idle
      <3>4. CASE RebuildRead(w)
        <4>1. Events(bills) \in SUBSET Event /\ IsFiniteSet(Events(bills)) /\ Costs \in Seq(Int)
          BY <1>0, EventsQty, CostsType
        <4>2. [at |-> "write", events |-> Events(bills), costs |-> Costs] \in Tasks
          BY <4>1, RowTasks
        <4> QED
          BY <3>4, <4>2 DEF RebuildRead
      <3> QED
        BY <1>15, <3>1, <3>2, <3>3, <3>4
    <2>2. Pending' = Pending
      BY <2>1, ContinuedTask
    <2>3. pool' = pool /\ bills' = bills /\ sales' = sales /\ adjs' = adjs /\ trust' = trust
      BY <1>15 DEF CheckCrossed, MarkDirty, RebuildRead, RebuildClear, rows
    <2> QED
      BY <1>13, <2>2, <2>3
  <1>16. CASE CleanShutdown \/ NextDay \/ UNCHANGED vars
    <2>1. /\ pool' = pool /\ bills' = bills /\ sales' = sales /\ adjs' = adjs /\ trust' = trust
          /\ worker' = worker
      BY <1>16 DEF CleanShutdown, NextDay, vars, rows
    <2> QED
      BY <1>13, <2>1, SumsKept
  <1>17. ASSUME NEW n \in Counts, StockCount(n)
         PROVE  FALSE
    BY <1>17 DEF StockCount
  <1> QED
    BY <1>1, <1>3, <1>4, <1>5, <1>6, <1>7, <1>8, <1>9, <1>10, <1>11, <1>12, <1>14, <1>15, <1>16,
       <1>17 DEF Next

LEMMA SettledStep == ASSUME TypeOK, Settled, [Next]_vars PROVE Settled'
  <1>1. CASE app' = "up"
    BY <1>1 DEF Settled
  <1>2. CASE app' # "up" /\ app = "up"
    <2>1. Crash \/ CleanShutdown
      BY <1>2 DEF Next, vars, Confirm, CheckCrossed, DeleteBill, RestoreBill, MarkDirty, PatchRead,
         PatchWrite, CreateSale, RefundSale, AdjustRow, AdjustApply, StockCount, RebuildRoute,
         RebuildRead, RebuildWrite, RebuildClear, Boot, NextDay
    <2> QED
      BY <2>1 DEF Crash, CleanShutdown, Settled
  <1>3. CASE app' # "up" /\ app # "up"
    <2>1. \A w \in Workers : worker[w] = idle
      BY <1>3 DEF Settled
    <2>2. worker' = worker
      <3>1. \A w \in Workers : worker[w].at = "idle"
        BY <2>1 DEF idle
      <3>2. ASSUME NEW w \in Workers,
                   CheckCrossed(w) \/ MarkDirty(w) \/ PatchWrite(w) \/ AdjustApply(w)
                      \/ RebuildRead(w) \/ RebuildWrite(w) \/ RebuildClear(w)
            PROVE  FALSE
        BY <3>1, <3>2 DEF CheckCrossed, MarkDirty, PatchWrite, AdjustApply, RebuildRead, RebuildWrite,
           RebuildClear, Continue
      <3>3. ASSUME NEW w \in Workers, NEW b \in Bills,
                   \/ \E f \in Forms : Confirm(w, b, f)
                   \/ \E permanent \in BOOLEAN : DeleteBill(w, b, permanent)
                   \/ RestoreBill(w, b) \/ \E d \in 1 .. MaxDay : PatchRead(w, b, d)
            PROVE  FALSE
        BY <1>3, <3>3 DEF Confirm, DeleteBill, RestoreBill, PatchRead, Start
      <3>4. ASSUME NEW w \in Workers, RebuildRoute(w) \/ \E d \in Deltas : AdjustRow(w, d)
            PROVE  FALSE
        BY <1>3, <3>4 DEF RebuildRoute, AdjustRow, Start
      <3>5. \/ \E n \in Quantities : CreateSale(n)
            \/ \E i \in DOMAIN sales : RefundSale(i)
            \/ \E n \in Counts : StockCount(n)
            \/ Crash \/ CleanShutdown \/ Boot \/ NextDay \/ UNCHANGED vars
        BY <3>2, <3>3, <3>4 DEF Next
      <3> QED
        BY <1>3, <3>5 DEF CreateSale, RefundSale, StockCount, Crash, CleanShutdown, Boot, NextDay, vars
    <2> QED
      BY <2>1, <2>2 DEF Settled
  <1> QED
    BY <1>1, <1>2, <1>3

(***************************************************************************)
(* The running quantity follows the rows wherever trust says it can be     *)
(* relied on: for any bills, lines, request threads and rebuilds.          *)
(***************************************************************************)
THEOREM QuantityAddsUp == Spec => []QtyFollowsLedger
  <1>1. Init => Settled /\ QtyInv
    <2> SUFFICES ASSUME Init PROVE Settled /\ QtyInv
      OBVIOUS
    <2>1. Settled
      BY DEF Init, Settled
    <2>2. \A b \in Bills : ~Counted(bills, b)
      BY DEF Init, Counted
    <2>3. LinesOf(bills) = {}
      BY <2>2 DEF LinesOf, CountedBills
    <2>4. BoughtIn(bills) = 0
      BY <2>3, SumEmpty DEF BoughtIn, WeightIn
    <2>5. DOMAIN sales = {} /\ DOMAIN adjs = {}
      BY DEF Init
    <2>6. Sold = 0
      <3>1. Standing = {}
        BY <2>5 DEF Standing
      <3> QED
        BY <3>1, SumEmpty DEF Sold, SumFunction
    <2>7. Adjusted = 0
      BY <2>5, SumEmpty DEF Adjusted, SumFunction
    <2>8. Pending = 0
      <3>1. \A w \in Workers : Due[w] = 0
        BY DEF Due, Init, idle
      <3>2. SumFunctionOnSet(Due, Workers) = -SumFunctionOnSet(Due, Workers)
        BY <3>1, SumNegated, LedgerAssumption
      <3>3. SumFunctionOnSet(Due, Workers) \in Int
        BY <3>1, SumType, LedgerAssumption
      <3> QED
        BY <3>2, <3>3 DEF Pending
    <2>9. pool.qty = 0
      BY DEF Init, Empty, Pool
    <2> QED
      BY <2>1, <2>4, <2>6, <2>7, <2>8, <2>9 DEF QtyInv
  <1>2. TypeOK /\ TypeOK' /\ Settled /\ QtyInv /\ [Next]_vars => Settled' /\ QtyInv'
    BY SettledStep, QtyStep DEF QtyInv
  <1>3. TypeOK /\ QtyInv => QtyFollowsLedger
    <2> SUFFICES ASSUME TypeOK, QtyInv, trust # "none", ~HalfApplied
                 PROVE  pool.qty = Bought + Adjusted - Sold
      BY DEF QtyFollowsLedger
    <2>1. pool.qty + Pending = BoughtIn(bills) + Adjusted - Sold /\ Pending = 0
      BY NothingDue DEF QtyInv
    <2>2. pool.qty \in Int
      BY DEF TypeOK, Pools
    <2> QED
      BY <2>1, <2>2, BoughtIsBoughtIn
  <1> QED
    BY <1>1, <1>2, <1>3, TypeCorrect, PTL DEF Spec

-----------------------------------------------------------------------------
(***************************************************************************)
(* What one operation does to the value of a pool.                         *)
(***************************************************************************)
LEMMA TimesInt == \A a, b \in Int : a * b \in Int
  OBVIOUS

LEMMA AveragedValue == \A q, v : Averaged(q, v).value = v
  BY DEF Averaged, Pool

LEMMA PurchaseValue == \A p, q, price : ApplyPurchase(p, q, price).value = p.value + q * price
  BY AveragedValue DEF ApplyPurchase

LEMMA SaleValue == \A p, q : ApplySale(p, q).value = p.value - q * p.avg
  BY DEF ApplySale, Pool

LEMMA RefundValue ==
  \A p, q, cost : cost > 0 \/ p.avg = cost => ReverseSale(p, q, cost).value = p.value + q * cost
  BY AveragedValue DEF ReverseSale

(***************************************************************************)
(* What a line costs, and what the lines of a form cost.                   *)
(***************************************************************************)
Cost == [l \in Line |-> l.qty * l.price]
Price(items) == Weight(Cost, items)
CostIn(B) == WeightIn(Cost, B)

LEMMA CostIsWeight == Cost \in Weights
  <1>1. \A l \in Line : l.qty \in Int /\ l.price \in Int
    BY DEF Line
  <1>2. \A l \in Line : l.qty * l.price \in Int
    BY <1>1, TimesInt
  <1> QED
    BY <1>2 DEF Cost, Weights

LEMMA CostIsBoughtFor == TypeOK => BoughtFor = CostIn(bills)
  <1> SUFFICES ASSUME TypeOK PROVE BoughtFor = CostIn(bills)
    OBVIOUS
  <1> DEFINE F == [k \in BillItems |-> Item(k).qty * Item(k).price]
  <1>1. BillItems = LinesOf(bills) /\ bills \in BillRows
    BY DEF BillItems, LinesOf, BillLines, CountedBills, TypeOK, BillRows
  <1>2. \A k \in LinesOf(bills) : F[k] = LineWeights(Cost, bills)[k]
    BY <1>1, LineOf DEF LineWeights, Item, Cost
  <1>3. F = LineWeights(Cost, bills)
    BY <1>1, <1>2 DEF LineWeights
  <1>4. BoughtFor = SumFunctionOnSet(F, BillItems)
    BY DEF BoughtFor, SumFunction
  <1> HIDE DEF F
  <1> QED
    BY <1>1, <1>3, <1>4 DEF CostIn, WeightIn

\* a form's lines bring what they cost
LEMMA AddValue ==
  ASSUME NEW items \in Seq(Line), NEW base \in Pools
  PROVE  FoldLeft(AddItem, base, items).value = base.value + Price(items)
  <1> DEFINE S == DOMAIN items
             F == Weighed(Cost, items)
             fold(T) == Folded("add", items, base, T)
             sum(T) == SumFunctionOnSet(F, T)
             right(T) == fold(T) \in Pools /\ fold(T).value = base.value + sum(T)
             X == {T \in SUBSET S : ~right(T)}
  <1>0. IsFiniteSet(S) /\ S \in SUBSET Int
    BY LinesFinite
  <1>00. \A x \in S : F[x] \in Int
    BY WeightType, CostIsWeight
  <1>1. SUFFICES ASSUME X # {} PROVE FALSE
    <2>1. X = {} => right(S)
      OBVIOUS
    <2> HIDE DEF X
    <2> QED
      BY <2>1, AddIsFold DEF Price, Weight
  <1>2. X \in SUBSET SUBSET S
    OBVIOUS
  <1>3. PICK T \in X : \A U \in SUBSET T : U \in X => U = T
    <2> HIDE DEF X
    <2> QED
      BY <1>0, <1>1, <1>2, SmallestSubset
  <1>4. T \in SUBSET S /\ ~right(T) /\ IsFiniteSet(T)
    BY <1>0, FS_Subset
  <1>5. T # {}
    <2>1. base.value \in Int
      BY DEF Pools
    <2>2. fold({}) = base /\ sum({}) = 0
      BY FoldEmpty, SumEmpty
    <2>3. right({})
      BY <2>1, <2>2
    <2> HIDE DEF right
    <2> QED
      BY <1>4, <2>3
  <1> DEFINE i == Max(T)
             R == T \ {i}
  <1>6. i \in T /\ Picks("add", T)
    <2>1. \A U \in SUBSET T : U # {} => Max(U) \in U
      BY <1>0, <1>4, MaxIn
    <2>2. i \in T
      BY <1>5, <2>1
    <2> QED
      BY <1>4, <2>1, <2>2 DEF Picks, Pick
  <1>7. right(R)
    <2>1. R \in SUBSET T /\ R # T /\ R \in SUBSET S
      BY <1>4, <1>6
    <2>2. R \notin X
      <3> HIDE DEF X, R
      <3> QED
        BY <1>3, <2>1
    <2> HIDE DEF right, R
    <2> QED
      BY <2>1, <2>2
  <1>8. fold(T) = AddItem(fold(R), items[i])
    <2> HIDE DEF R
    <2> QED
      BY <1>4, <1>5, <1>6, FoldStep DEF R, Op, Pick
  <1>9. items[i] \in Line /\ i \in S
    BY <1>4, <1>6
  <1>10. items[i].qty \in Int /\ items[i].price \in Int
    BY <1>9 DEF Line
  <1>11. fold(T) \in Pools /\ fold(T).value = fold(R).value + F[i]
    <2>1. F[i] = items[i].qty * items[i].price
      <3> HIDE DEF i
      <3> QED
        BY <1>9 DEF Weighed, Cost
    <2>2. fold(T) = ApplyPurchase(fold(R), items[i].qty, items[i].price)
      BY <1>8 DEF AddItem
    <2> HIDE DEF fold, i, R, X, F
    <2> QED
      BY <1>7, <1>10, <2>1, <2>2, PurchaseQty, PurchaseValue
  <1>12. sum(T) = F[i] + sum(R) /\ sum(R) \in Int /\ F[i] \in Int
    <2>1. \A x \in T : F[x] \in Int
      BY <1>00, <1>4
    <2>2. IsFiniteSet(R) /\ \A x \in R : F[x] \in Int
      BY <1>4, <2>1, FS_Subset
    <2> HIDE DEF i, R, X, F
    <2>3. SumFunctionOnSet(F, T) = F[i] + SumFunctionOnSet(F, T \ {i})
      BY <1>4, <1>6, <2>1, SumRemove
    <2>4. sum(R) \in Int
      BY <2>2, SumType
    <2> QED
      BY <1>6, <2>1, <2>3, <2>4 DEF R
  <1>13. base.value \in Int
    BY DEF Pools
  <1> QED
    <2> HIDE DEF fold, sum, i, R, X, S, F
    <2> QED
      BY <1>4, <1>7, <1>11, <1>12, <1>13

(***************************************************************************)
(* A replay without adjustments: its value is what its purchases cost less *)
(* what it charges to its sales.  The sum is taken over the events of E,   *)
(* each sale at the cost a replay of E gives it.                           *)
(***************************************************************************)
Charged(E) ==
    [e \in E |-> IF e.kind = "purchase" THEN e.qty * e.price ELSE -(e.qty * ReplayCost(E, e))]

InOrder(E) == \A e, f \in E : e # f => Before(e, f) \/ Before(f, e)
Closed(T, E) == \A e \in E, f \in T : Before(e, f) => e \in T

LEMMA ChargedType ==
  ASSUME NEW E \in SUBSET Event, IsFiniteSet(E)
  PROVE  \A e \in E : Charged(E)[e] \in Int
  <1> TAKE e \in E
  <1>1. e.qty \in Int /\ e.price \in Int
    BY DEF Event
  <1>2. ReplayCost(E, e) \in Int
    BY CostType
  <1>3. e.qty * e.price \in Int /\ e.qty * ReplayCost(E, e) \in Int
    BY <1>1, <1>2
  <1> QED
    BY <1>3 DEF Charged

LEMMA ReplayValue ==
  ASSUME NEW E \in SUBSET Event, IsFiniteSet(E), InOrder(E),
         \A e \in E : e.kind # "adjustment"
  PROVE  Replay(E).value = SumFunctionOnSet(Charged(E), E)
  <1> DEFINE F == Charged(E)
             sum(T) == SumFunctionOnSet(F, T)
             right(T) == Replay(T).value = sum(T)
             X == {T \in SUBSET E : Closed(T, E) /\ ~right(T)}
  <1>00. \A e \in E : F[e] \in Int
    BY ChargedType
  <1>1. SUFFICES ASSUME X # {} PROVE FALSE
    <2>1. Closed(E, E)
      BY DEF Closed
    <2> QED
      BY <2>1
  <1>0. X \in SUBSET SUBSET E
    OBVIOUS
  <1>2. PICK T \in X : \A U \in SUBSET T : U \in X => U = T
    <2> HIDE DEF X
    <2> QED
      BY <1>0, <1>1, SmallestSubset
  <1>3. T \in SUBSET E /\ Closed(T, E) /\ ~right(T) /\ IsFiniteSet(T)
    BY FS_Subset
  <1>4. T # {}
    <2>1. Empty.value = 0
      BY DEF Empty, Pool
    <2> QED
      BY <1>3, <2>1, ReplayNone, SumEmpty
  <1> DEFINE l == Latest(T)
             R == T \ {l}
  <1>5. l \in T /\ Replay(T) = ReplayEvent(l, Replay(R))
    BY <1>3, <1>4, ReplayLast
  <1>6. \A f \in T : ~Before(l, f)
    BY <1>3, <1>4, LatestIsLast
  <1>7. R = {f \in E : Before(f, l)}
    <2>1. ASSUME NEW f \in R PROVE f \in E /\ Before(f, l)
      BY <1>3, <1>5, <1>6, <2>1 DEF InOrder
    <2>2. ASSUME NEW f \in E, Before(f, l) PROVE f \in R
      <3>1. f \in T
        BY <1>3, <1>5, <2>2 DEF Closed
      <3>2. f # l
        BY <1>3, <1>5, <2>2, BeforeIrreflexive
      <3> QED
        BY <3>1, <3>2
    <2> HIDE DEF l, R
    <2> QED
      BY <2>1, <2>2
  <1>8. right(R)
    <2>1. Closed(R, E)
      <3> SUFFICES ASSUME NEW e \in E, NEW f \in R, Before(e, f) PROVE e \in R
        BY DEF Closed
      <3>1. f \in E /\ l \in E /\ Before(f, l)
        BY <1>3, <1>5, <1>7
      <3>2. Before(e, l)
        <4> HIDE DEF l, R
        <4> QED
          BY <3>1, BeforeTransitive
      <3> QED
        BY <1>7, <3>2
    <2>2. R \in SUBSET T /\ R # T /\ R \in SUBSET E
      BY <1>3, <1>5
    <2>3. R \notin X
      <3> HIDE DEF X, R
      <3> QED
        BY <1>2, <2>2
    <2> HIDE DEF right, R
    <2> QED
      BY <2>1, <2>2, <2>3
  <1>9. ReplayCost(E, l) = Replay(R).avg
    BY <1>7 DEF ReplayCost
  <1>10. l \in E /\ l \in Event /\ l.kind \in {"purchase", "sale"}
    BY <1>3, <1>5 DEF Event
  <1>11. Replay(R) \in Pools
    BY <1>3, ReplayQty, FS_Subset
  <1> HIDE DEF l, R
  <1>12. Replay(T).value = Replay(R).value + F[l]
    <2>1. l.qty \in Int /\ l.price \in Int /\ Replay(R).value \in Int /\ Replay(R).avg \in Int
      BY <1>10, <1>11 DEF Event, Pools
    <2>2. CASE l.kind = "purchase"
      <3>1. Replay(T).value = Replay(R).value + l.qty * l.price
        BY <1>5, <2>2, PurchaseValue DEF ReplayEvent
      <3>2. F[l] = l.qty * l.price
        BY <1>10, <2>2 DEF Charged
      <3> QED
        BY <3>1, <3>2
    <2>3. CASE l.kind = "sale"
      <3>1. Replay(T).value = Replay(R).value - l.qty * Replay(R).avg
        BY <1>5, <2>3, SaleValue DEF ReplayEvent
      <3>2. F[l] = -(l.qty * Replay(R).avg)
        BY <1>9, <1>10, <2>3 DEF Charged
      <3>3. l.qty * Replay(R).avg \in Int
        BY <2>1
      <3> QED
        BY <2>1, <3>1, <3>2, <3>3
    <2> QED
      BY <1>10, <2>2, <2>3
  <1>13. \A x \in T : F[x] \in Int
    BY <1>00, <1>3
  <1>14. IsFiniteSet(R) /\ \A x \in R : F[x] \in Int
    BY <1>3, <1>13, FS_Subset DEF R
  <1> HIDE DEF F, X
  <1>15. sum(T) = F[l] + sum(R)
    BY <1>3, <1>5, <1>13, SumRemove DEF R
  <1>16. sum(R) \in Int /\ F[l] \in Int
    BY <1>5, <1>13, <1>14, SumType
  <1> QED
    BY <1>3, <1>8, <1>12, <1>15, <1>16

(***************************************************************************)
(* The events of the rows are in order.                                    *)
(***************************************************************************)
LEMMA Comparable ==
  ASSUME NEW e \in Event, NEW f \in Event, Turn(e) # Turn(f) \/ e.id # f.id \/ e.line # f.line
  PROVE  Before(e, f) \/ Before(f, e)
  <1>1. Turn(e) \in Nat /\ Turn(f) \in Nat
    BY TurnType
  <1>2. /\ e.ts \in Nat /\ f.ts \in Nat /\ e.id \in Nat /\ f.id \in Nat
        /\ e.line \in Nat /\ f.line \in Nat
    BY DEF Event
  <1> QED
    BY <1>1, <1>2 DEF Before

LEMMA PlainEvents ==
  ASSUME TypeOK, NEW B \in BillRows, adjs = <<>>
  PROVE  /\ Events(B) = PurchaseEvents(B) \cup SaleEvents
         /\ PurchaseEvents(B) \cap SaleEvents = {}
         /\ \A e \in PurchaseEvents(B) : e.kind = "purchase"
         /\ \A e \in SaleEvents : e.kind = "sale"
  <1>1. AdjustEvents = {}
    BY DEF AdjustEvents
  <1>2. \A e \in PurchaseEvents(B) : e.kind = "purchase"
    BY PurchaseEventsAre DEF Purchase
  <1>3. \A e \in SaleEvents : e.kind = "sale"
    BY SaleEventsAre DEF SaleEvent
  <1> QED
    BY <1>1, <1>2, <1>3 DEF Events

LEMMA EventsInOrder ==
  ASSUME TypeOK, NEW B \in BillRows, adjs = <<>>
  PROVE  InOrder(Events(B))
  <1> SUFFICES ASSUME NEW e \in Events(B), NEW f \in Events(B), e # f
               PROVE  Before(e, f) \/ Before(f, e)
    BY DEF InOrder
  <1>1. e \in Event /\ f \in Event
    BY EventsQty
  <1>2. CASE e.kind = f.kind
    <2>1. CASE e.kind = "purchase"
      <3>1. e \in PurchaseEvents(B) /\ f \in PurchaseEvents(B)
        BY <1>2, <2>1, PlainEvents
      <3>2. PICK k \in LinesOf(B), m \in LinesOf(B) : e = Purchase(B, k) /\ f = Purchase(B, m)
        BY <3>1, PurchaseEventsAre
      <3>3. e.id # f.id \/ e.line # f.line
        BY <3>2, PurchasesDiffer
      <3> QED
        BY <1>1, <3>3, Comparable
    <2>2. CASE e.kind = "sale"
      <3>1. e \in SaleEvents /\ f \in SaleEvents
        BY <1>2, <2>2, PlainEvents
      <3>2. PICK i \in Standing, j \in Standing : e = SaleEvent(i) /\ f = SaleEvent(j)
        BY <3>1, SaleEventsAre
      <3>3. e.id = i /\ f.id = j
        BY <3>2 DEF SaleEvent
      <3> QED
        BY <1>1, <3>2, <3>3, Comparable
    <2> QED
      BY <2>1, <2>2, PlainEvents
  <1>3. CASE e.kind # f.kind
    <2>1. Turn(e) # Turn(f)
      BY <1>3, PlainEvents DEF Turn
    <2> QED
      BY <1>1, <2>1, Comparable
  <1> QED
    BY <1>2, <1>3

(***************************************************************************)
(* What a replay of the rows leaves in the pool and gives to the sales.    *)
(***************************************************************************)
Replayed(B) == [i \in Standing |-> sales[i].qty * ReplayCost(Events(B), SaleEvent(i))]

LEMMA EventsValue ==
  ASSUME TypeOK, NEW B \in BillRows, adjs = <<>>
  PROVE  /\ Replay(Events(B)).value = CostIn(B) - SumFunctionOnSet(Replayed(B), Standing)
         /\ SumFunctionOnSet(Replayed(B), Standing) \in Int
  <1> DEFINE E == Events(B)
             P == PurchaseEvents(B)
             S == SaleEvents
             F == Charged(E)
             G == Replayed(B)
             N == [i \in Standing |-> -G[i]]
  <1>1. E \in SUBSET Event /\ IsFiniteSet(E)
    BY EventsQty
  <1>2. E = P \cup S /\ P \cap S = {}
    BY PlainEvents
  <1>3. /\ \A e \in P : e.kind = "purchase"
        /\ \A e \in S : e.kind = "sale"
    BY PlainEvents
  <1>4. Replay(E).value = SumFunctionOnSet(F, E)
    <2>1. InOrder(E)
      BY EventsInOrder
    <2>2. \A e \in E : e.kind # "adjustment"
      BY <1>2, <1>3
    <2> HIDE DEF E
    <2> QED
      BY <1>1, <2>1, <2>2, ReplayValue
  <1>5. \A e \in E : F[e] \in Int
    <2> HIDE DEF E
    <2> QED
      BY <1>1, ChargedType
  <1>6. SumFunctionOnSet(F, P) = CostIn(B)
    <2>1. \A k \in LinesOf(B) : LineWeights(Cost, B)[k] \in Int /\ F[Purchase(B, k)] = LineWeights(Cost, B)[k]
      <3> TAKE k \in LinesOf(B)
      <3>1. B[k[1]].items[k[2]] \in Line
        BY LineOf
      <3>2. Purchase(B, k) \in E
        BY <1>2, PurchaseEventsAre
      <3>3. F[Purchase(B, k)] = Purchase(B, k).qty * Purchase(B, k).price
        <4>1. Purchase(B, k).kind = "purchase"
          BY DEF Purchase
        <4> HIDE DEF E
        <4> QED
          BY <3>2, <4>1 DEF Charged
      <3>4. LineWeights(Cost, B)[k] = Purchase(B, k).qty * Purchase(B, k).price
        BY <3>1 DEF LineWeights, Cost, Purchase
      <3> QED
        BY <3>3, <3>4, LineWeightType, CostIsWeight
    <2> HIDE DEF F
    <2> QED
      BY <2>1, PurchaseSum DEF CostIn, WeightIn
  <1>7. \A i \in Standing : G[i] \in Int /\ N[i] = -G[i] /\ N[i] \in Int
    <2> TAKE i \in Standing
    <2>1. sales[i].qty \in Int
      BY SaleIn
    <2>2. ReplayCost(E, SaleEvent(i)) \in Int
      <3> HIDE DEF E
      <3> QED
        BY <1>1, CostType
    <2>3. sales[i].qty * ReplayCost(E, SaleEvent(i)) \in Int
      BY <2>1, <2>2, TimesInt
    <2>4. G[i] = sales[i].qty * ReplayCost(E, SaleEvent(i))
      BY DEF Replayed
    <2> HIDE DEF G, E
    <2> QED
      BY <2>3, <2>4
  <1>8. SumFunctionOnSet(F, S) = SumFunctionOnSet(N, Standing)
    <2>1. ASSUME NEW i \in Standing PROVE F[SaleEvent(i)] = N[i]
      <3>1. SaleEvent(i) \in E /\ SaleEvent(i).kind = "sale"
        BY <1>2, SaleEventsAre DEF SaleEvent
      <3>2. F[SaleEvent(i)] = -(SaleEvent(i).qty * ReplayCost(E, SaleEvent(i)))
        <4> HIDE DEF E
        <4> QED
          BY <3>1 DEF Charged
      <3>3. N[i] = -(sales[i].qty * ReplayCost(E, SaleEvent(i)))
        BY DEF Replayed
      <3>4. SaleEvent(i).qty = sales[i].qty
        BY DEF SaleEvent
      <3> HIDE DEF F, N, E
      <3> QED
        BY <3>2, <3>3, <3>4
    <2> HIDE DEF F, N, G, E
    <2> QED
      BY <1>7, <2>1, SaleSum
  <1>9. IsFiniteSet(P) /\ IsFiniteSet(S) /\ IsFiniteSet(Standing)
    BY PurchaseMoves, SaleMoves, SaleIn
  <1>10. (\A e \in P : F[e] \in Int) /\ (\A e \in S : F[e] \in Int)
    BY <1>2, <1>5
  <1> HIDE DEF E, P, S, F, G, N
  <1>11. SumFunctionOnSet(F, P \cup S) = SumFunctionOnSet(F, P) + SumFunctionOnSet(F, S)
    BY <1>2, <1>9, <1>10, SumUnion
  <1>12. SumFunctionOnSet(N, Standing) = -SumFunctionOnSet(G, Standing)
    BY <1>7, <1>9, SumNegated
  <1>13. SumFunctionOnSet(G, Standing) \in Int
    BY <1>7, <1>9, SumType
  <1>14. CostIn(B) \in Int
    BY WeightInType, CostIsWeight DEF CostIn
  <1>15. Replay(E).value = CostIn(B) - SumFunctionOnSet(G, Standing)
    BY <1>2, <1>4, <1>6, <1>8, <1>11, <1>12, <1>13, <1>14
  <1> QED
    BY <1>13, <1>15 DEF E, G

LEMMA RestatedCosts ==
  ASSUME TypeOK, adjs = <<>>, NEW i \in Standing
  PROVE  Restated(Events(bills), Costs)[i].cost = ReplayCost(Events(bills), SaleEvent(i))
  <1> DEFINE E == Events(bills)
             mine == {e \in E : e.kind = "sale" /\ e.id = i}
             new == ReplayCost(E, CHOOSE e \in mine : TRUE)
  <1>0. bills \in BillRows
    BY TypeParts
  <1>1. mine = {SaleEvent(i)}
    <2>1. SaleEvent(i) \in mine
      BY <1>0, PlainEvents, SaleEventsAre DEF SaleEvent
    <2>2. ASSUME NEW e \in mine PROVE e = SaleEvent(i)
      <3>1. e \in SaleEvents
        BY <1>0, PlainEvents
      <3>2. PICK j \in Standing : e = SaleEvent(j)
        BY <3>1, SaleEventsAre
      <3>3. j = i
        BY <3>2 DEF SaleEvent
      <3> QED
        BY <3>2, <3>3
    <2> QED
      BY <2>1, <2>2
  <1>2. (CHOOSE e \in mine : TRUE) = SaleEvent(i)
    BY <1>1
  <1>3. i \in DOMAIN sales /\ sales[i] \in SaleRow
    BY SaleIn
  <1>4. Costs[i] = sales[i].cost
    BY <1>3 DEF Costs
  <1>5. Restated(E, Costs)[i] = IF mine # {} /\ new # Costs[i] THEN [sales[i] EXCEPT !.cost = new]
                                                              ELSE sales[i]
    BY <1>3 DEF Restated
  <1>6. [sales[i] EXCEPT !.cost = new].cost = new
    BY <1>3 DEF SaleRow
  <1> HIDE DEF mine, E
  <1> QED
    BY <1>1, <1>2, <1>4, <1>5, <1>6 DEF E

\* a rebuild from what the rows still are puts value and costs right
LEMMA RebuildValue ==
  ASSUME TypeOK, adjs = <<>>, pool' = Replay(Events(bills)),
         sales' = Restated(Events(bills), Costs)
  PROVE  pool'.value + SoldAt' = CostIn(bills)
  <1> DEFINE G == Replayed(bills)
             R == Restated(Events(bills), Costs)
             H == [i \in Standing |-> sales[i].qty * sales[i].cost]
  <1>1. bills \in BillRows /\ IsFiniteSet(Standing)
    BY TypeParts, SaleIn
  <1>2. Events(bills) \in SUBSET Event /\ IsFiniteSet(Events(bills))
    BY <1>1, EventsQty
  <1>3. /\ DOMAIN R = DOMAIN sales
        /\ \A i \in DOMAIN sales : R[i].qty = sales[i].qty /\ R[i].valid = sales[i].valid
    BY <1>2, RestatedRows
  <1>4. Standing' = Standing
    BY <1>3 DEF Standing
  <1>5. \A i \in Standing : G[i] = H'[i]
    <2> TAKE i \in Standing
    <2>1. i \in DOMAIN sales
      BY DEF Standing
    <2>2. R[i].cost = ReplayCost(Events(bills), SaleEvent(i))
      BY RestatedCosts
    <2>3. H'[i] = R[i].qty * R[i].cost
      BY <1>4
    <2>4. G[i] = sales[i].qty * ReplayCost(Events(bills), SaleEvent(i))
      BY DEF Replayed
    <2> HIDE DEF R
    <2> QED
      BY <1>3, <2>1, <2>2, <2>3, <2>4
  <1>6. SoldAt' = SumFunctionOnSet(H', Standing)
    BY <1>4 DEF SoldAt, SumFunction
  <1> HIDE DEF G, H, R
  <1>7. SumFunctionOnSet(G, Standing) = SumFunctionOnSet(H', Standing)
    BY <1>1, <1>5, SumEqual
  <1>8. /\ pool'.value = CostIn(bills) - SumFunctionOnSet(G, Standing)
        /\ SumFunctionOnSet(G, Standing) \in Int
    BY <1>1, EventsValue DEF G
  <1>9. CostIn(bills) \in Int
    BY <1>1, WeightInType, CostIsWeight DEF CostIn
  <1> QED
    BY <1>6, <1>7, <1>8, <1>9

(***************************************************************************)
(* What a step on the rows of sales does to what they were charged.        *)
(***************************************************************************)
LEMMA ChargeType ==
  ASSUME TypeOK
  PROVE  (\A i \in DOMAIN sales : sales[i].qty * sales[i].cost \in Int) /\ SoldAt \in Int
  <1> DEFINE F == [i \in Standing |-> sales[i].qty * sales[i].cost]
  <1>1. \A i \in DOMAIN sales : sales[i].qty \in Int /\ sales[i].cost \in Int
    BY SaleIn DEF SaleRow
  <1>2. \A i \in DOMAIN sales : sales[i].qty * sales[i].cost \in Int
    BY <1>1, TimesInt
  <1>3. IsFiniteSet(Standing) /\ \A i \in Standing : F[i] \in Int
    BY <1>2, SaleIn
  <1>4. SoldAt = SumFunctionOnSet(F, Standing)
    BY DEF SoldAt, SumFunction
  <1> HIDE DEF F
  <1> QED
    BY <1>2, <1>3, <1>4, SumType

LEMMA ChargeMore ==
  ASSUME TypeOK, NEW row, sales' = Append(sales, row), row.valid,
         row.qty \in Int, row.cost \in Int
  PROVE  SoldAt' = SoldAt + row.qty * row.cost
  <1> DEFINE F == [i \in Standing |-> sales[i].qty * sales[i].cost]
             n == Len(sales) + 1
  <1>1. /\ DOMAIN sales' = DOMAIN sales \cup {n} /\ n \notin DOMAIN sales
        /\ sales'[n] = row /\ \A i \in DOMAIN sales : sales'[i] = sales[i]
    BY SaleIn, AppendProperties DEF TypeOK
  <1>2. Standing' = Standing \cup {n} /\ n \notin Standing
    BY <1>1 DEF Standing
  <1>3. \A i \in Standing : F[i] \in Int /\ F'[i] = F[i]
    BY <1>1, <1>2, ChargeType DEF Standing
  <1>4. F'[n] = row.qty * row.cost /\ row.qty * row.cost \in Int
    BY <1>1, <1>2, TimesInt
  <1>5. IsFiniteSet(Standing)
    BY SaleIn
  <1>6. SoldAt = SumFunctionOnSet(F, Standing) /\ SoldAt' = SumFunctionOnSet(F', Standing')
    BY DEF SoldAt, SumFunction
  <1>7. F'[n] \in Int
    BY <1>4
  <1> HIDE DEF F, n
  <1>8. SumFunctionOnSet(F', Standing') = SumFunctionOnSet(F, Standing) + F'[n]
    BY <1>2, <1>3, <1>5, <1>7, SumJoin
  <1> QED
    BY <1>4, <1>6, <1>8

LEMMA ChargeLess ==
  ASSUME TypeOK, NEW i \in DOMAIN sales, sales[i].valid,
         sales' = [sales EXCEPT ![i].valid = FALSE]
  PROVE  SoldAt' = SoldAt - sales[i].qty * sales[i].cost
  <1> DEFINE F == [j \in Standing |-> sales[j].qty * sales[j].cost]
  <1>1. /\ DOMAIN sales' = DOMAIN sales /\ ~sales'[i].valid
        /\ \A j \in DOMAIN sales : j # i => sales'[j] = sales[j]
    BY SaleIn DEF SaleRow
  <1>2. Standing' = Standing \ {i} /\ i \in Standing
    BY <1>1 DEF Standing
  <1>3. /\ \A j \in Standing : F[j] \in Int
        /\ \A j \in Standing' : F'[j] = F[j]
    BY <1>1, <1>2, ChargeType DEF Standing
  <1>4. F[i] = sales[i].qty * sales[i].cost
    BY <1>2
  <1>5. IsFiniteSet(Standing)
    BY SaleIn
  <1>6. SoldAt = SumFunctionOnSet(F, Standing) /\ SoldAt' = SumFunctionOnSet(F', Standing')
    BY DEF SoldAt, SumFunction
  <1> HIDE DEF F
  <1>7. SumFunctionOnSet(F', Standing') = SumFunctionOnSet(F, Standing) - F[i]
    BY <1>2, <1>3, <1>5, SumLeave
  <1> QED
    BY <1>4, <1>6, <1>7

LEMMA NoPrice == Price(<<>>) = 0
  <1>1. DOMAIN <<>> = {}
    OBVIOUS
  <1> QED
    BY <1>1, SumEmpty DEF Price, Weight

\* a bill that counts for nothing before and after leaves the cost alone
LEMMA CostUnmoved ==
  ASSUME NEW B \in BillRows, NEW C \in BillRows, NEW b \in Bills,
         \A x \in Bills : x # b => C[x] = B[x],
         PartOf(Cost, B, b) = PartOf(Cost, C, b)
  PROVE  CostIn(C) = CostIn(B)
  <1>1. WeightIn(Cost, C) = WeightIn(Cost, B) - PartOf(Cost, B, b) + PartOf(Cost, C, b)
    BY CostIsWeight, WeightChanged
  <1>2. PartOf(Cost, B, b) \in Int /\ WeightIn(Cost, B) \in Int
    BY CostIsWeight, WeightSplit, WeightInType
  <1> QED
    BY <1>1, <1>2 DEF CostIn

(***************************************************************************)
(* The invariant.  RowFirst says why an adjustment under way rules itself  *)
(* out: its row is written before the pool is touched.                     *)
(***************************************************************************)
RowFirst == HalfApplied => adjs # <<>>

ValueInv == trust = "full" /\ adjs = <<>> => pool.value + SoldAt = CostIn(bills)

LEMMA RowFirstStep == ASSUME TypeOK, RowFirst, [Next]_vars PROVE RowFirst'
  <1>0. adjs \in Seq(AdjRow)
    BY DEF TypeOK
  <1>1. ASSUME NEW d, AddRow(d) PROVE RowFirst'
    <2>1. PICK row : row = [delta |-> d, ts |-> Now] /\ adjs' = Append(adjs, row)
      BY <1>1 DEF AddRow
    <2>2. adjs' # <<>>
      BY <1>0, <2>1
    <2> QED
      BY <2>2 DEF RowFirst
  <1>2. ASSUME NEW w \in Workers, NEW d \in Deltas, AdjustRow(w, d) PROVE RowFirst'
    BY <1>1, <1>2 DEF AdjustRow
  <1>3. ASSUME NEW n \in Counts, StockCount(n) PROVE RowFirst'
    BY <1>1, <1>3 DEF StockCount
  <1>4. ASSUME NEW w \in Workers, NEW t, t.at # "adjust", adjs' = adjs,
               Start(w, t) \/ \E from : Continue(w, from, t)
        PROVE  RowFirst'
    <2>1. worker' = [worker EXCEPT ![w] = t] /\ worker \in [Workers -> Tasks]
      BY <1>4 DEF Start, Continue, TypeOK
    <2>2. HalfApplied' => HalfApplied
      BY <1>4, <2>1 DEF HalfApplied
    <2> QED
      BY <1>4, <2>2 DEF RowFirst
  <1>5. ASSUME NEW w \in Workers, NEW b \in Bills,
               \/ \E f \in Forms : Confirm(w, b, f)
               \/ \E permanent \in BOOLEAN : DeleteBill(w, b, permanent)
               \/ RestoreBill(w, b)
               \/ \E d \in 1 .. MaxDay : PatchRead(w, b, d)
        PROVE  RowFirst'
    <2>1. adjs' = adjs
      BY <1>5 DEF Confirm, DeleteBill, RestoreBill, PatchRead, rows
    <2>2. \E t : t.at # "adjust" /\ Start(w, t)
      <3>1. ASSUME NEW f \in Forms, Confirm(w, b, f)
            PROVE  \E t : t.at # "adjust" /\ Start(w, t)
        BY <3>1 DEF Confirm
      <3>2. ASSUME Start(w, idle) \/ Start(w, Marking(b))
            PROVE  \E t : t.at # "adjust" /\ Start(w, t)
        <4>1. idle.at # "adjust" /\ Marking(b).at # "adjust"
          BY DEF idle, Marking
        <4> QED
          BY <3>2, <4>1
      <3>3. ASSUME NEW d \in 1 .. MaxDay, PatchRead(w, b, d)
            PROVE  \E t : t.at # "adjust" /\ Start(w, t)
        BY <3>3 DEF PatchRead
      <3>4. ASSUME NEW permanent \in BOOLEAN, DeleteBill(w, b, permanent)
            PROVE  Start(w, idle) \/ Start(w, Marking(b))
        BY <3>4 DEF DeleteBill
      <3>5. RestoreBill(w, b) => Start(w, Marking(b))
        BY DEF RestoreBill
      <3> QED
        BY <1>5, <3>1, <3>2, <3>3, <3>4, <3>5
    <2> QED
      BY <1>4, <2>1, <2>2
  <1>6. ASSUME NEW w \in Workers,
                \/ CheckCrossed(w) \/ MarkDirty(w) \/ PatchWrite(w) \/ AdjustApply(w)
                \/ RebuildRoute(w) \/ RebuildRead(w) \/ RebuildWrite(w) \/ RebuildClear(w)
         PROVE  RowFirst'
    <2>1. adjs' = adjs
      BY <1>6 DEF CheckCrossed, MarkDirty, PatchWrite, AdjustApply, RebuildRoute, RebuildRead,
         RebuildWrite, RebuildClear, rows
    <2>2. \E t : t.at # "adjust" /\ (Start(w, t) \/ \E from : Continue(w, from, t))
      <3>1. RebuildRoute(w) => Start(w, [at |-> "snapshot"])
        BY DEF RebuildRoute
      <3>2. CheckCrossed(w) => Continue(w, "crossed", [at |-> "snapshot"]) \/ Continue(w, "crossed", idle)
        BY DEF CheckCrossed
      <3>3. PatchWrite(w) => Continue(w, "patch", [at |-> "snapshot"]) \/ Continue(w, "patch", idle)
        BY DEF PatchWrite
      <3>4. /\ MarkDirty(w) => Continue(w, "mark", idle)
            /\ AdjustApply(w) => Continue(w, "adjust", idle)
            /\ RebuildClear(w) => Continue(w, "clear", idle)
            /\ RebuildWrite(w) => Continue(w, "write", [at |-> "clear"])
        BY DEF MarkDirty, AdjustApply, RebuildClear, RebuildWrite
      <3>5. RebuildRead(w) => \E t : t.at # "adjust" /\ Continue(w, "snapshot", t)
        BY DEF RebuildRead
      <3>6. idle.at # "adjust"
        BY DEF idle
      <3>7. [at |-> "snapshot"].at # "adjust" /\ [at |-> "clear"].at # "adjust"
        OBVIOUS
      <3> QED
        BY <1>6, <3>1, <3>2, <3>3, <3>4, <3>5, <3>6, <3>7
    <2> QED
      BY <1>4, <2>1, <2>2
  <1>7. CASE Crash
    BY <1>7 DEF Crash, RowFirst, HalfApplied, idle
  <1>8. CASE adjs' = adjs /\ worker' = worker
    BY <1>8 DEF RowFirst, HalfApplied
  <1>9. CASE UNCHANGED vars
    BY <1>8, <1>9 DEF vars, rows
  <1>10. ASSUME \/ \E n \in Quantities : CreateSale(n)
                \/ \E i \in DOMAIN sales : RefundSale(i)
                \/ CleanShutdown \/ Boot \/ NextDay
         PROVE  RowFirst'
    <2>1. adjs' = adjs /\ worker' = worker
      BY <1>10 DEF CreateSale, RefundSale, CleanShutdown, Boot, NextDay, rows
    <2> QED
      BY <1>8, <2>1
  <1> QED
    BY <1>2, <1>3, <1>5, <1>6, <1>7, <1>9, <1>10 DEF Next

LEMMA ValueStep ==
  ASSUME TypeOK, TypeOK', RowFirst, ValueInv, [Next]_vars, trust' = "full", adjs' = <<>>
  PROVE  pool'.value + SoldAt' = CostIn(bills')
  <1>0. /\ bills \in BillRows /\ bills' \in BillRows /\ pool \in Pools
        /\ pool.value \in Int /\ pool.avg \in Int /\ SoldAt \in Int /\ CostIn(bills) \in Int
    <2>1. bills \in BillRows /\ bills' \in BillRows /\ pool \in Pools
      BY DEF TypeOK, BillRows
    <2> QED
      BY <2>1, ChargeType, WeightInType, CostIsWeight DEF Pools, CostIn
  <1>00. trust = "full" /\ adjs = <<>> => pool.value + SoldAt = CostIn(bills)
    BY DEF ValueInv
  <1> HIDE DEF ValueInv
  <1>1. ASSUME trust = "full", adjs = <<>>, sales' = sales, pool' = pool, CostIn(bills') = CostIn(bills)
        PROVE  pool'.value + SoldAt' = CostIn(bills')
    <2>1. SoldAt' = SoldAt
      BY <1>1 DEF SoldAt, Standing
    <2> QED
      BY <1>00, <1>1, <2>1
  <1>2. ASSUME NEW w \in Workers, NEW b \in Bills, NEW f \in Forms, Confirm(w, b, f)
        PROVE  pool'.value + SoldAt' = CostIn(bills')
    <2> DEFINE row == [status |-> "confirmed", deleted |-> FALSE, date |-> f.date, items |-> f.items]
    <2>1. f.items \in Seq(Line)
      BY LedgerAssumption
    <2>2. /\ bills[b].status # "confirmed" /\ trust = "full"
          /\ pool' = FoldLeft(AddItem, pool, f.items) /\ bills' = [bills EXCEPT ![b] = row]
          /\ sales' = sales /\ adjs' = adjs
      BY <1>2 DEF Confirm, AtMostQty
    <2>3. pool'.value = pool.value + Price(f.items)
      BY <1>0, <2>1, <2>2, AddValue
    <2>4. /\ \A x \in Bills : x # b => bills'[x] = bills[x]
          /\ bills'[b] = row
      BY <1>0, <2>2 DEF BillRows
    <2>5. PartOf(Cost, bills, b) = 0 /\ PartOf(Cost, bills', b) = Price(f.items)
      BY <2>2, <2>4 DEF PartOf, Counted, Price
    <2>6. WeightIn(Cost, bills') = WeightIn(Cost, bills) - PartOf(Cost, bills, b) + PartOf(Cost, bills', b)
      BY <1>0, <2>4, CostIsWeight, WeightChanged
    <2>7. SoldAt' = SoldAt
      BY <2>2 DEF SoldAt, Standing
    <2>8. Price(f.items) \in Int
      BY <2>1, CostIsWeight, WeightType DEF Price
    <2>9. CostIn(bills') = CostIn(bills) + Price(f.items)
      BY <1>0, <2>5, <2>6, <2>8 DEF CostIn
    <2>10. pool.value + SoldAt = CostIn(bills)
      BY <1>00, <2>2
    <2> QED
      BY <1>0, <2>3, <2>7, <2>8, <2>9, <2>10
  <1>3. ASSUME NEW w \in Workers, NEW b \in Bills, NEW B \in BillRows, ScopedReplay(b, B),
               bills' = B, sales' = sales, adjs' = adjs,
               \A x \in Bills : x # b => B[x] = bills[x],
               B[b].items = bills[b].items,
               B[b].status = "confirmed" => bills[b].status = "confirmed"
        PROVE  pool'.value + SoldAt' = CostIn(bills')
    <2>1. /\ ~(bills[b].status = "confirmed" /\ bills[b].items # <<>>)
          /\ pool' = pool /\ trust = "full"
      BY <1>3 DEF ScopedReplay, Realigned
    <2>2. PartOf(Cost, bills, b) = 0 /\ PartOf(Cost, bills', b) = 0
      BY <1>3, <2>1, NoPrice DEF PartOf, Counted, Price
    <2>3. CostIn(bills') = CostIn(bills)
      BY <1>0, <1>3, <2>2, CostUnmoved
    <2> QED
      BY <1>1, <1>3, <2>1, <2>3
  <1>4. ASSUME NEW w \in Workers, NEW b \in Bills, NEW permanent \in BOOLEAN,
               DeleteBill(w, b, permanent)
        PROVE  pool'.value + SoldAt' = CostIn(bills')
    <2>1. PICK B : B = [bills EXCEPT ![b].deleted = TRUE,
                                     ![b].status = IF permanent THEN "gone" ELSE @]
      OBVIOUS
    <2>2. /\ bills' = B /\ sales' = sales /\ adjs' = adjs /\ B \in BillRows
          /\ bills[b].deleted => pool' = pool /\ trust' = trust
          /\ ~bills[b].deleted => ScopedReplay(b, B)
      BY <1>0, <1>4, <2>1 DEF DeleteBill
    <2>3. /\ \A x \in Bills : x # b => B[x] = bills[x]
          /\ B[b].items = bills[b].items /\ B[b].deleted
          /\ B[b].status = "confirmed" => bills[b].status = "confirmed"
      BY <1>0, <2>1 DEF BillRows, BillRow
    <2>4. CASE bills[b].deleted
      <3>1. PartOf(Cost, bills, b) = 0 /\ PartOf(Cost, bills', b) = 0
        BY <2>2, <2>3, <2>4 DEF PartOf, Counted
      <3>2. CostIn(bills') = CostIn(bills)
        BY <1>0, <2>2, <2>3, <3>1, CostUnmoved
      <3> QED
        BY <1>1, <2>2, <2>4, <3>2
    <2>5. CASE ~bills[b].deleted
      BY <1>3, <2>2, <2>3, <2>5
    <2> QED
      BY <2>4, <2>5
  <1>5. ASSUME NEW w \in Workers, NEW b \in Bills, RestoreBill(w, b)
        PROVE  pool'.value + SoldAt' = CostIn(bills')
    <2>1. PICK B : B = [bills EXCEPT ![b].deleted = FALSE]
      OBVIOUS
    <2>2. /\ bills' = B /\ sales' = sales /\ adjs' = adjs /\ B \in BillRows /\ ScopedReplay(b, B)
      BY <1>0, <1>5, <2>1 DEF RestoreBill
    <2>3. /\ \A x \in Bills : x # b => B[x] = bills[x]
          /\ B[b].items = bills[b].items /\ B[b].status = bills[b].status
      BY <1>0, <2>1 DEF BillRows, BillRow
    <2> QED
      BY <1>3, <2>2, <2>3
  <1>6. ASSUME NEW w \in Workers, PatchWrite(w)
        PROVE  pool'.value + SoldAt' = CostIn(bills')
    <2>1. PICK b, d : b = worker[w].bill /\ d = worker[w].date
      OBVIOUS
    <2>2. b \in Bills
      <3>1. worker[w] \in Tasks /\ worker[w].at = "patch"
        BY <1>6, WorkerTask DEF PatchWrite
      <3> QED
        BY <2>1, <3>1, TaskIs
    <2>3. /\ bills' = [bills EXCEPT ![b].date = d] /\ pool' = pool /\ trust' = trust
          /\ sales' = sales /\ adjs' = adjs
      BY <1>6, <2>1 DEF PatchWrite
    <2>4. /\ \A x \in Bills : x # b => bills'[x] = bills[x]
          /\ bills'[b].items = bills[b].items /\ bills'[b].status = bills[b].status
          /\ bills'[b].deleted = bills[b].deleted
      BY <1>0, <2>2, <2>3 DEF BillRows, BillRow
    <2>5. PartOf(Cost, bills', b) = PartOf(Cost, bills, b)
      BY <2>4 DEF PartOf, Counted
    <2>6. CostIn(bills') = CostIn(bills)
      BY <1>0, <2>2, <2>4, <2>5, CostUnmoved
    <2> QED
      BY <1>1, <2>3, <2>6
  <1>7. ASSUME NEW n \in Quantities, CreateSale(n)
        PROVE  pool'.value + SoldAt' = CostIn(bills')
    <2>1. n \in Int
      BY LedgerAssumption
    <2>2. PICK row : row = [qty |-> n, ts |-> Now, cost |-> PeekAvgCost, valid |-> TRUE]
      OBVIOUS
    <2>3. /\ sales' = Append(sales, row) /\ pool' = ApplySale(pool, n) /\ bills' = bills
          /\ adjs' = adjs /\ trust = "full" /\ PeekAvgCost = pool.avg
      BY <1>7, <2>2 DEF CreateSale, AtMostQty
    <2>4. row.qty = n /\ row.cost = pool.avg /\ row.valid
      BY <2>2, <2>3
    <2>5. SoldAt' = SoldAt + n * pool.avg
      BY <1>0, <2>1, <2>3, <2>4, ChargeMore
    <2>6. pool'.value = pool.value - n * pool.avg
      BY <2>3, SaleValue
    <2>7. n * pool.avg \in Int
      BY <1>0, <2>1, TimesInt
    <2>8. pool.value + SoldAt = CostIn(bills) /\ CostIn(bills') = CostIn(bills)
      BY <1>00, <2>3
    <2> QED
      BY <1>0, <2>5, <2>6, <2>7, <2>8
  <1>8. ASSUME NEW i \in DOMAIN sales, RefundSale(i)
        PROVE  pool'.value + SoldAt' = CostIn(bills')
    <2>1. PICK q, c : q = sales[i].qty /\ c = sales[i].cost
      OBVIOUS
    <2>2. /\ sales[i].valid /\ sales' = [sales EXCEPT ![i].valid = FALSE]
          /\ pool' = ReverseSale(pool, q, c) /\ (c > 0 \/ pool.avg = c)
          /\ bills' = bills /\ adjs' = adjs /\ trust = "full"
      BY <1>8, <2>1 DEF RefundSale, AtMostQty
    <2>3. SoldAt' = SoldAt - q * c
      BY <2>1, <2>2, ChargeLess
    <2>4. pool'.value = pool.value + q * c
      BY <2>2, RefundValue
    <2>5. q * c \in Int
      BY <2>1, ChargeType
    <2>6. pool.value + SoldAt = CostIn(bills) /\ CostIn(bills') = CostIn(bills)
      BY <1>00, <2>2
    <2> QED
      BY <1>0, <2>3, <2>4, <2>5, <2>6
  <1>9. ASSUME NEW w \in Workers, RebuildWrite(w)
        PROVE  pool'.value + SoldAt' = CostIn(bills')
    <2>1. PICK S, c : S = worker[w].events /\ c = worker[w].costs
      OBVIOUS
    <2>2. /\ pool' = Replay(S) /\ sales' = Restated(S, c) /\ bills' = bills /\ adjs' = adjs
          /\ trust' = IF S # Events(bills) THEN "none"
                      ELSE Realigned(IF c = Costs THEN "full" ELSE "qty")
      BY <1>9, <2>1 DEF RebuildWrite
    <2>3. S = Events(bills) /\ c = Costs
      BY <2>2 DEF Realigned
    <2> QED
      BY <2>2, <2>3, RebuildValue
  <1>10. CASE Boot
    <2>1. /\ bills' = bills /\ adjs' = adjs
          /\ IF dirty THEN pool' = Replay(Events(bills)) /\ sales' = Restated(Events(bills), Costs)
                      ELSE pool' = pool /\ sales' = sales /\ trust' = trust
      BY <1>10 DEF Boot
    <2> QED
      BY <1>1, <2>1, RebuildValue
  <1>11. ASSUME NEW w \in Workers, AdjustApply(w)
         PROVE  FALSE
    BY <1>11 DEF AdjustApply, RowFirst, HalfApplied, rows
  <1>12. ASSUME NEW w \in Workers, NEW d \in Deltas, AdjustRow(w, d)
         PROVE  FALSE
    <2>1. PICK row : row = [delta |-> d, ts |-> Now] /\ adjs' = Append(adjs, row)
      BY <1>12 DEF AdjustRow, AddRow
    <2>2. adjs \in Seq(AdjRow) /\ adjs' = <<>>
      BY DEF TypeOK
    <2> QED
      BY <2>1, <2>2
  <1>13. ASSUME NEW n \in Counts, StockCount(n)
         PROVE  FALSE
    BY <1>13 DEF StockCount
  <1>14. CASE Crash
    <2>1. /\ pool' = pool /\ bills' = bills /\ sales' = sales /\ adjs' = adjs /\ trust = "full"
      BY <1>14 DEF Crash, rows, Realigned
    <2> QED
      BY <1>1, <2>1
  <1>15. CASE \/ \E w \in Workers :
                    \/ \E b \in Bills, d \in 1 .. MaxDay : PatchRead(w, b, d)
                    \/ CheckCrossed(w) \/ MarkDirty(w)
                    \/ RebuildRoute(w) \/ RebuildRead(w) \/ RebuildClear(w)
              \/ CleanShutdown \/ NextDay \/ UNCHANGED vars
    <2>1. /\ pool' = pool /\ bills' = bills /\ sales' = sales /\ adjs' = adjs /\ trust' = trust
      BY <1>15 DEF PatchRead, CheckCrossed, MarkDirty, RebuildRoute, RebuildRead, RebuildClear,
         CleanShutdown, NextDay, vars, rows
    <2> QED
      BY <1>1, <2>1
  <1> QED
    BY <1>2, <1>4, <1>5, <1>6, <1>7, <1>8, <1>9, <1>10, <1>11, <1>12, <1>13, <1>14, <1>15 DEF Next

(***************************************************************************)
(* Money is neither made nor lost, for any prices, bills, sales, refunds,  *)
(* threads, crashes and boots: where trust is full and nothing was         *)
(* adjusted, the pool's value and the recorded costs of the standing sales *)
(* are exactly what the live confirmed bills cost.                         *)
(***************************************************************************)
THEOREM MoneyAddsUp == Spec => []ValueReconciles
  <1>1. Init => RowFirst /\ ValueInv
    <2> SUFFICES ASSUME Init PROVE RowFirst /\ ValueInv
      OBVIOUS
    <2>1. RowFirst
      BY DEF Init, RowFirst, HalfApplied, idle
    <2>2. \A b \in Bills : ~Counted(bills, b)
      BY DEF Init, Counted
    <2>3. LinesOf(bills) = {}
      BY <2>2 DEF LinesOf, CountedBills
    <2>4. CostIn(bills) = 0
      BY <2>3, SumEmpty DEF CostIn, WeightIn
    <2>5. SoldAt = 0
      <3>1. Standing = {}
        BY DEF Standing, Init
      <3> QED
        BY <3>1, SumEmpty DEF SoldAt, SumFunction
    <2>6. pool.value = 0
      BY DEF Init, Empty, Pool
    <2> QED
      BY <2>1, <2>4, <2>5, <2>6 DEF ValueInv
  <1>2. TypeOK /\ TypeOK' /\ RowFirst /\ ValueInv /\ [Next]_vars => RowFirst' /\ ValueInv'
    BY RowFirstStep, ValueStep DEF ValueInv
  <1>3. TypeOK /\ ValueInv => ValueReconciles
    BY CostIsBoughtFor DEF ValueInv, ValueReconciles
  <1> QED
    BY <1>1, <1>2, <1>3, TypeCorrect, PTL DEF Spec

====
