---- MODULE CheckoutProofs ----
(***************************************************************************)
(* What Checkout guarantees for any number of requests, lines, categories  *)
(* and write-offs, and for any opening stock.                              *)
(***************************************************************************)
EXTENDS Checkout, SumTheorems

(***************************************************************************)
(* Every action keeps the types: no handler leaves a request in a stage    *)
(* that the code does not know.                                            *)
(***************************************************************************)
LEMMA TypeStep == TypeOK /\ [Next]_vars => TypeOK'
  <1> SUFFICES ASSUME TypeOK, [Next]_vars PROVE TypeOK'
    OBVIOUS
  <1> USE CheckoutAssumption DEF TypeOK
  <1>1. ASSUME NEW t \in Tills, PreFlight(t) PROVE TypeOK'
    BY <1>1 DEF PreFlight, woVars
  <1>2. ASSUME NEW t \in Tills, BeginImmediate(t) PROVE TypeOK'
    BY <1>2 DEF BeginImmediate, woVars
  <1>3. ASSUME NEW t \in Tills, BusyTimeout(t) PROVE TypeOK'
    BY <1>3 DEF BusyTimeout, woVars
  <1>4. ASSUME NEW t \in Tills, GuardPass(t) PROVE TypeOK'
    BY <1>4 DEF GuardPass, woVars
  <1>5. ASSUME NEW t \in Tills, GuardBlock(t) PROVE TypeOK'
    BY <1>5 DEF GuardBlock, woVars
  <1>6. ASSUME NEW t \in Tills, NEW l \in Lines, ApplyLine(t, l) PROVE TypeOK'
    BY <1>6 DEF ApplyLine, woVars
  <1>7. ASSUME NEW t \in Tills, NEW l \in Lines, ApplyLineDrift(t, l) PROVE TypeOK'
    BY <1>7 DEF ApplyLineDrift, woVars
  <1>8. ASSUME NEW t \in Tills, Commit(t) PROVE TypeOK'
    BY <1>8 DEF Commit, woVars
  <1>9. ASSUME NEW t \in Tills, Rollback(t) PROVE TypeOK'
    BY <1>9 DEF Rollback, woVars
  <1>10. ASSUME NEW w \in Writeoffs, WriteoffRead(w) PROVE TypeOK'
    BY <1>10 DEF WriteoffRead, tillVars
  <1>11. ASSUME NEW w \in Writeoffs, WriteoffRows(w) PROVE TypeOK'
    BY <1>11 DEF WriteoffRows, tillVars
  <1>12. ASSUME NEW w \in Writeoffs, WriteoffSave(w) PROVE TypeOK'
    BY <1>12 DEF WriteoffSave, tillVars
  <1>13. ASSUME NEW w \in Writeoffs, WriteoffTimeout(w) PROVE TypeOK'
    BY <1>13 DEF WriteoffTimeout, tillVars
  <1>14. ASSUME NEW m \in Modes, SetStrategy(m) PROVE TypeOK'
    BY <1>14 DEF SetStrategy, tillVars, woVars
  <1>15. ASSUME Crash PROVE TypeOK'
    BY <1>15 DEF Crash, InFlight
  <1>16. CASE UNCHANGED vars
    BY <1>16 DEF vars
  <1> QED
    BY <1>1, <1>2, <1>3, <1>4, <1>5, <1>6, <1>7, <1>8, <1>9, <1>10, <1>11,
       <1>12, <1>13, <1>14, <1>15, <1>16 DEF Next

(***************************************************************************)
(* Type correctness of the checkout.                                       *)
(***************************************************************************)
THEOREM TypeCorrect == Spec => []TypeOK
  <1>1. Init => TypeOK
    BY CheckoutAssumption DEF Init, TypeOK
  <1> QED
    BY <1>1, TypeStep, PTL DEF Spec

(***************************************************************************)
(* Why the guard is enough.  A checkout inside its transaction owns the    *)
(* lock; until it writes, its image is the committed stock; what is left   *)
(* of a strict cart still fits the image, since no two lines share a       *)
(* category; and a write-off never removes more than it read.              *)
(***************************************************************************)
LockOwned == \A t \in Tills : pc[t] \in {"guard", "apply"} <=> lock = t

ImageFresh == \A t \in Tills : pc[t] = "guard" => work = stock

RestFits ==
    \A t \in Tills : pc[t] = "apply" =>
        /\ todo[t] \subseteq Cart[t]
        /\ read[t] = "strict" => /\ \A l \in todo[t] : LineFits(l)
                                 /\ \A c \in Cats : work[c] < 0 => PermittedSale

WriteoffCovered ==
    \A w \in Writeoffs : wpc[w] \in {"rows", "save"} => seen[w] >= WoQty[w]

StockInv ==
    /\ TypeOK
    /\ LockOwned
    /\ ImageFresh
    /\ RestFits
    /\ WriteoffCovered
    /\ NegativeOnlyByPermit

LEMMA StockStep == DistinctLines /\ StockInv /\ [Next]_vars => StockInv'
  <1> SUFFICES ASSUME DistinctLines, StockInv, [Next]_vars PROVE StockInv'
    OBVIOUS
  <1>0. TypeOK'
    BY TypeStep DEF StockInv
  <1> USE <1>0, CheckoutAssumption
      DEF StockInv, TypeOK, LockOwned, ImageFresh, RestFits, WriteoffCovered,
          NegativeOnlyByPermit, PermittedSale, LineFits
  <1>1. ASSUME NEW t \in Tills, PreFlight(t) PROVE StockInv'
    BY <1>1 DEF PreFlight, woVars
  <1>2. ASSUME NEW t \in Tills, BeginImmediate(t) PROVE StockInv'
    BY <1>2 DEF BeginImmediate, woVars
  <1>3. ASSUME NEW t \in Tills, BusyTimeout(t) PROVE StockInv'
    BY <1>3 DEF BusyTimeout, woVars
  <1>4. ASSUME NEW t \in Tills, GuardPass(t) PROVE StockInv'
    BY <1>4 DEF GuardPass, woVars
  <1>5. ASSUME NEW t \in Tills, GuardBlock(t) PROVE StockInv'
    BY <1>5 DEF GuardBlock, woVars
  <1>6. ASSUME NEW t \in Tills, NEW l \in Lines, ApplyLine(t, l) PROVE StockInv'
    <2> USE <1>6 DEF ApplyLine, woVars
    <2>1. LockOwned' /\ ImageFresh'
      OBVIOUS
    <2>2. RestFits'
      <3> SUFFICES ASSUME NEW u \in Tills, pc'[u] = "apply"
                   PROVE  /\ todo'[u] \subseteq Cart[u]
                          /\ read'[u] = "strict" =>
                               /\ \A k \in todo'[u] : LineFits(k)'
                               /\ \A c \in Cats : work'[c] < 0 => PermittedSale'
        OBVIOUS
      <3>1. u = t
        OBVIOUS
      <3>2. \A k \in todo'[t] : LineCat[k] # LineCat[l]
        BY DEF DistinctLines
      <3> QED
        BY <3>1, <3>2
    <2>3. WriteoffCovered' /\ NegativeOnlyByPermit'
      OBVIOUS
    <2> QED
      BY <2>1, <2>2, <2>3
  <1>7. ASSUME NEW t \in Tills, NEW l \in Lines, ApplyLineDrift(t, l) PROVE StockInv'
    BY <1>7 DEF ApplyLineDrift, woVars
  <1>8. ASSUME NEW t \in Tills, Commit(t) PROVE StockInv'
    BY <1>8 DEF Commit, woVars
  <1>9. ASSUME NEW t \in Tills, Rollback(t) PROVE StockInv'
    BY <1>9 DEF Rollback, woVars
  <1>10. ASSUME NEW w \in Writeoffs, WriteoffRead(w) PROVE StockInv'
    BY <1>10 DEF WriteoffRead, tillVars
  <1>11. ASSUME NEW w \in Writeoffs, WriteoffRows(w) PROVE StockInv'
    BY <1>11 DEF WriteoffRows, tillVars
  <1>12. ASSUME NEW w \in Writeoffs, WriteoffSave(w) PROVE StockInv'
    BY <1>12 DEF WriteoffSave, tillVars
  <1>13. ASSUME NEW w \in Writeoffs, WriteoffTimeout(w) PROVE StockInv'
    BY <1>13 DEF WriteoffTimeout, tillVars
  <1>14. ASSUME NEW m \in Modes, SetStrategy(m) PROVE StockInv'
    BY <1>14 DEF SetStrategy, tillVars, woVars
  <1>15. ASSUME Crash PROVE StockInv'
    BY <1>15 DEF Crash, InFlight
  <1>16. CASE UNCHANGED vars
    BY <1>16 DEF vars
  <1> QED
    BY <1>1, <1>2, <1>3, <1>4, <1>5, <1>6, <1>7, <1>8, <1>9, <1>10, <1>11,
       <1>12, <1>13, <1>14, <1>15, <1>16 DEF Next

(***************************************************************************)
(* No oversell: for carts without a repeated category, stock below zero is *)
(* always the work of a committed sale that had read permit_negative.      *)
(***************************************************************************)
THEOREM NoOversell ==
  ASSUME DistinctLines
  PROVE  Spec => []NegativeOnlyByPermit
  <1>1. Init => StockInv
    BY CheckoutAssumption
    DEF Init, StockInv, TypeOK, LockOwned, ImageFresh, RestFits, WriteoffCovered,
        NegativeOnlyByPermit
  <1>2. StockInv /\ [Next]_vars => StockInv'
    BY StockStep
  <1>3. StockInv => NegativeOnlyByPermit
    BY DEF StockInv
  <1> QED
    BY <1>1, <1>2, <1>3, PTL DEF Spec

(***************************************************************************)
(* Why no piece is lost.  The image of a request that writes is the        *)
(* committed stock less the lines it has applied, each once, and only      *)
(* finitely many requests have been answered.                              *)
(***************************************************************************)
AppliedLines(t, c) == {l \in Cart[t] \ todo[t] : LineCat[l] = c}

ImageAdds ==
    \A t \in Tills : pc[t] = "apply" =>
        /\ todo[t] \subseteq Cart[t]
        /\ \A c \in Cats : work[c] = stock[c] - SumFunctionOnSet(LineQty, AppliedLines(t, c))

PoolFollowsSales ==
    /\ IsFiniteSet(DoneTills)
    /\ \A c \in Cats : stock[c] = InitStock[c] - Sold(c)

SumInv == /\ TypeOK
          /\ LockOwned
          /\ ImageFresh
          /\ ImageAdds
          /\ PoolFollowsSales

LEMMA DemandType ==
  ASSUME NEW t \in Tills, NEW c \in Cats
  PROVE  Demand(t, c) \in Int
  <1> DEFINE mine == {l \in Cart[t] : LineCat[l] = c}
  <1>1. IsFiniteSet(mine) /\ \A l \in mine : LineQty[l] \in Int
    BY CheckoutAssumption, FS_Subset
  <1> HIDE DEF mine
  <1>2. SumFunctionOnSet(LineQty, mine) \in Int
    BY <1>1, SumType
  <1> QED
    BY <1>2 DEF Demand, mine

LEMMA SumStep ==
  ASSUME Writeoffs = {}, ~EngineMayFail
  PROVE  SumInv /\ [Next]_vars => SumInv'
  <1> SUFFICES ASSUME SumInv, [Next]_vars PROVE SumInv'
    OBVIOUS
  <1>0. TypeOK'
    BY TypeStep DEF SumInv
  <1> USE <1>0, CheckoutAssumption DEF SumInv, TypeOK, LockOwned, ImageFresh
  \* a step that answers no request with a sale leaves the sums alone
  <1>k. UNCHANGED <<stock, DoneTills>> => PoolFollowsSales'
    <2> SUFFICES ASSUME UNCHANGED <<stock, DoneTills>> PROVE PoolFollowsSales'
      OBVIOUS
    <2>1. ASSUME NEW c \in Cats PROVE Sold(c)' = Sold(c)
      BY DEF Sold, Demand
    <2> QED
      BY <2>1 DEF PoolFollowsSales
  <1>1. ASSUME NEW t \in Tills, PreFlight(t) PROVE SumInv'
    <2> USE <1>1 DEF PreFlight, woVars
    <2>1. UNCHANGED <<stock, DoneTills>>
      BY DEF DoneTills
    <2>2. LockOwned' /\ ImageFresh'
      OBVIOUS
    <2>3. \A u \in Tills : pc'[u] = "apply" =>
             pc[u] = "apply" /\ todo'[u] = todo[u] /\ work' = work
      OBVIOUS
    <2>4. \A u \in Tills, c \in Cats : pc'[u] = "apply" => AppliedLines(u, c)' = AppliedLines(u, c)
      BY <2>3 DEF AppliedLines
    <2>5. ImageAdds'
      BY <2>1, <2>3, <2>4 DEF ImageAdds
    <2> QED
      BY <1>k, <2>1, <2>2, <2>5
  <1>2. ASSUME NEW t \in Tills, BeginImmediate(t) PROVE SumInv'
    <2> USE <1>2 DEF BeginImmediate, woVars
    <2>1. UNCHANGED <<stock, DoneTills>>
      BY DEF DoneTills
    <2>2. LockOwned' /\ ImageFresh'
      OBVIOUS
    <2>3. \A u \in Tills : pc'[u] = "apply" =>
             pc[u] = "apply" /\ todo'[u] = todo[u] /\ work' = work
      OBVIOUS
    <2>4. \A u \in Tills, c \in Cats : pc'[u] = "apply" => AppliedLines(u, c)' = AppliedLines(u, c)
      BY <2>3 DEF AppliedLines
    <2>5. ImageAdds'
      BY <2>1, <2>3, <2>4 DEF ImageAdds
    <2> QED
      BY <1>k, <2>1, <2>2, <2>5
  <1>3. ASSUME NEW t \in Tills, BusyTimeout(t) PROVE SumInv'
    <2> USE <1>3 DEF BusyTimeout, woVars
    <2>1. UNCHANGED <<stock, DoneTills>>
      BY DEF DoneTills
    <2>2. LockOwned' /\ ImageFresh'
      OBVIOUS
    <2>3. \A u \in Tills : pc'[u] = "apply" =>
             pc[u] = "apply" /\ todo'[u] = todo[u] /\ work' = work
      OBVIOUS
    <2>4. \A u \in Tills, c \in Cats : pc'[u] = "apply" => AppliedLines(u, c)' = AppliedLines(u, c)
      BY <2>3 DEF AppliedLines
    <2>5. ImageAdds'
      BY <2>1, <2>3, <2>4 DEF ImageAdds
    <2> QED
      BY <1>k, <2>1, <2>2, <2>5
  <1>4. ASSUME NEW t \in Tills, GuardBlock(t) PROVE SumInv'
    <2> USE <1>4 DEF GuardBlock, woVars
    <2>1. UNCHANGED <<stock, DoneTills>>
      BY DEF DoneTills
    <2>2. LockOwned' /\ ImageFresh'
      OBVIOUS
    <2>3. \A u \in Tills : pc'[u] = "apply" =>
             pc[u] = "apply" /\ todo'[u] = todo[u] /\ work' = work
      OBVIOUS
    <2>4. \A u \in Tills, c \in Cats : pc'[u] = "apply" => AppliedLines(u, c)' = AppliedLines(u, c)
      BY <2>3 DEF AppliedLines
    <2>5. ImageAdds'
      BY <2>1, <2>3, <2>4 DEF ImageAdds
    <2> QED
      BY <1>k, <2>1, <2>2, <2>5
  <1>5. ASSUME NEW t \in Tills, Rollback(t) PROVE SumInv'
    <2> USE <1>5 DEF Rollback, woVars
    <2>1. UNCHANGED <<stock, DoneTills>>
      BY DEF DoneTills
    <2>2. LockOwned' /\ ImageFresh'
      OBVIOUS
    <2>3. \A u \in Tills : pc'[u] = "apply" =>
             pc[u] = "apply" /\ todo'[u] = todo[u] /\ work' = work
      OBVIOUS
    <2>4. \A u \in Tills, c \in Cats : pc'[u] = "apply" => AppliedLines(u, c)' = AppliedLines(u, c)
      BY <2>3 DEF AppliedLines
    <2>5. ImageAdds'
      BY <2>1, <2>3, <2>4 DEF ImageAdds
    <2> QED
      BY <1>k, <2>1, <2>2, <2>5
  <1>6. ASSUME NEW t \in Tills, GuardPass(t) PROVE SumInv'
    <2> USE <1>6 DEF GuardPass, woVars
    <2>1. UNCHANGED <<stock, DoneTills>>
      BY DEF DoneTills
    <2>2. LockOwned' /\ ImageFresh' /\ \A u \in Tills : pc'[u] = "apply" => u = t
      OBVIOUS
    <2>3. todo'[t] = Cart[t] /\ \A c \in Cats : AppliedLines(t, c)' = {}
      BY DEF AppliedLines
    <2>4. ASSUME NEW c \in Cats
          PROVE  work'[c] = stock'[c] - SumFunctionOnSet(LineQty, AppliedLines(t, c)')
      <3>1. work'[c] = stock'[c] - 0
        OBVIOUS
      <3> QED
        BY <2>3, <3>1, SumEmpty
    <2>5. ImageAdds'
      BY <2>2, <2>3, <2>4 DEF ImageAdds
    <2> QED
      BY <1>k, <2>1, <2>2, <2>5
  <1>7. ASSUME NEW t \in Tills, NEW l \in Lines, ApplyLine(t, l) PROVE SumInv'
    <2> USE <1>7 DEF ApplyLine, woVars
    <2>1. UNCHANGED <<stock, DoneTills>>
      BY DEF DoneTills
    <2>2. LockOwned' /\ ImageFresh' /\ \A u \in Tills : pc'[u] = "apply" => u = t
      OBVIOUS
    <2>3. l \in Cart[t] /\ todo'[t] \subseteq Cart[t]
      BY DEF ImageAdds
    <2>4. ASSUME NEW c \in Cats
          PROVE  work'[c] = stock'[c] - SumFunctionOnSet(LineQty, AppliedLines(t, c)')
      <3> DEFINE done == AppliedLines(t, c)
      <3>0. done \in SUBSET Cart[t] /\ l \notin done
        BY DEF AppliedLines
      <3>1. IsFiniteSet(done) /\ \A k \in done \cup {l} : LineQty[k] \in Int
        <4> HIDE DEF done
        <4>1. IsFiniteSet(done)
          BY <3>0, FS_Subset
        <4>2. \A k \in Lines : LineQty[k] \in Int
          OBVIOUS
        <4> QED
          BY <3>0, <4>1, <4>2
      <3>2. work[c] = stock[c] - SumFunctionOnSet(LineQty, done)
        BY DEF ImageAdds
      <3>3. AppliedLines(t, c)' = IF c = LineCat[l] THEN done \cup {l} ELSE done
        BY <2>3 DEF AppliedLines
      <3>4. LineCat[l] \in Cats
        BY CheckoutAssumption
      <3> HIDE DEF done
      <3>5. SumFunctionOnSet(LineQty, done \cup {l})
              = LineQty[l] + SumFunctionOnSet(LineQty, done)
        BY <3>0, <3>1, SumAdd
      <3>6. SumFunctionOnSet(LineQty, done) \in Int
        BY <3>1, SumType
      <3>7. work'[c] = IF c = LineCat[l] THEN work[c] - LineQty[l] ELSE work[c]
        BY <3>4
      <3>8. stock'[c] = stock[c] /\ stock[c] \in Int /\ LineQty[l] \in Int
        BY <3>1
      <3> QED
        BY <3>2, <3>3, <3>5, <3>6, <3>7, <3>8
    <2>5. ImageAdds'
      BY <2>2, <2>3, <2>4 DEF ImageAdds
    <2> QED
      BY <1>k, <2>1, <2>2, <2>5
  <1>8. ASSUME NEW t \in Tills, Commit(t) PROVE SumInv'
    <2> USE <1>8 DEF Commit, woVars
    <2>1. LockOwned' /\ ImageFresh'
      OBVIOUS
    <2>2. ImageAdds'
      BY DEF ImageAdds
    <2>3. DoneTills' = DoneTills \cup {t} /\ t \notin DoneTills
      BY DEF DoneTills
    <2>4. IsFiniteSet(DoneTills) /\ IsFiniteSet(DoneTills')
      BY <2>3, FS_AddElement DEF PoolFollowsSales
    <2>5. ASSUME NEW c \in Cats PROVE stock'[c] = InitStock[c] - Sold(c)'
      <3> DEFINE demand == [u \in Tills |-> Demand(u, c)]
      <3>1. \A u \in DoneTills \cup {t} : demand[u] \in Int
        BY DemandType DEF DoneTills
      <3>2. demand[t] = SumFunctionOnSet(LineQty, AppliedLines(t, c))
        BY DEF Demand, AppliedLines
      <3>3. stock'[c] = stock[c] - demand[t]
        BY <3>2 DEF ImageAdds
      <3>4. stock[c] = InitStock[c] - SumFunctionOnSet(demand, DoneTills)
        BY DEF PoolFollowsSales, Sold
      <3>5. Sold(c)' = SumFunctionOnSet(demand, DoneTills')
        BY DEF Sold, Demand
      <3> HIDE DEF demand
      <3>6. SumFunctionOnSet(demand, DoneTills \cup {t})
              = demand[t] + SumFunctionOnSet(demand, DoneTills)
        BY ONLY <2>3, <2>4, <3>1, SumAdd
      <3>7. SumFunctionOnSet(demand, DoneTills) \in Int /\ demand[t] \in Int
        BY <2>4, <3>1, SumType
      <3>8. InitStock[c] \in Int
        BY CheckoutAssumption
      <3> QED
        BY <2>3, <3>3, <3>4, <3>5, <3>6, <3>7, <3>8
    <2>6. PoolFollowsSales'
      BY <2>4, <2>5 DEF PoolFollowsSales
    <2> QED
      BY <2>1, <2>2, <2>6
  <1>9. ASSUME NEW m \in Modes, SetStrategy(m) PROVE SumInv'
    BY <1>9, <1>k DEF SetStrategy, tillVars, woVars, ImageAdds, AppliedLines, DoneTills
  <1>10. ASSUME Crash PROVE SumInv'
    <2> USE <1>10 DEF Crash, InFlight
    <2>1. UNCHANGED <<stock, DoneTills>>
      BY DEF DoneTills
    <2>2. LockOwned' /\ ImageFresh' /\ ImageAdds'
      BY DEF ImageAdds
    <2> QED
      BY <1>k, <2>1, <2>2
  <1>11. CASE UNCHANGED vars
    BY <1>11, <1>k DEF vars, ImageAdds, AppliedLines, DoneTills
  <1>12. \A t \in Tills : \A l \in Lines : ~ApplyLineDrift(t, l)
    BY DEF ApplyLineDrift
  <1> QED
    BY <1>1, <1>2, <1>3, <1>4, <1>5, <1>6, <1>7, <1>8, <1>9, <1>10, <1>11, <1>12
    DEF Next

(***************************************************************************)
(* No update of the stock is lost and none is applied twice or in part:    *)
(* when nothing writes stock outside a transaction and the engine never    *)
(* raises, the pool is the opening stock less the carts of the committed   *)
(* requests, repeated categories included.                                 *)
(***************************************************************************)
THEOREM StockIsConserved ==
  ASSUME Writeoffs = {}, ~EngineMayFail
  PROVE  Spec => []StockConserved
  <1>1. Init => SumInv
    <2> SUFFICES ASSUME Init PROVE SumInv
      OBVIOUS
    <2>1. TypeOK /\ LockOwned /\ ImageFresh /\ ImageAdds
      BY CheckoutAssumption DEF Init, TypeOK, LockOwned, ImageFresh, ImageAdds
    <2>2. DoneTills = {}
      BY DEF Init, DoneTills
    <2>3. \A c \in Cats : stock[c] = InitStock[c] /\ InitStock[c] \in Int
      BY CheckoutAssumption DEF Init
    <2>4. \A c \in Cats : Sold(c) = 0
      BY <2>2, SumEmpty DEF Sold
    <2>5. PoolFollowsSales
      BY <2>2, <2>3, <2>4, FS_EmptySet DEF PoolFollowsSales
    <2> QED
      BY <2>1, <2>5 DEF SumInv
  <1>2. SumInv /\ [Next]_vars => SumInv'
    BY SumStep
  <1>3. SumInv => StockConserved
    <2> SUFFICES ASSUME SumInv, NEW c \in Cats
                 PROVE  stock[c] = InitStock[c] - Sold(c) - WrittenOff(c)
      BY DEF StockConserved
    <2>1. {w \in Writeoffs : WoCat[w] = c /\ wpc[w] = "done"} = {}
      OBVIOUS
    <2>2. WrittenOff(c) = 0
      BY <2>1, SumEmpty DEF WrittenOff
    <2>3. stock[c] = InitStock[c] - Sold(c) /\ stock[c] \in Int
      BY DEF SumInv, TypeOK, PoolFollowsSales
    <2> QED
      BY <2>2, <2>3
  <1> QED
    BY <1>1, <1>2, <1>3, PTL DEF Spec

(***************************************************************************)
(* Refinement of AtomicCheckout.  While a request writes, its image is the *)
(* committed stock less the lines already applied, and a strict request    *)
(* that is past the guard has enough of every category it needs.           *)
(***************************************************************************)
AppliedOf(t, c) ==
    IF \E l \in Cart[t] \ todo[t] : LineCat[l] = c THEN Need[t][c] ELSE 0

ImageTracks ==
    \A t \in Tills : pc[t] = "apply" =>
        /\ \A c \in Cats : work[c] = stock[c] - AppliedOf(t, c)
        /\ read[t] = "strict" =>
             \A c \in Cats : Need[t][c] > 0 => stock[c] >= Need[t][c]

ReadKnown == \A t \in Tills : pc[t] \in {"guard", "apply", "queued"} => read[t] \in Modes

AtomicInv == StockInv /\ ImageTracks /\ ReadKnown

LEMMA NeedOfLine ==
  ASSUME DistinctLines, NEW t \in Tills, NEW l \in Cart[t]
  PROVE  Need[t][LineCat[l]] = LineQty[l]
  <1>1. l \in Lines /\ LineCat[l] \in Cats
    BY CheckoutAssumption
  <1>2. LineOf(t, LineCat[l]) = l
    BY DEF DistinctLines, LineOf
  <1> QED
    BY <1>1, <1>2 DEF Need

LEMMA NeedType == \A t \in Tills : \A c \in Cats : Need[t][c] \in Nat
  <1> SUFFICES ASSUME NEW t \in Tills, NEW c \in Cats PROVE Need[t][c] \in Nat
    OBVIOUS
  <1>1. CASE \E l \in Cart[t] : LineCat[l] = c
    <2>1. LineOf(t, c) \in Cart[t]
      BY <1>1 DEF LineOf
    <2>2. LineOf(t, c) \in Lines
      BY <2>1, CheckoutAssumption
    <2> QED
      BY <1>1, <2>2, CheckoutAssumption DEF Need
  <1>2. CASE ~\E l \in Cart[t] : LineCat[l] = c
    BY <1>2 DEF Need
  <1> QED
    BY <1>1, <1>2

LEMMA NeedFrom ==
  ASSUME NEW t \in Tills, NEW c \in Cats, Need[t][c] > 0
  PROVE  \E l \in Cart[t] : LineCat[l] = c
  BY DEF Need

LEMMA AtomicStep ==
  ASSUME DistinctLines, Writeoffs = {}, ~EngineMayFail
  PROVE  AtomicInv /\ [Next]_vars => AtomicInv'
  <1> SUFFICES ASSUME AtomicInv, [Next]_vars PROVE AtomicInv'
    OBVIOUS
  <1>0. StockInv'
    BY StockStep DEF AtomicInv
  <1>n. \A t \in Tills : \A c \in Cats : Need[t][c] \in Nat
    BY NeedType
  <1>c. Cart \in [Tills -> SUBSET Lines]
    BY CheckoutAssumption
  <1> SUFFICES ImageTracks' /\ ReadKnown'
    BY <1>0 DEF AtomicInv
  <1> USE <1>n, <1>c DEF AtomicInv, StockInv, TypeOK, LockOwned, ImageFresh, ImageTracks,
               ReadKnown, AppliedOf, RestFits
  <1>1. ASSUME NEW t \in Tills, PreFlight(t) PROVE ImageTracks' /\ ReadKnown'
    BY <1>1 DEF PreFlight, woVars
  <1>2. ASSUME NEW t \in Tills, BeginImmediate(t) PROVE ImageTracks' /\ ReadKnown'
    BY <1>2, CheckoutAssumption DEF BeginImmediate, woVars
  <1>3. ASSUME NEW t \in Tills, BusyTimeout(t) PROVE ImageTracks' /\ ReadKnown'
    BY <1>3 DEF BusyTimeout, woVars
  <1>4. ASSUME NEW t \in Tills, GuardPass(t) PROVE ImageTracks' /\ ReadKnown'
    <2> USE <1>4 DEF GuardPass, woVars
    <2>1. \A u \in Tills : pc'[u] = "apply" => u = t
      OBVIOUS
    <2>2. \A c \in Cats : work[c] = stock[c] /\ stock[c] \in Int
      OBVIOUS
    <2>3. ASSUME read[t] = "strict", NEW c \in Cats, Need[t][c] > 0
          PROVE  stock[c] >= Need[t][c]
      <3>1. PICK l \in Cart[t] : LineCat[l] = c
        BY <2>3, NeedFrom
      <3>2. Need[t][c] = LineQty[l]
        BY <3>1, NeedOfLine
      <3> QED
        BY <2>3, <2>2, <3>1, <3>2 DEF LineFits
    <2>4. \A c \in Cats : AppliedOf(t, c)' = 0
      OBVIOUS
    <2> QED
      BY <2>1, <2>2, <2>3, <2>4
  <1>5. ASSUME NEW t \in Tills, GuardBlock(t) PROVE ImageTracks' /\ ReadKnown'
    BY <1>5 DEF GuardBlock, woVars
  <1>6. ASSUME NEW t \in Tills, NEW l \in Lines, ApplyLine(t, l)
        PROVE  ImageTracks' /\ ReadKnown'
    <2> USE <1>6 DEF ApplyLine, woVars
    <2>1. \A u \in Tills : pc'[u] = "apply" => u = t
      OBVIOUS
    <2>2. l \in Cart[t] /\ LineCat[l] \in Cats /\ LineQty[l] \in Nat
      BY CheckoutAssumption
    <2>3. Need[t][LineCat[l]] = LineQty[l]
      BY <2>2, NeedOfLine
    <2>4. ASSUME NEW c \in Cats PROVE work'[c] = stock'[c] - AppliedOf(t, c)'
      <3>1. Cart[t] \ todo'[t] = (Cart[t] \ todo[t]) \cup {l}
        BY <2>2
      <3>2. CASE c = LineCat[l]
        <4>1. ~\E k \in Cart[t] \ todo[t] : LineCat[k] = c
          BY <2>2, <3>2 DEF DistinctLines
        <4>2. AppliedOf(t, c) = 0 /\ AppliedOf(t, c)' = LineQty[l]
          BY <4>1, <3>1, <3>2, <2>3
        <4>3. work[c] = stock[c] - 0
          BY <4>2
        <4> QED
          BY <3>2, <4>2, <4>3, <2>2
      <3>3. CASE c # LineCat[l]
        <4>1. AppliedOf(t, c)' = AppliedOf(t, c)
          BY <3>1, <3>3
        <4>2. work[c] = stock[c] - AppliedOf(t, c)
          OBVIOUS
        <4> QED
          BY <3>3, <4>1, <4>2
      <3> QED
        BY <3>2, <3>3
    <2> QED
      BY <2>1, <2>4
  <1>7. ASSUME NEW t \in Tills, NEW l \in Lines, ApplyLineDrift(t, l)
        PROVE  ImageTracks' /\ ReadKnown'
    BY <1>7 DEF ApplyLineDrift
  <1>8. ASSUME NEW t \in Tills, Commit(t) PROVE ImageTracks' /\ ReadKnown'
    BY <1>8 DEF Commit, woVars
  <1>9. ASSUME NEW t \in Tills, Rollback(t) PROVE ImageTracks' /\ ReadKnown'
    BY <1>9 DEF Rollback, woVars
  <1>10. ASSUME NEW m \in Modes, SetStrategy(m) PROVE ImageTracks' /\ ReadKnown'
    BY <1>10 DEF SetStrategy, tillVars, woVars
  <1>11. ASSUME Crash PROVE ImageTracks' /\ ReadKnown'
    BY <1>11 DEF Crash, InFlight
  <1>12. CASE UNCHANGED vars
    BY <1>12 DEF vars
  <1> QED
    BY <1>1, <1>2, <1>3, <1>4, <1>5, <1>6, <1>7, <1>8, <1>9, <1>10, <1>11,
       <1>12 DEF Next

LEMMA AtomicSimulates ==
  ASSUME DistinctLines, Writeoffs = {}, ~EngineMayFail
  PROVE  AtomicInv /\ [Next]_vars => [Atomic!Next]_(Atomic!vars)
  <1> SUFFICES ASSUME AtomicInv, [Next]_vars
               PROVE  Atomic!Next \/ UNCHANGED Atomic!vars
    OBVIOUS
  <1>n. \A t \in Tills : \A c \in Cats : Need[t][c] \in Nat
    BY NeedType
  <1>c. Cart \in [Tills -> SUBSET Lines]
    BY CheckoutAssumption
  <1> USE DEF AtomicInv, StockInv, TypeOK, LockOwned, outcome, Answered, Atomic!vars
  <1>1. ASSUME NEW t \in Tills, PreFlight(t) PROVE UNCHANGED Atomic!vars
    BY <1>1 DEF PreFlight
  <1>2. ASSUME NEW t \in Tills, BeginImmediate(t) PROVE UNCHANGED Atomic!vars
    BY <1>2 DEF BeginImmediate
  <1>3. ASSUME NEW t \in Tills, BusyTimeout(t)
        PROVE  \E T \in SUBSET Tills : Atomic!Fail(T)
    <2>1. Atomic!Fail({t})
      BY <1>3 DEF BusyTimeout, Atomic!Fail
    <2> QED
      BY <2>1
  <1>4. ASSUME NEW t \in Tills, GuardPass(t) PROVE UNCHANGED Atomic!vars
    BY <1>4 DEF GuardPass
  <1>5. ASSUME NEW t \in Tills, GuardBlock(t) PROVE Atomic!Block(t)
    <2> USE <1>5 DEF GuardBlock
    <2>1. PICK l \in Cart[t] : ~LineFits(l)
      OBVIOUS
    <2>2. l \in Lines /\ LineCat[l] \in Cats /\ LineQty[l] \in Nat \ {0}
      BY <1>c, CheckoutAssumption
    <2>3. Need[t][LineCat[l]] = LineQty[l]
      BY NeedOfLine
    <2>4. ~Atomic!Enough(t)
      BY <2>1, <2>2, <2>3 DEF ImageFresh, LineFits, Atomic!Enough
    <2>5. UNCHANGED stock /\ outcome[t] = "open"
      BY DEF ImageFresh
    <2>6. outcome' = [outcome EXCEPT ![t] = "blocked"]
      OBVIOUS
    <2> QED
      BY <2>4, <2>5, <2>6 DEF Atomic!Block
  <1>6. ASSUME NEW t \in Tills, NEW l \in Lines, ApplyLine(t, l)
        PROVE  UNCHANGED Atomic!vars
    BY <1>6 DEF ApplyLine
  <1>7. ASSUME NEW t \in Tills, Commit(t)
        PROVE  \E m \in Modes : Atomic!Sell(t, m)
    <2> USE <1>7 DEF Commit
    <2>1. read[t] \in Modes
      BY DEF ReadKnown
    <2>2. read[t] = "strict" => Atomic!Enough(t)
      BY DEF ImageTracks, Atomic!Enough
    <2>3. ASSUME NEW c \in Cats PROVE stock'[c] = stock[c] - Need[t][c]
      <3>1. stock'[c] = stock[c] - AppliedOf(t, c)
        BY DEF ImageTracks
      <3>2. AppliedOf(t, c) = Need[t][c]
        BY <1>n DEF AppliedOf, Need
      <3> QED
        BY <3>1, <3>2
    <2>4. stock' = [c \in Cats |-> stock[c] - Need[t][c]]
      BY <2>3
    <2>5. outcome[t] = "open" /\ outcome' = [outcome EXCEPT ![t] = "done"]
      OBVIOUS
    <2> QED
      BY <2>1, <2>2, <2>4, <2>5 DEF Atomic!Sell
  <1>8. ASSUME NEW t \in Tills, Rollback(t)
        PROVE  \E T \in SUBSET Tills : Atomic!Fail(T)
    <2>1. Atomic!Fail({t})
      BY <1>8 DEF Rollback, Atomic!Fail
    <2> QED
      BY <2>1
  <1>9. ASSUME NEW m \in Modes, SetStrategy(m) PROVE UNCHANGED Atomic!vars
    BY <1>9 DEF SetStrategy, tillVars
  <1>10. ASSUME Crash PROVE \E T \in SUBSET Tills : Atomic!Fail(T)
    <2>1. PICK T \in SUBSET Tills : T = {t \in Tills : InFlight(t)}
      OBVIOUS
    <2>2. Atomic!Fail(T)
      BY <1>10, <2>1 DEF Crash, InFlight, Atomic!Fail
    <2> QED
      BY <2>2
  <1>11. CASE UNCHANGED vars
    BY <1>11 DEF vars
  <1>12. \A t \in Tills : \A l \in Lines : ~ApplyLineDrift(t, l)
    BY DEF ApplyLineDrift
  <1> HIDE DEF AtomicInv, StockInv, TypeOK, LockOwned, outcome, Answered, Atomic!vars
  <1> QED
    BY <1>1, <1>2, <1>3, <1>4, <1>5, <1>6, <1>7, <1>8, <1>9, <1>10, <1>11, <1>12
    DEF Next, Atomic!Next

(***************************************************************************)
(* write_tx makes a checkout atomic: seen through its answers it is one    *)
(* step of AtomicCheckout, for carts without a repeated category, when     *)
(* nothing writes stock outside a transaction and the engine never raises. *)
(***************************************************************************)
THEOREM CheckoutIsAtomic ==
  ASSUME DistinctLines, Writeoffs = {}, ~EngineMayFail
  PROVE  Spec => AtomicSpec
  <1>1. Init => AtomicInv /\ Atomic!Init
    BY CheckoutAssumption
    DEF Init, AtomicInv, StockInv, TypeOK, LockOwned, ImageFresh, RestFits,
        WriteoffCovered, NegativeOnlyByPermit, ImageTracks, ReadKnown,
        Atomic!Init, outcome, Answered
  <1>2. AtomicInv /\ [Next]_vars => AtomicInv'
    BY AtomicStep
  <1>3. AtomicInv /\ [Next]_vars => [Atomic!Next]_(Atomic!vars)
    BY AtomicSimulates
  <1> QED
    BY <1>1, <1>2, <1>3, PTL DEF Spec, AtomicSpec, Atomic!Spec

====
