---- MODULE Checkout ----
(***************************************************************************)
(* Concurrent checkouts over the SQLite store (app/db.py, write_tx and     *)
(* conn; app/routers/pos.py, create_sale; app/profit_cash.py,              *)
(* add_stock_writeoff).  FastAPI runs every handler in its own thread, so  *)
(* statements of different requests interleave: a write_tx body works on a *)
(* private image under the single write lock, an autocommit connection     *)
(* publishes each statement on its own.  Money is left to PosLedger.       *)
(***************************************************************************)
EXTENDS Integers, FiniteSetsExt

CONSTANTS Cats,           \* price categories
          Tills,          \* one element per POST /api/sales
          Lines,          \* cart lines
          Cart,           \* Cart[t]: the lines of request t
          LineCat,        \* category of a line
          LineQty,        \* pieces of a line
          Writeoffs,      \* one element per POST /api/inventory/writeoff
          WoCat, WoQty,   \* category and pieces of a write-off
          InitStock,      \* pieces on hand at the start
          Modes,          \* values the setting stock_strategy takes
          EngineMayFail,  \* may apply_sale_to_state raise?
          NoTill          \* the write lock is free

ASSUME CheckoutAssumption ==
    /\ Cart \in [Tills -> SUBSET Lines]
    /\ \A t \in Tills : IsFiniteSet(Cart[t])
    /\ LineCat \in [Lines -> Cats]
    /\ LineQty \in [Lines -> Nat \ {0}]
    /\ WoCat \in [Writeoffs -> Cats]
    /\ WoQty \in [Writeoffs -> Nat \ {0}]
    /\ InitStock \in [Cats -> Nat]
    /\ Modes \subseteq {"strict", "permit_negative"}
    /\ Modes # {}
    /\ EngineMayFail \in BOOLEAN
    /\ NoTill \notin Tills

VARIABLES stock,   \* committed category_stock_state.current_qty
          lock,    \* holder of BEGIN IMMEDIATE's reserved lock
          work,    \* the holder's uncommitted image of stock
          pc,      \* where each checkout stands
          todo,    \* lines whose stock mutation is still to run
          mode,    \* setting stock_strategy
          read,    \* the strategy a checkout read before locking
          wpc,     \* where each write-off stands
          seen     \* the quantity a write-off read

vars == <<stock, lock, work, pc, todo, mode, read, wpc, seen>>
tillVars == <<lock, work, pc, todo, read>>
woVars == <<wpc, seen>>

Init == /\ stock = InitStock
        /\ lock = NoTill
        /\ work = InitStock
        /\ pc = [t \in Tills |-> "idle"]
        /\ todo = [t \in Tills |-> {}]
        /\ mode \in Modes
        /\ read = [t \in Tills |-> "strict"]
        /\ wpc = [w \in Writeoffs |-> "idle"]
        /\ seen = [w \in Writeoffs |-> 0]

(***************************************************************************)
(* create_sale.  The strategy is read on a connection of its own, before   *)
(* the transaction; guard and mutation run under the lock.                 *)
(***************************************************************************)
PreFlight(t) ==
    /\ pc[t] = "idle"
    /\ read' = [read EXCEPT ![t] = mode]
    /\ pc' = [pc EXCEPT ![t] = "queued"]
    /\ UNCHANGED <<stock, lock, work, todo, mode, woVars>>

\* Faulty variant: BEGIN without IMMEDIATE does not wait for the lock.
BeginDeferred(t) ==
    /\ pc[t] = "queued"
    /\ lock' = t
    /\ work' = stock
    /\ pc' = [pc EXCEPT ![t] = "guard"]
    /\ UNCHANGED <<stock, todo, mode, read, woVars>>

BeginImmediate(t) ==
    /\ pc[t] = "queued"
    /\ lock = NoTill
    /\ lock' = t
    /\ work' = stock
    /\ pc' = [pc EXCEPT ![t] = "guard"]
    /\ UNCHANGED <<stock, todo, mode, read, woVars>>

\* Faulty variant: the error of the driver is not turned into an answer.
BusyUnhandled(t) ==
    /\ pc[t] = "queued"
    /\ lock # NoTill
    /\ pc' = [pc EXCEPT ![t] = "locked"]
    /\ UNCHANGED <<stock, lock, work, todo, mode, read, woVars>>

\* busy_timeout expires while another request holds the lock
BusyTimeout(t) ==
    /\ pc[t] = "queued"
    /\ lock # NoTill
    /\ pc' = [pc EXCEPT ![t] = "failed"]
    /\ UNCHANGED <<stock, lock, work, todo, mode, read, woVars>>

\* Faulty variant: the last pieces cannot be sold.
LineFitsStrictly(l) == work[LineCat[l]] > LineQty[l]

\* _sale_stock_guard looks at each line by itself
LineFits(l) == work[LineCat[l]] >= LineQty[l]

GuardPass(t) ==
    /\ pc[t] = "guard"
    /\ read[t] = "strict" => \A l \in Cart[t] : LineFits(l)
    /\ todo' = [todo EXCEPT ![t] = Cart[t]]
    /\ pc' = [pc EXCEPT ![t] = "apply"]
    /\ UNCHANGED <<stock, lock, work, mode, read, woVars>>

\* Faulty variant: the 409 answer returns with the transaction open.
GuardBlockOpen(t) ==
    /\ pc[t] = "guard"
    /\ read[t] = "strict"
    /\ \E l \in Cart[t] : ~LineFits(l)
    /\ pc' = [pc EXCEPT ![t] = "blocked"]
    /\ UNCHANGED <<stock, lock, work, todo, mode, read, woVars>>

\* The 409 answer leaves the with-block by return: write_tx commits.
GuardBlock(t) ==
    /\ pc[t] = "guard"
    /\ read[t] = "strict"
    /\ \E l \in Cart[t] : ~LineFits(l)
    /\ stock' = work
    /\ lock' = NoTill
    /\ pc' = [pc EXCEPT ![t] = "blocked"]
    /\ UNCHANGED <<work, todo, mode, read, woVars>>

\* apply_sale_to_state has no floor
ApplyLine(t, l) ==
    /\ pc[t] = "apply"
    /\ l \in todo[t]
    /\ work' = [work EXCEPT ![LineCat[l]] = @ - LineQty[l]]
    /\ todo' = [todo EXCEPT ![t] = @ \ {l}]
    /\ UNCHANGED <<stock, lock, pc, mode, read, woVars>>

\* the engine raises; _sale_apply_stock_state logs the drift and goes on
ApplyLineDrift(t, l) ==
    /\ EngineMayFail
    /\ pc[t] = "apply"
    /\ l \in todo[t]
    /\ todo' = [todo EXCEPT ![t] = @ \ {l}]
    /\ UNCHANGED <<stock, lock, work, pc, mode, read, woVars>>

Commit(t) ==
    /\ pc[t] = "apply"
    /\ todo[t] = {}
    /\ stock' = work
    /\ lock' = NoTill
    /\ pc' = [pc EXCEPT ![t] = "done"]
    /\ UNCHANGED <<work, todo, mode, read, woVars>>

\* Faulty variant: the exception is swallowed and the half-done work kept.
RollbackKeeps(t) ==
    /\ pc[t] \in {"guard", "apply"}
    /\ stock' = work
    /\ lock' = NoTill
    /\ pc' = [pc EXCEPT ![t] = "failed"]
    /\ todo' = [todo EXCEPT ![t] = {}]
    /\ UNCHANGED <<work, mode, read, woVars>>

\* any exception in the body: ROLLBACK
Rollback(t) ==
    /\ pc[t] \in {"guard", "apply"}
    /\ lock' = NoTill
    /\ pc' = [pc EXCEPT ![t] = "failed"]
    /\ todo' = [todo EXCEPT ![t] = {}]
    /\ UNCHANGED <<stock, work, mode, read, woVars>>

(***************************************************************************)
(* add_stock_writeoff runs on an autocommit connection: it reads, inserts  *)
(* its two rows, then stores the difference to what it read.               *)
(***************************************************************************)
WriteoffRead(w) ==
    /\ wpc[w] = "idle"
    /\ seen' = [seen EXCEPT ![w] = stock[WoCat[w]]]
    /\ wpc' = [wpc EXCEPT ![w] =
                  IF stock[WoCat[w]] >= WoQty[w] THEN "rows" ELSE "refused"]
    /\ UNCHANGED <<stock, mode, tillVars>>

\* stock_writeoffs and stock_adjustments: nobody reads them half-written
WriteoffRows(w) ==
    /\ wpc[w] = "rows"
    /\ lock = NoTill
    /\ wpc' = [wpc EXCEPT ![w] = "save"]
    /\ UNCHANGED <<stock, mode, seen, tillVars>>

WriteoffSave(w) ==
    /\ wpc[w] = "save"
    /\ lock = NoTill
    /\ stock' = [stock EXCEPT ![WoCat[w]] = seen[w] - WoQty[w]]
    /\ wpc' = [wpc EXCEPT ![w] = "done"]
    /\ UNCHANGED <<mode, seen, tillVars>>

\* busy_timeout on the autocommit connection: what was stored before stays
WriteoffTimeout(w) ==
    /\ wpc[w] \in {"rows", "save"}
    /\ lock # NoTill
    /\ wpc' = [wpc EXCEPT ![w] = IF @ = "rows" THEN "failed" ELSE "torn"]
    /\ UNCHANGED <<stock, mode, seen, tillVars>>

SetStrategy(m) ==
    /\ m # mode
    /\ lock = NoTill
    /\ mode' = m
    /\ UNCHANGED <<stock, tillVars, woVars>>

\* The process dies: SQLite drops the open transaction, autocommitted
\* statements stay, nobody finishes the requests that were running.
InFlight(t) == pc[t] \in {"queued", "guard", "apply"}

Crash ==
    /\ (\E t \in Tills : InFlight(t)) \/ (\E w \in Writeoffs : wpc[w] \in {"rows", "save"})
    /\ lock' = NoTill
    /\ pc' = [t \in Tills |-> IF InFlight(t) THEN "failed" ELSE pc[t]]
    /\ todo' = [t \in Tills |-> {}]
    /\ wpc' = [w \in Writeoffs |->
                 IF wpc[w] = "rows" THEN "failed"
                 ELSE IF wpc[w] = "save" THEN "torn" ELSE wpc[w]]
    /\ UNCHANGED <<stock, work, mode, read, seen>>

Next ==
    \/ \E t \in Tills :
          \/ PreFlight(t) \/ BeginImmediate(t) \/ BusyTimeout(t)
          \/ GuardPass(t) \/ GuardBlock(t)
          \/ \E l \in Lines : ApplyLine(t, l) \/ ApplyLineDrift(t, l)
          \/ Commit(t) \/ Rollback(t)
    \/ \E w \in Writeoffs :
          WriteoffRead(w) \/ WriteoffRows(w) \/ WriteoffSave(w) \/ WriteoffTimeout(w)
    \/ \E m \in Modes : SetStrategy(m)
    \/ Crash

Spec == Init /\ [][Next]_vars

\* A thread that can go on is scheduled, and SQLite answers a waiting BEGIN
\* with the lock or, after busy_timeout, with an error.
TillStep(t) ==
    \/ BeginImmediate(t) \/ BusyTimeout(t) \/ GuardPass(t) \/ GuardBlock(t)
    \/ \E l \in Lines : ApplyLine(t, l)
    \/ Commit(t)

FairSpec == Spec /\ \A t \in Tills : WF_vars(TillStep(t))

-----------------------------------------------------------------------------
TypeOK ==
    /\ stock \in [Cats -> Int]
    /\ lock \in Tills \cup {NoTill}
    /\ work \in [Cats -> Int]
    /\ pc \in [Tills -> {"idle", "queued", "guard", "apply",
                         "done", "blocked", "failed"}]
    /\ todo \in [Tills -> SUBSET Lines]
    /\ mode \in Modes
    /\ read \in [Tills -> {"strict", "permit_negative"}]
    /\ wpc \in [Writeoffs -> {"idle", "rows", "save", "done", "refused",
                              "failed", "torn"}]
    /\ seen \in [Writeoffs -> Int]

\* No cart names a category twice.
DistinctLines ==
    \A t \in Tills : \A k, l \in Cart[t] : LineCat[k] = LineCat[l] => k = l

PermittedSale == \E t \in Tills : pc[t] = "done" /\ read[t] = "permit_negative"

(***************************************************************************)
(* Stock goes below zero only after a committed sale that had read the     *)
(* strategy permit_negative, however checkouts, write-offs, strategy       *)
(* changes, timeouts and crashes interleave (create_sale: "strict" blocks  *)
(* on insufficient stock).                                                 *)
(***************************************************************************)
NegativeOnlyByPermit ==
    \A c \in Cats : stock[c] < 0 => PermittedSale

\* What request t asks of category c, and what finished write-offs took from it.
Demand(t, c) == SumFunctionOnSet(LineQty, {l \in Cart[t] : LineCat[l] = c})
DoneTills == {t \in Tills : pc[t] = "done"}
Sold(c) == SumFunctionOnSet([t \in Tills |-> Demand(t, c)], DoneTills)
WrittenOff(c) ==
    SumFunctionOnSet(WoQty, {w \in Writeoffs : WoCat[w] = c /\ wpc[w] = "done"})

(***************************************************************************)
(* When no write-off is half way or was cut off between its rows and the   *)
(* pool, the running pool is the opening stock less every committed sale   *)
(* line and every write-off: no update is overwritten, lost or applied     *)
(* twice or in part.  This is what write_tx ("all commit together") and    *)
(* add_stock_writeoff ("all in a single transaction") promise.             *)
(***************************************************************************)
StockConserved ==
    (\A w \in Writeoffs : wpc[w] \notin {"save", "torn"})
        => \A c \in Cats : stock[c] = InitStock[c] - Sold(c) - WrittenOff(c)

(***************************************************************************)
(* Every checkout that asked for the lock is answered, whatever the others *)
(* do, and every holder of the lock gives it up: the 409 answer, an        *)
(* exception and a crash of the holder included.                           *)
(***************************************************************************)
Answered(t) == pc[t] \in {"done", "blocked", "failed"}

EveryCheckoutEnds ==
    \A t \in Tills : /\ pc[t] = "queued" ~> Answered(t)
                     /\ lock = t ~> lock = NoTill

(***************************************************************************)
(* The promise of write_tx: seen through its answers, a checkout is        *)
(* AtomicCheckout's single step.  Without write-offs and engine failures,  *)
(* and with one line per category.                                         *)
(***************************************************************************)
LineOf(t, c) == CHOOSE l \in Cart[t] : LineCat[l] = c

Need == [t \in Tills |-> [c \in Cats |->
           IF \E l \in Cart[t] : LineCat[l] = c THEN LineQty[LineOf(t, c)] ELSE 0]]

outcome == [t \in Tills |-> IF Answered(t) THEN pc[t] ELSE "open"]

Atomic == INSTANCE AtomicCheckout WITH
    Cats <- Cats, Tills <- Tills, Need <- Need, Modes <- Modes, InitStock <- InitStock,
    stock <- stock, outcome <- outcome

AtomicSpec == Atomic!Spec

====
