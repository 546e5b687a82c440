---- MODULE MCOffice ----
(***************************************************************************)
(* Small instances of the parts an owner keeps an eye on: salaries, the    *)
(* cash desk, what the assistant may do only when told to, backups, boots. *)
(***************************************************************************)
EXTENDS MCParts

CONSTANTS Employees, Salaries, OffDays, AdvancePay, MaxAdvances, MaxRequests,  \* Salary
          CashAmount, TillFloat, MaxCashRows, MaxCashShifts, CashMoves,  \* CashOffice
          AskedKinds, AskedValues, MaxAsked,  \* Assistant
          KeptBackups, MaxWrites, MaxEntries, MaxInner,  \* Vault
          SeedRows, MaxBootRuns, MaxBootCash   \* Migration

ASSUME OfficeAssumption ==
    /\ "none" \notin Employees
    /\ Salaries \subseteq Nat /\ OffDays \subseteq Nat /\ AdvancePay \in Nat
    /\ CashAmount \in Nat /\ TillFloat \in Nat
    /\ CashMoves \subseteq {"sale", "cash_in", "extra_sale", "cash_out", "return", "refund", "salary",
                            "owner_withdrawal", "expense", "supplier_advance", "bank_deposit",
                            "payment_in"}
    /\ AskedValues \subseteq Int
    /\ SeedRows \in Nat \ {0} /\ MaxBootRuns \in Nat /\ MaxBootCash \in Nat

\* Assistant: the actions of a season's plan
Season == <<"note", "note">>

Payroll == INSTANCE Salary WITH
    salary <- v1, record <- v2, expense <- v3, advances <- v4, cash <- v5, handed <- v6,
    worker <- v7, requests <- v8, raced <- v9, late <- v10, torn <- v11, dropped <- v12

CashDesk == INSTANCE CashOffice WITH
    Amount <- CashAmount, Float <- TillFloat, MaxRows <- MaxCashRows,
    MaxShifts <- MaxCashShifts, Moves <- CashMoves, drawer <- v1, shifts <- v2, closes <- v3,
    paper <- v4, month <- v5, till <- v6, worker <- v7, raced <- v8, torn <- v9, removed <- v10

Answers == INSTANCE Assistant WITH
    Kinds <- AskedKinds, Wanted <- AskedValues, Keys <- {1}, Plan <- Season,
    MaxActions <- MaxAsked, queue <- v1, expenses <- v2, drawer <- v3, worker <- v4, carried <- v5,
    refused <- v6, lapped <- v7, doubled <- v8, torn <- v9

Proposals == INSTANCE Assistant WITH
    Kinds <- {}, Wanted <- {}, Keys <- {1}, Plan <- Season, MaxActions <- 2, queue <- v1,
    expenses <- v2, drawer <- v3, worker <- v4, carried <- v5, refused <- v6, lapped <- v7,
    doubled <- v8, torn <- v9

Backups == INSTANCE Vault WITH
    Kept <- KeptBackups, live <- v1, disk <- v2, shelf <- v3, inner <- v4, told <- v5,
    written <- v6, activated <- v7, worker <- v8, slipped <- v9, mishap <- v10

Boots == INSTANCE Migration WITH
    Defaults <- SeedRows, MaxBoots <- MaxBootRuns, MaxCash <- MaxBootCash, has <- v1,
    seeded <- v2, actions <- v3, imported <- v4, drawer <- v5, at <- v6, proc <- v7,
    boots <- v8, cut <- v9, dropped <- v10

====
