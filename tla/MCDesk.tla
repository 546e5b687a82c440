---- MODULE MCDesk ----
(***************************************************************************)
(* A small instance of the desk that keeps customers, their credit and     *)
(* points, layaways and parked orders.                                     *)
(***************************************************************************)
EXTENDS MCParts

CONSTANTS Callers, PaymentKeys, LayawayDue,
          MaxCustomers, MaxDeskSales, MaxParked, MaxDeskMoves

ASSUME DeskAssumption == LayawayDue \in Nat /\ MaxCustomers \in Nat

Desk == INSTANCE CustomerDesk WITH
    Phones <- Callers, Keys <- PaymentKeys, LayawayTotal <- LayawayDue,
    MaxPeople <- MaxCustomers, MaxSales <- MaxDeskSales, MaxOrders <- MaxParked,
    MaxMoves <- MaxDeskMoves, people <- v1, sales <- v2, payments <- v3, drawer <- v4,
    redeemed <- v5, orders <- v6, jobs <- v7, day <- v8, moves <- v9, awards <- v10,
    over <- v11, marks <- v12

====
