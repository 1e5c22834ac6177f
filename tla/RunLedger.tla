------------------------------ MODULE RunLedger ------------------------------
(***************************************************************************)
(* What run execution promises to the account that pays for it.  A run is  *)
(* accepted within the budget, may start once, and settles once.  It is    *)
(* charged in full if it started and nothing otherwise; leases, captures,  *)
(* retries and crashes do not exist at this level.                         *)
(***************************************************************************)
EXTENDS Integers

CONSTANTS Run, Units, Limit

VARIABLES
    phase,     \* where a run is: absent, reserved, started, settled
    charge,    \* what a settled run was charged
    reserved,  \* units held for runs that are not settled
    consumed   \* units charged

ledgerVars == <<phase, charge, reserved, consumed>>

LedgerInit ==
    /\ phase = [r \in Run |-> "absent"]
    /\ charge = [r \in Run |-> 0]
    /\ reserved = 0 /\ consumed = 0

Reserve(r) ==
    /\ phase[r] = "absent"
    /\ reserved + consumed + Units[r] <= Limit
    /\ phase' = [phase EXCEPT ![r] = "reserved"]
    /\ reserved' = reserved + Units[r]
    /\ UNCHANGED <<charge, consumed>>

Start(r) ==
    /\ phase[r] = "reserved"
    /\ phase' = [phase EXCEPT ![r] = "started"]
    /\ UNCHANGED <<charge, reserved, consumed>>

Settle(r) ==
    /\ phase[r] \in {"reserved", "started"}
    /\ LET due == IF phase[r] = "started" THEN Units[r] ELSE 0
       IN  /\ charge' = [charge EXCEPT ![r] = due]
           /\ consumed' = consumed + due
    /\ phase' = [phase EXCEPT ![r] = "settled"]
    /\ reserved' = reserved - Units[r]

LedgerNext == \E r \in Run : Reserve(r) \/ Start(r) \/ Settle(r)

LedgerSpec == LedgerInit /\ [][LedgerNext]_ledgerVars
=============================================================================
