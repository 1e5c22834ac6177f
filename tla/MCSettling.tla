----------------------------- MODULE MCSettling -----------------------------
(***************************************************************************)
(* What must come to an end: a run that was created (RunExecution), and    *)
(* the delivery of a release decision to GitHub (CheckDelivery).  They     *)
(* share no state; part says which of them a behaviour is about, and what  *)
(* fairness asks of the other one is never enabled.                        *)
(***************************************************************************)
EXTENDS MCRunExecution

CONSTANTS p1, Nobody

VARIABLES part, row, lock, asked, pc, late, checks, installs, active, refreshes

checkVars == <<row, lock, asked, pc, late, checks, installs, active, refreshes>>

\* Two releases of a repository.
Checks == INSTANCE CheckDelivery WITH
    Releases <- {1, 2}, Reconciler <- {p1}, MaxAttempts <- 2, Poll <- 1,
    MaxInstalls <- 1, MaxRefresh <- 1
DeliverySettles == Checks!DeliverySettles

Running == part = "runs" /\ UNCHANGED <<part, checkVars>> /\ Next
Delivering == part = "checks" /\ UNCHANGED <<part, vars>> /\ Checks!DeliveryNext

SettlingInit == part \in {"runs", "checks"} /\ Init /\ Checks!DeliveryInit
SettlingSpec ==
    /\ SettlingInit /\ [][Running \/ Delivering]_<<part, vars, checkVars>>
    /\ Fairness /\ Checks!DeliveryFairness
=============================================================================
