--------------------------- MODULE CampaignLedger ---------------------------
(***************************************************************************)
(* What a measurement campaign promises about its points, independent of   *)
(* how they are measured.                                                  *)
(*                                                                         *)
(* A run visits the points in sweep order - repetition round, then QoS     *)
(* mode, then background load - and decides each of them exactly once:     *)
(* measured, or skipped because gPTP was not locked.  A decision is never  *)
(* revised and a point is never decided before all earlier points are.     *)
(* Starting a new run opens a new, empty ledger.                           *)
(***************************************************************************)
EXTENDS Naturals

CONSTANTS
  Labels,          \* the points of one run
  Earlier(_, _)    \* Earlier(a, b): a comes before b in the sweep

VARIABLE status    \* status[l]: "pending", "measured" or "skipped"

Status == {"pending", "measured", "skipped"}

Init == status = [l \in Labels |-> "pending"]

\* The next point of the sweep is decided.
Decide(l, s) ==
  /\ status[l] = "pending"
  /\ s \in {"measured", "skipped"}
  /\ \A k \in Labels : Earlier(k, l) => status[k] # "pending"
  /\ status' = [status EXCEPT ![l] = s]

\* A new run starts with an empty result directory.
Reopen == status' = [l \in Labels |-> "pending"]

Next == (\E l \in Labels, s \in Status : Decide(l, s)) \/ Reopen

Spec == Init /\ [][Next]_status

TypeOK == status \in [Labels -> Status]

\* A decided point has only decided points before it in the sweep.
SweepOrder ==
  \A k, l \in Labels :
    Earlier(k, l) /\ status[l] # "pending" => status[k] # "pending"
=============================================================================
