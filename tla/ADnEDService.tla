---------------------------- MODULE ADnEDService ----------------------------
(***************************************************************************)
(* What acquisition control promises to the software above the driver, in  *)
(* terms of DetectorState_RBV, the Start and Stop records and the pvAccess *)
(* monitors: an acquisition begins only because a start was accepted, ends *)
(* only because a stop was, no monitor runs outside one, and a start or a  *)
(* stop that was accepted is carried out.                                  *)
(*                                                                         *)
(* Two starts accepted before the first is carried out may cause one or    *)
(* two acquisitions: credit is the number still owed.                      *)
(***************************************************************************)
EXTENDS Integers

VARIABLES
  state,       \* what the driver is doing
  credit,      \* acquisitions owed for starts already accepted
  stopReq,     \* a stop was accepted and not yet begun
  monitoring   \* some monitor is running

serviceVars == <<state, credit, stopReq, monitoring>>

States == {"Idle", "Error", "Starting", "Acquire", "Stopping"}

Ready == state \in {"Idle", "Error"}

Init ==
  /\ state = "Idle"
  /\ credit = 0
  /\ stopReq = FALSE
  /\ monitoring = FALSE

RequestStart ==
  /\ Ready
  /\ credit' \in {credit, credit + 1} \cap (1 .. 2)
  /\ UNCHANGED <<state, stopReq, monitoring>>

BeginStart ==
  /\ Ready /\ credit > 0
  /\ credit' = credit - 1
  /\ state' = "Starting"
  /\ UNCHANGED <<stopReq, monitoring>>

StartOk ==
  /\ state = "Starting"
  /\ state' = "Acquire"
  /\ monitoring' \in BOOLEAN
  /\ UNCHANGED <<credit, stopReq>>

StartFails ==
  /\ state = "Starting"
  /\ state' = "Error"
  /\ UNCHANGED <<credit, stopReq, monitoring>>

RequestStop ==
  /\ state = "Acquire"
  /\ stopReq' = TRUE
  /\ UNCHANGED <<state, credit, monitoring>>

BeginStop ==
  /\ state = "Acquire" /\ stopReq
  /\ state' = "Stopping"
  /\ stopReq' = FALSE
  /\ monitoring' = FALSE
  /\ UNCHANGED credit

EndStop ==
  /\ state = "Stopping"
  /\ state' = "Idle"
  /\ UNCHANGED <<credit, stopReq, monitoring>>

\* AllocSpace failed.
ConfigError ==
  /\ Ready
  /\ state' = "Error"
  /\ UNCHANGED <<credit, stopReq, monitoring>>

Next ==
  \/ RequestStart \/ BeginStart \/ StartOk \/ StartFails
  \/ RequestStop \/ BeginStop \/ EndStop \/ ConfigError

SafetySpec == Init /\ [][Next]_serviceVars

Fairness ==
  /\ WF_serviceVars(BeginStart)
  /\ WF_serviceVars(StartOk \/ StartFails)
  /\ WF_serviceVars(BeginStop)
  /\ WF_serviceVars(EndStop)

Spec == SafetySpec /\ Fairness
=============================================================================
