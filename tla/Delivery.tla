------------------------------ MODULE Delivery ------------------------------
(***************************************************************************)
(* What the sync promises about a mutation, without phone, network or      *)
(* transaction: the office decides about it at most once and for good, its *)
(* effect happens with that decision or not at all, nothing is decided     *)
(* before what it depends on was accepted, and the phone is told the       *)
(* decision or nothing.  FieldSync implements it.                          *)
(***************************************************************************)
EXTENDS Naturals

CONSTANTS Mutations, DependsOn, NoMutation

VARIABLES
    decided,    \* the office's decision on a mutation
    effects,    \* how often its effect has taken place
    told        \* the decision as the phone knows it

deliveryVars == <<decided, effects, told>>

Decisions == {"accepted", "conflict", "rejected"}
Known     == Decisions \cup {"none"}

DeliveryInit ==
    /\ decided = [m \in Mutations |-> "none"]
    /\ effects = [m \in Mutations |-> 0]
    /\ told    = [m \in Mutations |-> "none"]

\* Several mutations are decided together: a batch is one transaction.
Decide ==
    /\ decided' \in [Mutations -> Known]
    /\ effects' \in [Mutations -> {0, 1}]
    /\ \A m \in Mutations :
          /\ decided[m] # "none" => decided'[m] = decided[m] /\ effects'[m] = effects[m]
          /\ effects'[m] # effects[m] =>
                effects'[m] = 1 /\ decided'[m] \in {"accepted", "conflict"}
          /\ decided'[m] # "none" /\ DependsOn[m] # NoMutation
                => decided'[DependsOn[m]] = "accepted"
    /\ UNCHANGED told

Tell ==
    /\ told' \in [Mutations -> Known]
    /\ \A m \in Mutations :
          told'[m] # told[m] => told[m] = "none" /\ told'[m] = decided[m]
    /\ UNCHANGED <<decided, effects>>

DeliverySpec == DeliveryInit /\ [][Decide \/ Tell]_deliveryVars
=============================================================================
