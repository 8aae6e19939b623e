------------------------------- MODULE MCRelay -------------------------------
(***************************************************************************)
(* Values for the constants of module Relay that a .cfg cannot write.      *)
(***************************************************************************)
EXTENDS Relay

CONSTANT f1

\* Two units each way: one fills the window, the other is in the writer's hand.
TwoUnits == [f \in {f1} |-> [app |-> 2, srv |-> 2]]

OneUnit == [f \in {f1} |-> [app |-> 1, srv |-> 1]]
=============================================================================
