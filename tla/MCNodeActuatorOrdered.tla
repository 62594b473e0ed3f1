----------------------- MODULE MCNodeActuatorOrdered -----------------------
(***************************************************************************)
(* The instance whose requests the write order is right for.  TLC checks   *)
(* that they meet the hypothesis of the theorem NodeActuator_proofs!Nested.*)
(***************************************************************************)
EXTENDS MCNodeActuator

ASSUME RequestsOrderSafe == OrderSafe
=============================================================================
