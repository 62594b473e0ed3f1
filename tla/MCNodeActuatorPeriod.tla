------------------------ MODULE MCNodeActuatorPeriod ------------------------
(***************************************************************************)
(* The instance whose requests move one limit of a container.  TLC checks  *)
(* that it meets the hypothesis of NodeActuator_proofs!WithinPeriod.       *)
(***************************************************************************)
EXTENDS MCNodeActuator

ASSUME InstancePeriodSafe == PeriodSafe
=============================================================================
