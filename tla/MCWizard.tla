------------------------------ MODULE MCWizard ------------------------------
(* Two machines: one with a swap target and room for the smaller size, and *)
(* one that has no target and is not supported.                            *)
EXTENDS WizardProperties

CONSTANTS t1, t2

MCProfiles ==
  {[targets |-> {t1}, supported |-> TRUE,  clash |-> {}, fits |-> {1}],
   [targets |-> {},   supported |-> FALSE, clash |-> {}, fits |-> {}]}

(* A supported machine with two targets, one of which conflicts. *)
MCTwoTargets ==
  {[targets |-> {t1, t2}, supported |-> TRUE, clash |-> {t2}, fits |-> {1}]}
=============================================================================
