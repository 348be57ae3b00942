---------------------------- MODULE MCTurnMachine ----------------------------
(* Instances of TurnMachine for TLC.                                        *)
EXTENDS TurnMachine
=============================================================================
