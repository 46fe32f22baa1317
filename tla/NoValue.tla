-------------------------------- MODULE NoValue --------------------------------
(***************************************************************************)
(* What stands for no value, no node and nobody in the models of the parts *)
(* that are extended together, by MCParts for TLC and by PartsProofs.      *)
(***************************************************************************)

CONSTANT None

================================================================================
