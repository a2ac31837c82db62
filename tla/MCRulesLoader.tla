--------------------------- MODULE MCRulesLoader ---------------------------
(***************************************************************************)
(* Instances of RulesLoader for TLC.  Libraries and workers are model      *)
(* values that the specification treats alike.                             *)
(***************************************************************************)
EXTENDS RulesLoader, TLC

Symmetry == Permutations(Libs) \cup Permutations(Workers)
=============================================================================
