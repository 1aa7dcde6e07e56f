----------------------------- MODULE MCImports -----------------------------
(***************************************************************************)
(* Instances of Imports for TLC.  Slots, requests, files and job ids are   *)
(* interchangeable.                                                        *)
(***************************************************************************)
EXTENDS Imports, TLC

Symmetry == Permutations(Jobs) \cup Permutations(Files)
              \cup Permutations(Reqs) \cup Permutations(Workers)
=============================================================================
