----------------------------- MODULE MCWorkflow -----------------------------
(***************************************************************************)
(* Both workflow roots and two output contracts: enough for a plan to      *)
(* break each of the caller's requirements and for the roots to overlap.   *)
(***************************************************************************)
EXTENDS Workflow, TLC

CONSTANTS vars_, init_, block, envelope

\* Neither root and neither contract is treated differently from the other.
RequestSymmetry == Permutations(Roots) \cup Permutations(Outputs)
=============================================================================
