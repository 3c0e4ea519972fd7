-------------------------- MODULE MCApprovalGrants --------------------------
(* Small instances of ApprovalGrants: processes and entries are model       *)
(* values, and neither the specification nor its properties tell two of     *)
(* them apart.                                                             *)
EXTENDS ApprovalGrants, TLC

CONSTANTS s1, s2, e1, e2, e3

Symmetry == Permutations(Sessions) \cup Permutations(Entries)
=============================================================================
