---------------------------- MODULE MCApWorkflow ----------------------------
(***************************************************************************)
(* Instances of ApWorkflow.  Every invoice has a fingerprint of its own,   *)
(* and all share a reference, for a corrected total changes neither vendor *)
(* nor number: two runs over one invoice are duplicates, two runs over     *)
(* different ones are not, and still compete for the same ERP reference.   *)
(***************************************************************************)
EXTENDS ApInvariants, TLC

CONSTANT TheReference

OwnFingerprint == [i \in Invoices |-> i]
SharedReference == [i \in Invoices |-> TheReference]

Interchangeable == Permutations(Runs) \cup Permutations(Drivers)
=============================================================================
