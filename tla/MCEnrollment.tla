---------------------------- MODULE MCEnrollment ----------------------------
(* Enrollment with interchangeable workers, accounts and tracks.           *)
EXTENDS Enrollment, TLC

Symmetry ==
  Permutations(Workers) \cup Permutations(Accounts) \cup Permutations(Tracks)
=============================================================================
