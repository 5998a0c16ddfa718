------------------------------- MODULE MCStock -------------------------------
(* Small instances of Stock for TLC. *)
EXTENDS Stock, TLC

CONSTANTS steel, m1, m2, m3, r1, r2, k1, k2

Interchangeable ==
  Permutations(Movement) \cup Permutations(Reservation) \cup Permutations(Clerk)

=============================================================================
