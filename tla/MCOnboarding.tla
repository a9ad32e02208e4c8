---------------------------- MODULE MCOnboarding ----------------------------
(* Onboarding for TLC: callers, names, addresses, and the suppliers known   *)
(* at the start, are interchangeable.                                       *)
EXTENDS Onboarding, TLC

Symmetry ==
    Permutations(Callers) \cup Permutations(Seeded) \cup Permutations(Names) \cup Permutations(Emails)
=============================================================================
