----------------------------- MODULE MCProfiles -----------------------------
(* An instance of Profiles for TLC: two subscriptions, two downloads at a  *)
(* time, of the same or of different ones, and two profiles, of which none *)
(* to both may be owned.                                                   *)
EXTENDS Profiles

Symmetry == Permutations(Subs)
=============================================================================
