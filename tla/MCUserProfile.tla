---------------------------- MODULE MCUserProfile ----------------------------
(* The users' requests are alike, and so are the values: no action tells them apart. *)
EXTENDS UserProfile

Alike == Permutations(Values) \cup Permutations(Confirmers)
=============================================================================
