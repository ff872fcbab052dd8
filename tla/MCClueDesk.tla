----------------------------- MODULE MCClueDesk -----------------------------
(* Instances of the clue desk for TLC. *)
EXTENDS ClueDesk, TLC

\* Clues, users and threads are interchangeable.
Symmetry == Permutations(Ids) \cup Permutations(Users) \cup Permutations(Threads)
=============================================================================
