----------------------------- MODULE MCDealDesk -----------------------------
(* Instances of the deal desk for TLC. *)
EXTENDS DealDesk, TLC

\* Businesses, courses and threads are interchangeable.
Symmetry == Permutations(Ids) \cup Permutations(Courses) \cup Permutations(Threads)
=============================================================================
