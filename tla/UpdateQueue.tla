---------------------------- MODULE UpdateQueue ----------------------------
(***************************************************************************)
(* What the update scheduler of the pages promises (vue.js, "Flush both    *)
(* queues and run the watchers"): a watcher that has been told of a change *)
(* is due, once however often it is told; a flush takes the due watchers   *)
(* from the oldest to the youngest, those that become due while it runs    *)
(* included, and ends when none is due or when it gives up on an endless   *)
(* update.  How the queue is kept is left open.                            *)
(***************************************************************************)
EXTENDS Naturals

CONSTANT Watcher   \* the watchers, naturals in the order they are made

VARIABLES
    due,     \* the watchers told of a change and not taken since
    busy     \* a flush is under way

Init == due = {} /\ busy = FALSE

Update(w) == due' = due \cup {w} /\ UNCHANGED busy

Start == ~ busy /\ busy' = TRUE /\ UNCHANGED due

Take(w) ==
    /\ busy
    /\ w \in due
    /\ \A v \in due : w <= v
    /\ due' = due \ {w}
    /\ UNCHANGED busy

\* due is empty, or the flush gives up.
End == busy /\ busy' = FALSE /\ due' = {}

Next == (\E w \in Watcher : Update(w) \/ Take(w)) \/ Start \/ End

Spec == Init /\ [][Next]_<<due, busy>>
=============================================================================
