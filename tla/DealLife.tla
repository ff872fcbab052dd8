------------------------------- MODULE DealLife -------------------------------
(***************************************************************************)
(* What the deal desk promises of each deal, however its requests meet: it *)
(* is entered as a business, is then deleted or becomes a contract, and a  *)
(* contract it stays.  A conversion that has read a business makes its     *)
(* contract also when the business is deleted before it commits.           *)
(***************************************************************************)
CONSTANT Deals

VARIABLE life   \* of each deal: "new", "business", "gone" or "contract"

Moves == {<<"new", "business">>, <<"business", "contract">>,
          <<"business", "gone">>, <<"gone", "contract">>}

Init == life = [d \in Deals |-> "new"]

Move(d) ==
    \E m \in Moves : life[d] = m[1] /\ life' = [life EXCEPT ![d] = m[2]]

Next == \E d \in Deals : Move(d)

Spec == Init /\ [][Next]_life
==============================================================================
