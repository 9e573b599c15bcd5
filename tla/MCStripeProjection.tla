------------------------- MODULE MCStripeProjection -------------------------
(***************************************************************************)
(* Two subscriptions of one owner: the second is bought while the first    *)
(* lives, or after it.                                                     *)
(***************************************************************************)
EXTENDS StripeProjection

CONSTANTS s1, s2, owner, MaxFirst, MaxSecond

PaidBy == [s \in Subs |-> owner]
EventBounds == [s \in Subs |-> IF s = s1 THEN MaxFirst ELSE MaxSecond]
=============================================================================
