---------------------------- MODULE MCPresence ----------------------------
(***************************************************************************)
(* Two tabs, on two instances or on one.                                   *)
(***************************************************************************)
EXTENDS Presence, TLC

CONSTANTS t1, t2, i1, i2

Apart == t1 :> i1 @@ t2 :> i2
=============================================================================
