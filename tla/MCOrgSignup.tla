---------------------------- MODULE MCOrgSignup ----------------------------
(***************************************************************************)
(* Two signups: of two founders for the same name, or of one founder.      *)
(***************************************************************************)
EXTENDS OrgSignup, TLC

CONSTANTS p1, p2, u1, u2, n1

Rivals == p1 :> u1 @@ p2 :> u2
SameName == [p \in Signups |-> n1]
=============================================================================
