---------------------------- MODULE MCCallRelay ----------------------------
(***************************************************************************)
(* Small instances of CallRelay.  Ana has changed organization and has a   *)
(* tab open from before and one from after; Ben, in her old organization,  *)
(* has one tab; Xia is offline.                                            *)
(***************************************************************************)
EXTENDS CallRelay

CONSTANTS ana, ben, xia, a1, a2, b1, acme, globex

MCUserOf == [c \in Conns |-> IF c \in {a1, a2} THEN ana ELSE ben]
MCScopeOf ==
    [c \in Conns |-> [kind |-> "Organization", org |-> IF c = a2 THEN globex ELSE acme]]
=============================================================================
