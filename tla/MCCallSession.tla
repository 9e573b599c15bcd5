--------------------------- MODULE MCCallSession ---------------------------
(***************************************************************************)
(* Small instances of CallSession: Ana and Ben, one tab each.  A tab that  *)
(* reconnects goes on with its second connection id.                       *)
(***************************************************************************)
EXTENDS CallSession, TLC

CONSTANTS ana, ben, anasTab, bensTab, a1, b1, b2

MCUserOf == [c \in Conns |-> IF c = a1 THEN ana ELSE ben]
MCTabOf == [c \in Conns |-> IF c = a1 THEN anasTab ELSE bensTab]
MCScopeOf == [c \in Conns |-> [kind |-> "Personal", org |-> NoOrg]]

\* The connection ids of one tab are interchangeable.
BensSockets == Permutations({b1, b2})
=============================================================================
