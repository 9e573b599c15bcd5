--------------------------- MODULE OrgSignupProofs ---------------------------
(***************************************************************************)
(* OrgSignup for any founders, signups, names and finalizers: a signup     *)
(* founds at most one organization, and nobody is moved out of theirs.     *)
(***************************************************************************)
EXTENDS OrgSignup, TLAPS

\* Once founded, a signup is never pending again, whichever of the two finalizers
\* comes second, and even when a refused one marks it as failed without the lock.
Unfounded == \A p \in Signups : signup[p] \in {"none", "pending"} => founded[p] = 0

Inv == TypeOK /\ Unfounded /\ FoundedOnce

LEMMA AnySignupType == AnySignup \in Signups
BY SomeSignup DEF AnySignup

LEMMA InitInv == Init => Inv
BY AnySignupType DEF Init, Inv, TypeOK, Unfounded, FoundedOnce, Homes, Stages

\* What a finalizer is at.
LEMMA MovesType ==
    ASSUME TypeOK, NEW f \in Finalizers,
           \/ Return(f)
           \/ \E stage \in Stages : GoOn(f, stage)
           \/ UNCHANGED <<pc, job>>
    PROVE  pc' \in [Finalizers -> Stages] /\ job' \in [Finalizers -> Signups]
BY AnySignupType DEF TypeOK, Return, GoOn, Stages

\* The steps that leave the database to itself.
LEMMA OutsideInv ==
    ASSUME Inv, UNCHANGED database,
           charge' \in [Signups -> {"none", "incomplete", "active", "canceled"}],
           event' \in [Signups -> SUBSET {"active", "canceled"}],
           taken' \in SUBSET Names,
           removal' \in [Signups -> {"none", "stopping", "removing"}],
           pc' \in [Finalizers -> Stages], job' \in [Finalizers -> Signups],
           faults' \in Nat, edits' \in Nat
    PROVE  Inv'
BY DEF Inv, TypeOK, Unfounded, FoundedOnce, database

LEMMA FounderInv ==
    ASSUME Inv, NEW p \in Signups, Start(p) \/ InsertSignup(p) \/ Pay(p)
    PROVE  Inv'
<1> USE DEF Inv
<1>1. CASE Start(p)
  <2>1. charge' \in [Signups -> {"none", "incomplete", "active", "canceled"}]
    BY <1>1 DEF Start, TypeOK
  <2> QED  BY <1>1, <2>1, OutsideInv DEF Start, TypeOK
<1>2. CASE InsertSignup(p)
  <2>1. signup' \in [Signups -> {"none", "pending", "finalized", "failed"}]
    BY <1>2 DEF InsertSignup, TypeOK
  <2>2. UNCHANGED <<charge, event, orgs, taken, home, row, pc, job, founded, faults, edits, removal>>
    BY <1>2 DEF InsertSignup
  <2>3. Unfounded'
    BY <1>2, <2>2 DEF InsertSignup, Unfounded, TypeOK
  <2> QED  BY <2>1, <2>2, <2>3 DEF TypeOK, FoundedOnce
<1>3. CASE Pay(p)
  <2>1. /\ charge' \in [Signups -> {"none", "incomplete", "active", "canceled"}]
        /\ event' \in [Signups -> SUBSET {"active", "canceled"}]
    BY <1>3 DEF Pay, TypeOK
  <2> QED  BY <1>3, <2>1, OutsideInv DEF Pay, TypeOK
<1> QED  BY <1>1, <1>2, <1>3

\* A deletion takes its time between the read, Stripe and the transaction.
LEMMA RemovalInv ==
    ASSUME Inv, NEW p \in Signups,
           RequestRemoval(p) \/ StopCharge(p) \/ RemoveOrg(p) \/ AbandonRemoval(p)
    PROVE  Inv'
<1> USE DEF Inv
<1>r. removal' \in [Signups -> {"none", "stopping", "removing"}]
  BY DEF RequestRemoval, StopCharge, RemoveOrg, AbandonRemoval, TypeOK
<1>1. CASE RequestRemoval(p)
  <2>1. edits' \in Nat  BY <1>1 DEF RequestRemoval, TypeOK
  <2> QED  BY <1>1, <1>r, <2>1, OutsideInv DEF RequestRemoval, TypeOK
<1>2. CASE StopCharge(p)
  <2>1. /\ charge' \in [Signups -> {"none", "incomplete", "active", "canceled"}]
        /\ event' \in [Signups -> SUBSET {"active", "canceled"}]
    BY <1>2 DEF StopCharge, TypeOK
  <2> QED  BY <1>2, <1>r, <2>1, OutsideInv DEF StopCharge, TypeOK
<1>3. CASE RemoveOrg(p)
  <2>1. /\ orgs' \in SUBSET Signups
        /\ row' \in [Signups -> {"absent", "active", "canceled"}]
    BY <1>3 DEF RemoveOrg, TypeOK
  <2>2. home' \in [Founders -> Homes]
    BY <1>3, SignupTypes DEF RemoveOrg, TypeOK, Homes
  <2>3. UNCHANGED <<signup, charge, event, taken, pc, job, founded, faults, edits>>
    BY <1>3 DEF RemoveOrg
  <2> QED  BY <1>r, <2>1, <2>2, <2>3 DEF TypeOK, Unfounded, FoundedOnce
<1>4. CASE AbandonRemoval(p)
  <2>1. faults' \in Nat  BY <1>4 DEF AbandonRemoval, TypeOK
  <2> QED  BY <1>4, <1>r, <2>1, OutsideInv DEF AbandonRemoval, TypeOK
<1> QED  BY <1>1, <1>2, <1>3, <1>4

LEMMA InterfereInv == Inv /\ Interfere => Inv'
<1> SUFFICES ASSUME Inv, Interfere PROVE Inv'  OBVIOUS
<1>1. taken' \in SUBSET Names /\ edits' \in Nat
  BY DEF Interfere, Inv, TypeOK
<1>2. home' \in [Founders -> Homes]
  BY DEF Interfere, Inv, TypeOK, Homes
<1> QED  BY <1>1, <1>2 DEF Interfere, Inv, TypeOK, Unfounded, FoundedOnce

LEMMA ReceiveInv ==
    ASSUME Inv, NEW h \in Hooks, NEW p \in Signups, Receive(h, p)
    PROVE  Inv'
<1> USE DEF Inv
<1>f. h \in Finalizers  BY DEF Finalizers
<1>1. PICK e \in {"active", "canceled"} : HookUpdates(h, p, e) \/ HookFinalizes(h, p, e)
  BY DEF Receive
<1>2. event' \in [Signups -> SUBSET {"active", "canceled"}]
  BY <1>1 DEF HookUpdates, HookFinalizes, Acknowledge, TypeOK
<1>3. CASE HookUpdates(h, p, e)
  <2>1. row' \in [Signups -> {"absent", "active", "canceled"}]
    BY <1>3 DEF HookUpdates, TypeOK
  <2> QED  BY <1>2, <1>3, <2>1 DEF HookUpdates, TypeOK, Unfounded, FoundedOnce
<1>4. CASE HookFinalizes(h, p, e)
  <2>1. pc' \in [Finalizers -> Stages] /\ job' \in [Finalizers -> Signups]
    BY <1>4 DEF HookFinalizes, TypeOK, Stages
  <2> QED  BY <1>2, <1>4, <2>1, OutsideInv DEF HookFinalizes, TypeOK
<1> QED  BY <1>1, <1>3, <1>4

\* The transaction: the status under the lock is what keeps it to one organization.
LEMMA FinalizeInv ==
    ASSUME Inv, NEW f \in Finalizers, Finalize(f)
    PROVE  Inv'
<1> USE DEF Inv
<1>p. job[f] \in Signups  BY DEF TypeOK
<1>1. pc' \in [Finalizers -> Stages] /\ job' \in [Finalizers -> Signups]
  BY MovesType DEF Finalize, Stages
<1>2. UNCHANGED <<charge, event, taken, faults, edits, removal>>
  BY DEF Finalize
<1>3. CASE UNCHANGED database
  BY <1>1, <1>2, <1>3, OutsideInv DEF TypeOK
<1>4. CASE signup[job[f]] = "pending" /\ Found(job[f])
  <2>1. founded[job[f]] = 0  BY <1>4, <1>p DEF Unfounded
  <2>2. /\ orgs' \in SUBSET Signups
        /\ row' \in [Signups -> {"absent", "active", "canceled"}]
        /\ signup' \in [Signups -> {"none", "pending", "finalized", "failed"}]
    BY <1>4, <1>p DEF Found, TypeOK
  <2>3. home' \in [Founders -> Homes]
    BY <1>4, <1>p DEF Found, TypeOK, Homes
  <2>4. founded' = [founded EXCEPT ![job[f]] = 1] /\ founded' \in [Signups -> Nat]
    BY <1>4, <1>p, <2>1 DEF Found, TypeOK
  <2>5. Unfounded' /\ FoundedOnce'
    BY <1>4, <1>p, <2>4 DEF Found, Unfounded, FoundedOnce, TypeOK
  <2> QED  BY <1>1, <1>2, <2>2, <2>3, <2>4, <2>5 DEF TypeOK
<1> QED  BY <1>3, <1>4 DEF Finalize

LEMMA ProceedInv ==
    ASSUME Inv, NEW f \in Finalizers, Proceed(f) \/ Abort(f)
    PROVE  Inv'
<1> USE DEF Inv
<1>p. job[f] \in Signups  BY DEF TypeOK
<1>1. CASE CheckPaid(f)
  BY <1>1, MovesType, OutsideInv DEF CheckPaid, Stages, TypeOK
<1>2. CASE Finalize(f)
  BY <1>2, FinalizeInv
<1>3. CASE MarkFailed(f)
  <2>1. signup' = [signup EXCEPT ![job[f]] = "failed"]
    BY <1>3 DEF MarkFailed
  <2>2. signup' \in [Signups -> {"none", "pending", "finalized", "failed"}]
    BY <2>1 DEF TypeOK
  <2>3. pc' \in [Finalizers -> Stages] /\ job' \in [Finalizers -> Signups]
    BY <1>3, MovesType DEF MarkFailed, Stages
  <2>4. UNCHANGED <<charge, event, orgs, taken, home, row, founded, faults, edits, removal>>
    BY <1>3 DEF MarkFailed
  <2>5. Unfounded' /\ FoundedOnce'
    BY <1>p, <2>1, <2>4 DEF Unfounded, FoundedOnce, TypeOK
  <2> QED  BY <2>2, <2>3, <2>4, <2>5 DEF TypeOK
<1>4. CASE Answer(f)
  <2>1. event' \in [Signups -> SUBSET {"active", "canceled"}]
    BY <1>4, <1>p DEF Answer, Acknowledge, TypeOK
  <2> QED  BY <1>4, <2>1, MovesType, OutsideInv DEF Answer, TypeOK
<1>5. CASE CancelCharge(f)
  <2>1. event' \in [Signups -> SUBSET {"active", "canceled"}]
    <3>1. event[job[f]] \in SUBSET {"active", "canceled"}  BY <1>p DEF TypeOK
    <3>2. (IF f \in Hooks THEN event[job[f]] \ {"active"} ELSE event[job[f]])
             \cup {"canceled"} \in SUBSET {"active", "canceled"}
      BY <3>1
    <3> QED  BY <1>5, <1>p, <3>2 DEF CancelCharge, TypeOK
  <2>2. charge' \in [Signups -> {"none", "incomplete", "active", "canceled"}]
    BY <1>5, <1>p DEF CancelCharge, TypeOK
  <2> QED  BY <1>5, <2>1, <2>2, MovesType, OutsideInv DEF CancelCharge, TypeOK
<1>6. CASE CancelFails(f)
  <2>1. faults' \in Nat  BY <1>6 DEF CancelFails, TypeOK
  <2> QED  BY <1>6, <2>1, MovesType, OutsideInv DEF CancelFails, TypeOK
<1>7. CASE Abort(f)
  <2>1. faults' \in Nat  BY <1>7 DEF Abort, TypeOK
  <2> QED  BY <1>7, <2>1, MovesType, OutsideInv DEF Abort, TypeOK
<1> QED  BY <1>1, <1>2, <1>3, <1>4, <1>5, <1>6, <1>7 DEF Proceed

LEMMA ConfirmInv ==
    ASSUME Inv, NEW c \in Clients, NEW p \in Signups, Confirm(c, p)
    PROVE  Inv'
<1>1. c \in Finalizers  BY DEF Finalizers
<1>2. pc' \in [Finalizers -> Stages] /\ job' \in [Finalizers -> Signups]
  BY <1>1 DEF Confirm, Inv, TypeOK, Stages
<1> QED  BY <1>2, OutsideInv DEF Confirm, Inv, TypeOK

-----------------------------------------------------------------------------
(* Theorems *)

\* The inductive invariant behind the other theorems.
THEOREM Invariance == Spec => []Inv
<1>1. Inv /\ [Next]_vars => Inv'
  <2> SUFFICES ASSUME Inv, [Next]_vars PROVE Inv'  OBVIOUS
  <2>1. CASE UNCHANGED vars
    BY <2>1 DEF vars, Inv, TypeOK, Unfounded, FoundedOnce
  <2> QED  BY <2>1, FounderInv, RemovalInv, InterfereInv, ConfirmInv, ReceiveInv, ProceedInv DEF Next
<1> QED  BY <1>1, InitInv, PTL DEF Spec

\* The statuses, organizations and finalizers keep their types.
THEOREM TypeCorrect == Spec => []TypeOK
<1>1. Inv => TypeOK  BY DEF Inv
<1> QED  BY <1>1, Invariance, PTL

\* init.sql:2309-2310 and finalize_org_signup_inner: the status and the row lock keep
\* every signup to one organization, for any number of confirms and webhooks.
THEOREM OneOrganization == Spec => []FoundedOnce
<1>1. Inv => FoundedOnce  BY DEF Inv
<1> QED  BY <1>1, Invariance, PTL

\* lock_if_personal: no step takes a user from one organization into another.
THEOREM NobodyMoved == Spec => NeverMovedOut
<1> DEFINE Stays == \A u \in Founders : home[u] # Personal => home'[u] \in {home[u], Personal}
<1>1. TypeOK /\ [Next]_vars => [Stays]_vars
  <2> SUFFICES ASSUME TypeOK, Next PROVE Stays  BY Zenon
  <2>1. CASE home' = home
    BY <2>1
  <2>2. ASSUME NEW p \in Signups, RemoveOrg(p) PROVE Stays
    BY <2>2 DEF RemoveOrg, TypeOK
  <2>3. CASE Interfere
    BY <2>3 DEF Interfere, TypeOK
  <2>4. ASSUME NEW f \in Finalizers, Finalize(f) PROVE Stays
    <3>1. home' = home \/ (MayFound(job[f]) /\ home' = [home EXCEPT ![FounderOf[job[f]]] = job[f]])
      BY <2>4 DEF Finalize, Found, database
    <3> QED  BY <3>1 DEF MayFound, TypeOK
  <2>5. ASSUME NEW p \in Signups, Start(p) \/ InsertSignup(p) \/ Pay(p) PROVE home' = home
    BY <2>5 DEF Start, InsertSignup, Pay, database
  <2>9. ASSUME NEW p \in Signups, RequestRemoval(p) \/ StopCharge(p) \/ AbandonRemoval(p)
        PROVE  home' = home
    BY <2>9 DEF RequestRemoval, StopCharge, AbandonRemoval, database
  <2>6. ASSUME NEW c \in Clients, NEW p \in Signups, Confirm(c, p) PROVE home' = home
    BY <2>6 DEF Confirm, database
  <2>7. ASSUME NEW h \in Hooks, NEW p \in Signups, Receive(h, p) PROVE home' = home
    BY <2>7 DEF Receive, HookUpdates, HookFinalizes, database
  <2>8. ASSUME NEW f \in Finalizers, Proceed(f) \/ Abort(f), ~Finalize(f) PROVE home' = home
    BY <2>8 DEF Proceed, CheckPaid, MarkFailed, Answer, CancelCharge, CancelFails, Abort,
                database
  <2> QED  BY <2>1, <2>2, <2>3, <2>4, <2>5, <2>6, <2>7, <2>8, <2>9 DEF Next
<1> QED  BY <1>1, TypeCorrect, PTL DEF Spec, NeverMovedOut
=============================================================================
