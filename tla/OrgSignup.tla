------------------------------ MODULE OrgSignup ------------------------------
(***************************************************************************)
(* The paid upgrade of a personal account to an organization               *)
(* (billing/organization_upgrade.rs, routes/user/organizations.rs, and the *)
(* org_pending branch of billing/webhook_handler.rs).  The founder pays a  *)
(* subscription before the organization exists; then the founder's browser *)
(* and Stripe's webhook both try to create it.                             *)
(*                                                                         *)
(* A transaction is one action, since it locks the row of the signup and   *)
(* then the founder's.  Requests to Stripe and statements outside of the   *)
(* transaction are actions of their own.  The organization of a signup is  *)
(* named by the signup.                                                    *)
(***************************************************************************)
EXTENDS Naturals

CONSTANTS
    Signups,       \* rows of pending_org_signups
    Founders,
    FounderOf,
    Names,
    NameOf,        \* the name a signup asks for; nothing reserves it
    Clients,       \* confirm requests handled at the same time
    Hooks,         \* webhook deliveries handled at the same time
    Personal,      \* users.organization_id IS NULL
    Elsewhere,     \* a member of an organization somebody else founded
    MaxFaults,     \* bound on crashes and failed requests to Stripe
    MaxEdits       \* bound on what others do to names and members

ASSUME SomeSignup == Signups # {}
ASSUME SignupTypes == FounderOf \in [Signups -> Founders] /\ NameOf \in [Signups -> Names]
ASSUME HomesDistinct == {Personal, Elsewhere} \cap Signups = {} /\ Personal # Elsewhere
ASSUME ActorsDistinct == Clients \cap Hooks = {}
ASSUME BoundsType == MaxFaults \in Nat /\ MaxEdits \in Nat

Finalizers == Clients \cup Hooks
Homes == Signups \cup {Personal, Elsewhere}
Stages == {"idle", "confirming", "paid", "refused", "unfounded", "founded"}

VARIABLES
    signup,    \* pending_org_signups.status, "none" before the INSERT
    charge,    \* the subscription of a signup at Stripe
    event,     \* the subscription events Stripe has no 200 for
    orgs,      \* the signups whose organization exists
    taken,     \* names of other organizations
    home,      \* users.organization_id
    row,       \* subscriptions.status of a founded organization
    removal,   \* how far the request to delete an organization is
    pc, job,   \* how far a finalizer is, and with which signup
    founded,   \* ghost: how often the organization of a signup was created
    faults, edits

vars == <<signup, charge, event, orgs, taken, home, row, removal, pc, job, founded, faults, edits>>
database == <<signup, orgs, home, row, founded>>

NameFree(n) == n \notin taken /\ \A q \in orgs : NameOf[q] # n
AnySignup == CHOOSE p \in Signups : TRUE
Return(f) == pc' = [pc EXCEPT ![f] = "idle"] /\ job' = [job EXCEPT ![f] = AnySignup]
GoOn(f, stage) == pc' = [pc EXCEPT ![f] = stage] /\ UNCHANGED job

-----------------------------------------------------------------------------
(* The founder *)

\* start_organization_upgrade: the checks, and the subscription at Stripe.  A founder
\* who pays a personal plan is answered 409 until they end it; the founders here have
\* none, and the comped plan that a deletion leaves them does not count as one.
Start(p) ==
    /\ charge[p] = "none"
    /\ home[FounderOf[p]] = Personal /\ NameFree(NameOf[p])
    /\ charge' = [charge EXCEPT ![p] = "incomplete"]
    /\ UNCHANGED <<database, event, taken, pc, job, faults, edits, removal>>

\* The INSERT that follows, after which the client gets the means to pay.
InsertSignup(p) ==
    /\ charge[p] = "incomplete" /\ signup[p] = "none"
    /\ signup' = [signup EXCEPT ![p] = "pending"]
    /\ UNCHANGED <<charge, event, orgs, taken, home, row, pc, job, founded, faults, edits, removal>>

Pay(p) ==
    /\ charge[p] = "incomplete" /\ signup[p] # "none"
    /\ charge' = [charge EXCEPT ![p] = "active"]
    /\ event' = [event EXCEPT ![p] = @ \cup {"active"}]
    /\ UNCHANGED <<database, taken, pc, job, faults, edits, removal>>

\* delete_my_organization reads the subscription.  A founder who has not set it to
\* end at the period's end is answered 409, which changes nothing: RequestRemoval is
\* the request of one who has.  An organization has one such request at a time, as
\* the DELETE of a second one finds no row and is rolled back.
RequestRemoval(p) ==
    /\ edits < MaxEdits /\ edits' = edits + 1
    /\ removal[p] = "none" /\ p \in orgs /\ home[FounderOf[p]] = p
    /\ removal' = [removal EXCEPT ![p] = IF row[p] = "active" THEN "stopping" ELSE "removing"]
    /\ UNCHANGED <<database, charge, event, taken, pc, job, faults>>

\* cancel_now, before anything is deleted.
StopCharge(p) ==
    /\ removal[p] = "stopping" /\ charge[p] = "active"
    /\ charge' = [charge EXCEPT ![p] = "canceled"]
    /\ event' = [event EXCEPT ![p] = @ \cup {"canceled"}]
    /\ removal' = [removal EXCEPT ![p] = "removing"]
    /\ UNCHANGED <<database, taken, pc, job, faults, edits>>

\* The transaction: the organization goes with its subscription, and the founder is
\* personal again.
RemoveOrg(p) ==
    /\ removal[p] = "removing"
    /\ orgs' = orgs \ {p}
    /\ home' = [home EXCEPT ![FounderOf[p]] = Personal]
    /\ row' = [row EXCEPT ![p] = "absent"]
    /\ removal' = [removal EXCEPT ![p] = "none"]
    /\ UNCHANGED <<signup, charge, event, taken, pc, job, founded, faults, edits>>

\* cancel_now fails, always when the charge has ended, and the answer is a 502; or
\* the request is cut short.
AbandonRemoval(p) ==
    /\ removal[p] # "none"
    /\ \/ removal[p] = "stopping" /\ charge[p] # "active" /\ UNCHANGED faults
       \/ faults < MaxFaults /\ faults' = faults + 1
    /\ removal' = [removal EXCEPT ![p] = "none"]
    /\ UNCHANGED <<database, charge, event, taken, pc, job, edits>>

\* Others found organizations under a name, and delete them again; a founder
\* accepts an invitation, and is removed again.
Interfere ==
    /\ edits < MaxEdits /\ edits' = edits + 1
    /\ \/ \E n \in Names : NameFree(n) /\ taken' = taken \cup {n} /\ UNCHANGED home
       \/ \E n \in taken : taken' = taken \ {n} /\ UNCHANGED home
       \/ \E u \in Founders : /\ \/ home[u] = Personal /\ home' = [home EXCEPT ![u] = Elsewhere]
                                 \/ home[u] = Elsewhere /\ home' = [home EXCEPT ![u] = Personal]
                              /\ UNCHANGED taken
    /\ UNCHANGED <<signup, charge, event, orgs, row, pc, job, founded, faults, removal>>

-----------------------------------------------------------------------------
(* The two finalizers *)

\* finalize_organization_upgrade reads the signup; one that is finalized or
\* failed is answered at once.
Confirm(c, p) ==
    /\ pc[c] = "idle" /\ signup[p] = "pending"
    /\ pc' = [pc EXCEPT ![c] = "confirming"] /\ job' = [job EXCEPT ![c] = p]
    /\ UNCHANGED <<database, charge, event, taken, faults, edits, removal>>

\* It asks Stripe whether the charge is paid; "not yet" is answered 202.
CheckPaid(c) ==
    /\ pc[c] = "confirming"
    /\ \/ charge[job[c]] = "active" /\ GoOn(c, "paid")
       \/ charge[job[c]] # "active" /\ Return(c)
    /\ UNCHANGED <<database, charge, event, taken, faults, edits, removal>>

Acknowledge(p, e) == event' = [event EXCEPT ![p] = @ \ {e}]

\* handle_subscription_event: the UPDATE of a row that is there settles it.
HookUpdates(h, p, e) ==
    /\ pc[h] = "idle" /\ e \in event[p] /\ row[p] # "absent"
    /\ row' = [row EXCEPT ![p] = e]
    /\ Acknowledge(p, e)
    /\ UNCHANGED <<signup, charge, orgs, taken, home, pc, job, founded, faults, edits, removal>>

\* No row: a paid subscription is finalized, any other event is dropped.
HookFinalizes(h, p, e) ==
    /\ pc[h] = "idle" /\ e \in event[p] /\ row[p] = "absent"
    /\ \/ /\ e = "active"
          /\ pc' = [pc EXCEPT ![h] = "paid"] /\ job' = [job EXCEPT ![h] = p]
          /\ UNCHANGED event
       \/ e # "active" /\ Acknowledge(p, e) /\ UNCHANGED <<pc, job>>
    /\ UNCHANGED <<database, charge, taken, faults, edits, removal>>

\* Seeded fault: lock_if_personal is not asked.
MayFoundAnyone(p) == NameFree(NameOf[p])

\* lock_if_personal, and the unique name of the INSERT.
MayFound(p) == home[FounderOf[p]] = Personal /\ NameFree(NameOf[p])

\* create_org_for_user, the subscription's row and the signup's, committed.
Found(p) ==
    /\ orgs' = orgs \cup {p}
    /\ home' = [home EXCEPT ![FounderOf[p]] = p]
    /\ row' = [row EXCEPT ![p] = "active"]
    /\ signup' = [signup EXCEPT ![p] = "finalized"]
    /\ founded' = [founded EXCEPT ![p] = @ + 1]

\* Seeded fault: the status under the lock is not looked at.
FinalizeWhateverStatus(f) ==
    /\ pc[f] = "paid"
    /\ LET p == job[f] IN
         \/ MayFound(p) /\ Found(p) /\ GoOn(f, "founded")
         \/ ~MayFound(p) /\ GoOn(f, "refused") /\ UNCHANGED database
    /\ UNCHANGED <<charge, event, taken, faults, edits, removal>>

\* The transaction of finalize_org_signup_inner.  A finalized signup whose
\* organization was deleted has no id to return, as if none had been founded.
Finalize(f) ==
    /\ pc[f] = "paid"
    /\ LET p == job[f] IN
         \/ /\ signup[p] = "pending" /\ MayFound(p)
            /\ Found(p) /\ GoOn(f, "founded")
         \/ /\ signup[p] = "pending" /\ ~MayFound(p)
            /\ GoOn(f, "refused") /\ UNCHANGED database
         \/ /\ signup[p] = "finalized" /\ p \in orgs
            /\ GoOn(f, "founded") /\ UNCHANGED database
         \/ /\ signup[p] \in {"none", "failed"} \/ (signup[p] = "finalized" /\ p \notin orgs)
            /\ GoOn(f, "unfounded") /\ UNCHANGED database
    /\ UNCHANGED <<charge, event, taken, faults, edits, removal>>

\* Seeded fault: a status the column does not know.
MarkRefused(f) ==
    /\ pc[f] = "refused"
    /\ signup' = [signup EXCEPT ![job[f]] = "refused"]
    /\ GoOn(f, "unfounded")
    /\ UNCHANGED <<charge, event, orgs, taken, home, row, founded, faults, edits, removal>>

\* After the rollback, an UPDATE of its own, without the lock.
MarkFailed(f) ==
    /\ pc[f] = "refused"
    /\ signup' = [signup EXCEPT ![job[f]] = "failed"]
    /\ GoOn(f, "unfounded")
    /\ UNCHANGED <<charge, event, orgs, taken, home, row, founded, faults, edits, removal>>

Answer(f) ==
    /\ pc[f] = "founded"
    /\ IF f \in Hooks THEN Acknowledge(job[f], "active") ELSE UNCHANGED event
    /\ Return(f)
    /\ UNCHANGED <<database, charge, taken, faults, edits, removal>>

\* Seeded fault: the webhook gives the same answer without stopping the charge.
CancelChargeNever(f) ==
    /\ pc[f] = "unfounded"
    /\ IF f \in Hooks THEN Acknowledge(job[f], "active") ELSE UNCHANGED event
    /\ Return(f)
    /\ UNCHANGED <<database, charge, taken, faults, edits, removal>>

\* cancel_now, and the answer.
CancelCharge(f) ==
    /\ pc[f] = "unfounded" /\ charge[job[f]] = "active"
    /\ charge' = [charge EXCEPT ![job[f]] = "canceled"]
    /\ event' = [event EXCEPT ![job[f]] =
                   (IF f \in Hooks THEN @ \ {"active"} ELSE @) \cup {"canceled"}]
    /\ Return(f)
    /\ UNCHANGED <<database, taken, faults, edits, removal>>

\* cancel_now fails, always when the charge has ended: the client's request is
\* answered all the same, the webhook's is a 500 and will be repeated.
CancelFails(f) ==
    /\ pc[f] = "unfounded"
    /\ \/ charge[job[f]] # "active" /\ UNCHANGED faults
       \/ charge[job[f]] = "active" /\ faults < MaxFaults /\ faults' = faults + 1
    /\ Return(f)
    /\ UNCHANGED <<database, charge, event, taken, edits, removal>>

Abort(f) ==
    /\ pc[f] # "idle" /\ faults < MaxFaults /\ faults' = faults + 1
    /\ Return(f)
    /\ UNCHANGED <<database, charge, event, taken, edits, removal>>

-----------------------------------------------------------------------------

Init ==
    /\ signup = [p \in Signups |-> "none"]
    /\ charge = [p \in Signups |-> "none"]
    /\ event = [p \in Signups |-> {}]
    /\ orgs = {} /\ taken = {}
    /\ home = [u \in Founders |-> Personal]
    /\ row = [p \in Signups |-> "absent"]
    /\ removal = [p \in Signups |-> "none"]
    /\ pc = [f \in Finalizers |-> "idle"]
    /\ job = [f \in Finalizers |-> AnySignup]
    /\ founded = [p \in Signups |-> 0]
    /\ faults = 0 /\ edits = 0

Receive(h, p) ==
    \E e \in {"active", "canceled"} : HookUpdates(h, p, e) \/ HookFinalizes(h, p, e)

Proceed(f) ==
    \/ CheckPaid(f) \/ Finalize(f) \/ MarkFailed(f) \/ Answer(f)
    \/ CancelCharge(f) \/ CancelFails(f)

Next ==
    \/ \E p \in Signups : Start(p) \/ InsertSignup(p) \/ Pay(p)
    \/ \E p \in Signups : RequestRemoval(p) \/ StopCharge(p) \/ RemoveOrg(p) \/ AbandonRemoval(p)
    \/ Interfere
    \/ \E c \in Clients, p \in Signups : Confirm(c, p)
    \/ \E h \in Hooks, p \in Signups : Receive(h, p)
    \/ \E f \in Finalizers : Proceed(f) \/ Abort(f)

Spec == Init /\ [][Next]_vars

\* A request that is being handled is finished, and Stripe repeats an event until
\* it has a 200; nothing obliges the founder's browser to confirm.
FairSpec ==
    /\ Spec
    /\ \A f \in Finalizers : WF_vars(Proceed(f))
    /\ \A p \in Signups : SF_vars(\E h \in Hooks : Receive(h, p))

-----------------------------------------------------------------------------
(* Properties *)

TypeOK ==
    /\ signup \in [Signups -> {"none", "pending", "finalized", "failed"}]
    /\ charge \in [Signups -> {"none", "incomplete", "active", "canceled"}]
    /\ event \in [Signups -> SUBSET {"active", "canceled"}]
    /\ orgs \in SUBSET Signups /\ taken \in SUBSET Names
    /\ home \in [Founders -> Homes]
    /\ row \in [Signups -> {"absent", "active", "canceled"}]
    /\ removal \in [Signups -> {"none", "stopping", "removing"}]
    /\ pc \in [Finalizers -> Stages] /\ job \in [Finalizers -> Signups]
    /\ founded \in [Signups -> Nat]
    /\ faults \in Nat /\ edits \in Nat

\* init.sql:2309-2310, "status + the FOR UPDATE lock prevent a double-create":
\* however confirms and webhooks are interleaved, retried and cut short, and
\* whatever is deleted in between, a signup founds one organization.
FoundedOnce == \A p \in Signups : founded[p] <= 1

\* organizations.rs:493-495: founding never moves a user out of an organization
\* they are in, their own or another's.
NeverMovedOut ==
    [][\A u \in Founders : home[u] # Personal => home'[u] \in {home[u], Personal}]_vars

\* organization_upgrade.rs:294, "Paid, but no org could be created: stop further
\* charges": whoever pays gets the organization or is not charged on.
PaidIsServed ==
    \A p \in Signups :
        charge[p] = "active" ~> p \in orgs \/ charge[p] # "active"
=============================================================================
