-------------------------- MODULE StripeProjection --------------------------
(***************************************************************************)
(* Stripe's subscriptions projected on the local database:                 *)
(* billing/webhook_handler.rs applies the events Stripe delivers to the    *)
(* table subscriptions, billing/entitlements.rs materializes what the      *)
(* owner may use, and the hourly worker of billing/mod.rs corrects it.     *)
(*                                                                         *)
(* Every SQL statement is committed on its own, so a handler is a sequence *)
(* of actions, and the handlers of several deliveries are interleaved.  A  *)
(* plan is named by the subscription that pays for it.                     *)
(***************************************************************************)
EXTENDS Naturals, Sequences, FiniteSets

CONSTANTS
    Subs,          \* Stripe subscription ids
    Owners,        \* users and organizations
    OwnerOf,       \* client_reference: who pays a subscription
    Free,          \* the plan of an owner without a subscription
    Handlers,      \* deliveries that are handled at the same time
    MaxEvents,     \* bound on the events of each subscription
    MaxFaults      \* bound on crashes, failed statements and lost dedup rows

ASSUME OwnerOfType == OwnerOf \in [Subs -> Owners]
ASSUME FreeAssumption == Free \notin Subs
ASSUME BoundsType == MaxEvents \in [Subs -> Nat] /\ MaxFaults \in Nat

\* "unpaid" stands for incomplete and past_due: neither is live.
StripeStatuses == {"none", "unpaid", "active", "canceled"}
RowStatuses == {"absent", "unpaid", "active", "canceled"}
Kinds == {"checkout", "subscription"}
Events == [kind : Kinds, status : StripeStatuses]
Ids == UNION {{s} \X (1..MaxEvents[s]) : s \in Subs}
Plans == Subs \cup {Free}
NoId == <<>>
Stages == {"idle", "fresh", "projected", "planned", "missing", "refreshed"}

VARIABLES
    stripe,        \* the status of each subscription at Stripe
    sent,          \* the events Stripe has made of each subscription, oldest first
    acked,         \* the events Stripe has a 200 for
    log,           \* webhook_events
    row,           \* subscriptions.status
    entitlement,   \* entitlements: [exists, plan, active]
    pc,            \* how far each handler is
    ev,            \* the event it handles
    plan,          \* the plan refresh_entitlements has read
    projected,     \* history: events whose upsert has been committed
    late,          \* history: those upserted after a later event of theirs
    served,        \* history: those the owner has been refreshed for since
    faults

vars == <<stripe, sent, acked, log, row, entitlement, pc, ev, plan, projected, late, served,
          faults>>
history == <<projected, late, served>>

Sub(id) == id[1]
Owner(id) == OwnerOf[Sub(id)]
Sent == {id \in Ids : id[2] <= Len(sent[Sub(id)])}
EventOf(id) == sent[Sub(id)][id[2]]

-----------------------------------------------------------------------------
(* Stripe *)

Emit(s, status, kind) ==
    /\ Len(sent[s]) < MaxEvents[s]
    /\ stripe' = [stripe EXCEPT ![s] = status]
    /\ sent' = [sent EXCEPT ![s] = Append(@, [kind |-> kind, status |-> status])]
    /\ UNCHANGED <<acked, log, row, entitlement, pc, ev, plan, history, faults>>

\* Hosted Checkout reports the session, and the subscription as well; inline
\* subscribing starts unpaid; both go on as Stripe sees fit, renewals included.
Bill(s) ==
    \/ stripe[s] = "none" /\ Emit(s, "active", "checkout")
    \/ stripe[s] = "none" /\ Emit(s, "unpaid", "subscription")
    \/ stripe[s] \in {"unpaid", "active"} /\ Emit(s, "active", "subscription")
    \/ stripe[s] = "active" /\ Emit(s, "unpaid", "subscription")
    \/ stripe[s] \in {"unpaid", "active"} /\ Emit(s, "canceled", "subscription")

-----------------------------------------------------------------------------
(* stripe_webhook.  Stripe promises no order: it delivers any event, as     *)
(* often as it likes, also while an earlier copy is being handled.         *)

\* Seeded fault: the dedup row is written with the check.
DeliverRecordsFirst(h, id) ==
    /\ pc[h] = "idle" /\ id \in Sent
    /\ log' = log \cup {id}
    /\ IF id \in log
       THEN acked' = acked \cup {id} /\ UNCHANGED <<pc, ev>>
       ELSE /\ pc' = [pc EXCEPT ![h] = "fresh"]
            /\ ev' = [ev EXCEPT ![h] = id]
            /\ UNCHANGED acked
    /\ UNCHANGED <<stripe, sent, row, entitlement, plan, history, faults>>

\* The dedup row is read; a processed event is acknowledged.
Deliver(h, id) ==
    /\ pc[h] = "idle" /\ id \in Sent
    /\ IF id \in log
       THEN acked' = acked \cup {id} /\ UNCHANGED <<pc, ev>>
       ELSE /\ pc' = [pc EXCEPT ![h] = "fresh"]
            /\ ev' = [ev EXCEPT ![h] = id]
            /\ UNCHANGED acked
    /\ UNCHANGED <<stripe, sent, log, row, entitlement, plan, history, faults>>

\* Seeded faults: the session's own status is taken over, and a subscription
\* that waits for its first payment counts as active.
TargetOfSession(e) == IF e.kind = "checkout" THEN "complete" ELSE e.status
TargetUnlessCanceled(e) == IF e.status = "canceled" THEN "canceled" ELSE "active"

\* A checkout always activates; a subscription event carries its status.
Target(e) == IF e.kind = "checkout" THEN "active" ELSE e.status

\* subscriptions_active_user_uniq, subscriptions_active_org_uniq
Blocked(s) ==
    \E t \in Subs \ {s} : OwnerOf[t] = OwnerOf[s] /\ row[t] = "active"

\* The handler returns; what it had read is gone.
Return(h) ==
    /\ pc' = [pc EXCEPT ![h] = "idle"]
    /\ ev' = [ev EXCEPT ![h] = NoId]
    /\ plan' = [plan EXCEPT ![h] = Free]

GoOn(h, stage) == pc' = [pc EXCEPT ![h] = stage]

Upserted(id) ==
    /\ projected' = projected \cup {id}
    /\ late' = IF \E i \in 1..MaxEvents[Sub(id)] : i > id[2] /\ <<Sub(id), i>> \in projected
               THEN late \cup {id} ELSE late

\* Seeded fault: the error of the upsert is dropped.
ProjectIgnoringErrors(h) ==
    /\ pc[h] = "fresh"
    /\ LET s == Sub(ev[h])  target == Target(EventOf(ev[h])) IN
         row' = IF target = "active" /\ Blocked(s) THEN row
                ELSE [row EXCEPT ![s] = target]
    /\ Upserted(ev[h])
    /\ GoOn(h, "projected")
    /\ UNCHANGED <<stripe, sent, acked, log, entitlement, ev, plan, served, faults>>

\* The upsert of handle_checkout_completed or handle_subscription_event.  The
\* second active row of an owner violates the unique index: a 500.
Project(h) ==
    /\ pc[h] = "fresh"
    /\ LET s == Sub(ev[h])  target == Target(EventOf(ev[h])) IN
         \/ /\ target = "active" /\ Blocked(s)
            /\ Return(h) /\ UNCHANGED <<row, projected, late>>
         \/ /\ ~(target = "active" /\ Blocked(s))
            /\ row' = [row EXCEPT ![s] = target]
            /\ Upserted(ev[h])
            /\ GoOn(h, "projected") /\ UNCHANGED <<ev, plan>>
    /\ UNCHANGED <<stripe, sent, acked, log, entitlement, served, faults>>

LiveSubs(o) == {s \in Subs : OwnerOf[s] = o /\ row[s] = "active"}

\* refresh_entitlements: the plan of the live subscription, read first.
ReadPlan(h) ==
    /\ pc[h] = "projected"
    /\ LET live == LiveSubs(Owner(ev[h])) IN
         \E p \in IF live = {} THEN {Free} ELSE live : plan' = [plan EXCEPT ![h] = p]
    /\ GoOn(h, "planned")
    /\ UNCHANGED <<stripe, sent, acked, log, row, entitlement, ev, history, faults>>

WriteSnapshot(h) ==
    /\ entitlement' = [entitlement EXCEPT ![Owner(ev[h])] =
                         [exists |-> TRUE, plan |-> plan[h], active |-> plan[h] # Free]]
    /\ served' = served \cup {ev[h]}
    /\ GoOn(h, "refreshed") /\ UNCHANGED <<ev, plan>>

\* The UPDATE; when it finds no row, an INSERT follows.
UpdateEntitlement(h) ==
    /\ pc[h] = "planned"
    /\ \/ entitlement[Owner(ev[h])].exists /\ WriteSnapshot(h)
       \/ /\ ~entitlement[Owner(ev[h])].exists
          /\ GoOn(h, "missing") /\ UNCHANGED <<entitlement, served, ev, plan>>
    /\ UNCHANGED <<stripe, sent, acked, log, row, projected, late, faults>>

\* Another handler's INSERT may have been faster: a unique violation, a 500.
InsertEntitlement(h) ==
    /\ pc[h] = "missing"
    /\ \/ ~entitlement[Owner(ev[h])].exists /\ WriteSnapshot(h)
       \/ /\ entitlement[Owner(ev[h])].exists
          /\ Return(h) /\ UNCHANGED <<entitlement, served>>
    /\ UNCHANGED <<stripe, sent, acked, log, row, projected, late, faults>>

\* The dedup row, which may fail to be written, and the 200.
Record(h) ==
    /\ pc[h] = "refreshed"
    /\ \/ log' = log \cup {ev[h]} /\ UNCHANGED faults
       \/ UNCHANGED log /\ faults < MaxFaults /\ faults' = faults + 1
    /\ acked' = acked \cup {ev[h]}
    /\ Return(h)
    /\ UNCHANGED <<stripe, sent, row, entitlement, history>>

\* The process dies, or a statement fails and the handler answers 500.
Abort(h) ==
    /\ pc[h] # "idle" /\ faults < MaxFaults /\ faults' = faults + 1
    /\ Return(h)
    /\ UNCHANGED <<stripe, sent, acked, log, row, entitlement, history>>

-----------------------------------------------------------------------------
(* spawn_billing_worker *)

\* Seeded fault: the reconciliation looks at any subscription, live or not.
ReconcileOwnersWithoutRow(o) ==
    /\ entitlement[o].active
    /\ \A s \in Subs : OwnerOf[s] = o => row[s] = "absent"
    /\ entitlement' = [entitlement EXCEPT ![o].active = FALSE]
    /\ UNCHANGED <<stripe, sent, acked, log, row, pc, ev, plan, history, faults>>

\* The hourly UPDATE.  It resets the flag and leaves the limits.
Reconcile(o) ==
    /\ entitlement[o].active /\ LiveSubs(o) = {}
    /\ entitlement' = [entitlement EXCEPT ![o].active = FALSE]
    /\ UNCHANGED <<stripe, sent, acked, log, row, pc, ev, plan, history, faults>>

-----------------------------------------------------------------------------

Init ==
    /\ stripe = [s \in Subs |-> "none"]
    /\ sent = [s \in Subs |-> <<>>]
    /\ acked = {} /\ log = {} /\ projected = {} /\ late = {} /\ served = {}
    /\ row = [s \in Subs |-> "absent"]
    /\ entitlement = [o \in Owners |-> [exists |-> FALSE, plan |-> Free, active |-> FALSE]]
    /\ pc = [h \in Handlers |-> "idle"]
    /\ ev = [h \in Handlers |-> NoId]
    /\ plan = [h \in Handlers |-> Free]
    /\ faults = 0

Handle(h) ==
    \/ Project(h) \/ ReadPlan(h) \/ UpdateEntitlement(h) \/ InsertEntitlement(h)
    \/ Record(h)

Next ==
    \/ \E s \in Subs : Bill(s)
    \/ \E h \in Handlers, id \in Ids : Deliver(h, id)
    \/ \E h \in Handlers : Handle(h) \/ Abort(h)
    \/ \E o \in Owners : Reconcile(o)

Spec == Init /\ [][Next]_vars

\* Stripe repeats an event until it has a 200, and any number of requests is
\* handled at once, so a retry always finds a handler sooner or later; a request
\* that is being handled is finished; the worker runs every hour.
FairSpec ==
    /\ Spec
    /\ \A h \in Handlers : WF_vars(Handle(h))
    /\ \A id \in Ids : SF_vars(\E h \in Handlers : Deliver(h, id))
    /\ \A o \in Owners : WF_vars(Reconcile(o))

-----------------------------------------------------------------------------
(* Properties *)

TypeOK ==
    /\ stripe \in [Subs -> StripeStatuses]
    /\ sent \in [Subs -> Seq(Events)]
    /\ acked \in SUBSET Ids /\ log \in SUBSET Ids
    /\ projected \in SUBSET Ids /\ late \in SUBSET Ids /\ served \in SUBSET Ids
    /\ row \in [Subs -> RowStatuses]
    /\ entitlement \in [Owners -> [exists : BOOLEAN, plan : Plans, active : BOOLEAN]]
    /\ pc \in [Handlers -> Stages]
    /\ ev \in [Handlers -> Ids \cup {NoId}]
    /\ plan \in [Handlers -> Plans]
    /\ faults \in Nat

\* webhook_handler.rs:2-5, "the dedup row is written only after a successful
\* run": whatever dies in between, an event that will not be delivered again has
\* been projected and the entitlement of its owner refreshed after that.
AckedIsServed == acked \cup log \subseteq served

\* A subscription Stripe has reported as active, whoever pays it.
EverActive(s) == \E i \in 1..Len(sent[s]) : sent[s][i].status = "active"

\* No interleaving, retry or crash gives an owner a plan that is not backed by a
\* subscription of its own that Stripe has reported as active.
GrantWasPaid ==
    \A o \in Owners :
        entitlement[o].plan # Free =>
            OwnerOf[entitlement[o].plan] = o /\ EverActive(entitlement[o].plan)

\* init.sql:2205, "local projection of Stripe subscription state".  The upserts
\* carry no version (webhook_handler.rs:207, 276), so an event that is handled
\* late undoes a later one.  That is the only way: when every event of a
\* subscription is acknowledged and none was upserted late, whatever copies,
\* 500s, crashes and lost dedup rows there were, the row says what Stripe says.
WrongOnlyIfLate ==
    \A s \in Subs :
        /\ sent[s] # <<>>
        /\ \A i \in 1..Len(sent[s]) : <<s, i>> \in acked /\ <<s, i>> \notin late
        => row[s] = stripe[s]

\* Stripe's retries get every event served: again and again there is a moment at
\* which none waits, through crashes and failed statements, except for one that
\* would activate a second subscription of its owner.
EventsServed ==
    []<>(\A id \in Sent :
            id \in served \/ (Target(EventOf(id)) = "active" /\ Blocked(Sub(id))))

\* billing/mod.rs:140-142: an entitlement is not left marked as active when its
\* owner has no live subscription, however the refreshes were interleaved.
LapsedIsDeactivated ==
    \A o \in Owners :
        LiveSubs(o) = {} ~> LiveSubs(o) # {} \/ ~entitlement[o].active
=============================================================================
