------------------------ MODULE StripeProjectionProofs ------------------------
(***************************************************************************)
(* StripeProjection for any owners, subscriptions, handlers and faults,    *)
(* and events in any order: no acknowledged event is lost, and no plan is  *)
(* granted that was not paid, and a row whose events have all their 200    *)
(* differs from Stripe only through an event that was handled late.        *)
(***************************************************************************)
EXTENDS StripeProjection, SequenceTheorems, TLAPS

\* A handler that is not idle handles an event Stripe has made, and has served it
\* by the time it writes the dedup row.
Handling ==
    \A h \in Handlers :
        /\ pc[h] # "idle" => ev[h] \in Sent
        /\ pc[h] = "refreshed" => ev[h] \in served

\* The events themselves: a checkout reports an active subscription.
Reported ==
    \A s \in Subs : \A i \in 1..Len(sent[s]) :
        /\ sent[s][i].status \in {"unpaid", "active", "canceled"}
        /\ sent[s][i].kind = "checkout" => sent[s][i].status = "active"

\* The subscriptions that were active once; what a row, a handler's plan and an
\* entitlement say of them.
Ever == {s \in Subs : EverActive(s)}

RowsPaid == \A s \in Subs : row[s] = "active" => s \in Ever
PlansPaid ==
    \A h \in Handlers :
        plan[h] # Free => /\ pc[h] # "idle" /\ plan[h] \in Ever
                          /\ OwnerOf[plan[h]] = Owner(ev[h])
GrantsPaid ==
    \A o \in Owners :
        entitlement[o].plan # Free => /\ entitlement[o].plan \in Ever
                                      /\ OwnerOf[entitlement[o].plan] = o

Inv == /\ TypeOK /\ Handling /\ AckedIsServed
       /\ Reported /\ RowsPaid /\ PlansPaid /\ GrantsPaid

-----------------------------------------------------------------------------

LEMMA NoEvents == <<>> \in Seq(Events) /\ Len(<<>>) = 0
BY EmptySeq

LEMMA InitInv == Init => Inv
<1> SUFFICES ASSUME Init PROVE Inv  OBVIOUS
<1>1. sent \in [Subs -> Seq(Events)] /\ \A s \in Subs : Len(sent[s]) = 0
  BY NoEvents DEF Init
<1>2. TypeOK
  BY <1>1 DEF Init, TypeOK, StripeStatuses, RowStatuses, Plans, Stages
<1>3. Handling /\ AckedIsServed
  BY DEF Init, Handling, AckedIsServed
<1>4. Reported
  BY <1>1 DEF Reported
<1>5. RowsPaid /\ PlansPaid /\ GrantsPaid
  BY DEF Init, RowsPaid, PlansPaid, GrantsPaid
<1> QED  BY <1>2, <1>3, <1>4, <1>5 DEF Inv

LEMMA IdFacts ==
    \A id \in Ids : /\ Sub(id) \in Subs /\ Owner(id) \in Owners
                    /\ id[2] \in 1..MaxEvents[Sub(id)] /\ MaxEvents[Sub(id)] \in Nat
                    /\ id[2] \in Nat /\ id = <<Sub(id), id[2]>>
<1> SUFFICES ASSUME NEW id \in Ids
             PROVE  /\ Sub(id) \in Subs /\ Owner(id) \in Owners
                    /\ id[2] \in 1..MaxEvents[Sub(id)] /\ MaxEvents[Sub(id)] \in Nat
                    /\ id[2] \in Nat /\ id = <<Sub(id), id[2]>>
  OBVIOUS
<1>1. PICK s \in Subs : id \in {s} \X (1..MaxEvents[s])  BY DEF Ids
<1>2. Sub(id) = s /\ id[2] \in 1..MaxEvents[s] /\ id = <<s, id[2]>>  BY <1>1 DEF Sub
<1>3. MaxEvents[s] \in Nat  BY BoundsType
<1> QED  BY <1>2, <1>3, OwnerOfType DEF Owner

\* The events of a subscription are what they were, unless Stripe makes one.
LEMMA SameSent ==
    ASSUME UNCHANGED sent
    PROVE  Sent' = Sent /\ Ever' = Ever /\ (Reported => Reported')
BY DEF Sent, Ever, EverActive, Reported

LEMMA SentGrows ==
    ASSUME \A t \in Subs : /\ Len(sent[t]) \in Nat /\ Len(sent'[t]) \in Nat
                           /\ Len(sent'[t]) >= Len(sent[t])
    PROVE  Sent \subseteq Sent'
<1>1. ASSUME NEW id \in Sent PROVE id \in Sent'
  <2>1. id \in Ids /\ id[2] <= Len(sent[Sub(id)])  BY DEF Sent
  <2>2. Sub(id) \in Subs /\ id[2] \in Nat  BY <2>1, IdFacts
  <2>3. id[2] <= Len(sent'[Sub(id)])  BY <2>1, <2>2
  <2> QED  BY <2>1, <2>3 DEF Sent, Sub
<1> QED  BY <1>1

-----------------------------------------------------------------------------
(* Stripe *)

LEMMA Appended ==
    ASSUME TypeOK, NEW s \in Subs, NEW status \in StripeStatuses,
           NEW kind \in Kinds, Emit(s, status, kind)
    PROVE  /\ sent' \in [Subs -> Seq(Events)]
           /\ Len(sent'[s]) = Len(sent[s]) + 1
           /\ sent'[s][Len(sent'[s])] = [kind |-> kind, status |-> status]
           /\ \A t \in Subs : /\ Len(sent[t]) \in Nat /\ Len(sent'[t]) \in Nat
                              /\ Len(sent'[t]) >= Len(sent[t])
                              /\ \A i \in 1..Len(sent[t]) : sent'[t][i] = sent[t][i]
           /\ \A t \in Subs \ {s} : sent'[t] = sent[t]
<1> DEFINE new == [kind |-> kind, status |-> status]
<1>1. new \in Events  BY DEF Events
<1>2. sent \in [Subs -> Seq(Events)] /\ sent[s] \in Seq(Events)  BY DEF TypeOK
<1>3. sent' = [sent EXCEPT ![s] = Append(sent[s], new)]  BY DEF Emit
<1> HIDE DEF new
<1>4. /\ Append(sent[s], new) \in Seq(Events)
      /\ Len(Append(sent[s], new)) = Len(sent[s]) + 1
      /\ \A i \in 1..Len(sent[s]) : Append(sent[s], new)[i] = sent[s][i]
      /\ Append(sent[s], new)[Len(sent[s]) + 1] = new
  BY <1>1, <1>2, AppendProperties
<1>5. sent'[s] = Append(sent[s], new)  BY <1>2, <1>3
<1>6. \A t \in Subs \ {s} : sent'[t] = sent[t]  BY <1>2, <1>3
<1>7. \A t \in Subs : Len(sent[t]) \in Nat  BY <1>2, LenProperties
<1>8. sent' \in [Subs -> Seq(Events)]  BY <1>2, <1>3, <1>4
<1>9. /\ Len(sent'[s]) = Len(sent[s]) + 1 /\ sent'[s][Len(sent'[s])] = new
      /\ \A i \in 1..Len(sent[s]) : sent'[s][i] = sent[s][i]
  BY <1>4, <1>5
<1>10. \A t \in Subs : /\ Len(sent[t]) \in Nat /\ Len(sent'[t]) \in Nat
                       /\ Len(sent'[t]) >= Len(sent[t])
                       /\ \A i \in 1..Len(sent[t]) : sent'[t][i] = sent[t][i]
  BY <1>6, <1>7, <1>9
<1> QED  BY <1>6, <1>8, <1>9, <1>10 DEF new

\* What Stripe makes of a subscription: an event that says what it is now.
Made(s, status, kind) ==
    /\ Emit(s, status, kind) /\ status # "none"
    /\ kind = "checkout" => status = "active"

LEMMA Billed ==
    ASSUME NEW s \in Subs, Bill(s)
    PROVE  \E status \in StripeStatuses, kind \in Kinds : Made(s, status, kind)
BY DEF Bill, Made, StripeStatuses, Kinds

LEMMA BillInv == ASSUME Inv, NEW s \in Subs, Bill(s) PROVE Inv'
<1> USE DEF Inv
<1>1. PICK status \in StripeStatuses, kind \in Kinds : Made(s, status, kind)
  BY Billed
<1>2. /\ sent' \in [Subs -> Seq(Events)]
      /\ Len(sent'[s]) = Len(sent[s]) + 1
      /\ sent'[s][Len(sent'[s])] = [kind |-> kind, status |-> status]
      /\ \A t \in Subs : /\ Len(sent[t]) \in Nat /\ Len(sent'[t]) \in Nat
                         /\ Len(sent'[t]) >= Len(sent[t])
                         /\ \A i \in 1..Len(sent[t]) : sent'[t][i] = sent[t][i]
      /\ \A t \in Subs \ {s} : sent'[t] = sent[t]
  BY <1>1, Appended DEF Made
<1>3. /\ UNCHANGED <<acked, log, row, entitlement, pc, ev, plan, projected, late, served,
                     faults>>
      /\ stripe' = [stripe EXCEPT ![s] = status]
  BY <1>1 DEF Emit, Made, history
<1>4. Sent \subseteq Sent'  BY <1>2, SentGrows
<1>5. Ever \subseteq Ever'
  BY <1>2 DEF Ever, EverActive
<1>6. TypeOK'
  BY <1>2, <1>3 DEF TypeOK
<1>7. Reported'
  <2>1. ASSUME NEW t \in Subs, NEW i \in 1..Len(sent'[t])
        PROVE  /\ sent'[t][i].status \in {"unpaid", "active", "canceled"}
               /\ sent'[t][i].kind = "checkout" => sent'[t][i].status = "active"
    <3>1. CASE i \in 1..Len(sent[t])
      BY <1>2, <3>1 DEF Reported
    <3>2. CASE i \notin 1..Len(sent[t])
      <4>1. t = s /\ i = Len(sent'[s])  BY <1>2, <3>2
      <4> QED  BY <1>1, <1>2, <4>1 DEF StripeStatuses, Made
    <3> QED  BY <3>1, <3>2
  <2> QED  BY <2>1 DEF Reported
<1>8. Handling' /\ AckedIsServed'
  BY <1>3, <1>4 DEF Handling, AckedIsServed
<1>9. RowsPaid' /\ PlansPaid' /\ GrantsPaid'
  BY <1>3, <1>5 DEF RowsPaid, PlansPaid, GrantsPaid, Owner, Sub
<1> QED  BY <1>6, <1>7, <1>8, <1>9

-----------------------------------------------------------------------------
(* The handlers *)

\* Return, whatever else the step has done.
LEMMA ReturnKeeps ==
    ASSUME Inv, NEW h \in Handlers, Return(h), UNCHANGED sent, served \subseteq served'
    PROVE  /\ pc' \in [Handlers -> Stages] /\ ev' \in [Handlers -> Ids \cup {NoId}]
           /\ plan' \in [Handlers -> Plans]
           /\ Handling' /\ PlansPaid' /\ Reported'
<1>1. Sent' = Sent /\ Ever' = Ever /\ Reported'  BY SameSent DEF Inv
<1>2. /\ pc' \in [Handlers -> Stages] /\ ev' \in [Handlers -> Ids \cup {NoId}]
      /\ plan' \in [Handlers -> Plans]
  BY DEF Inv, TypeOK, Return, Stages, Plans
<1>3. \A g \in Handlers : g # h => pc'[g] = pc[g] /\ ev'[g] = ev[g] /\ plan'[g] = plan[g]
  BY DEF Inv, TypeOK, Return
<1>4. pc'[h] = "idle" /\ plan'[h] = Free
  BY DEF Inv, TypeOK, Return
<1>5. Handling'
  BY <1>1, <1>3, <1>4 DEF Inv, Handling
<1>6. PlansPaid'
  BY <1>1, <1>3, <1>4 DEF Inv, PlansPaid, Owner, Sub
<1> QED  BY <1>1, <1>2, <1>5, <1>6

LEMMA DeliverInv ==
    ASSUME Inv, NEW h \in Handlers, NEW id \in Ids, Deliver(h, id)
    PROVE  Inv'
<1> USE DEF Inv
<1>1. UNCHANGED <<stripe, sent, log, row, entitlement, plan, projected, late, served>>
  BY DEF Deliver, history
<1>2. Sent' = Sent /\ Ever' = Ever /\ Reported'  BY <1>1, SameSent
<1>3. faults' \in Nat  BY DEF Deliver, TypeOK
<1>4. CASE id \in log
  <2>1. acked' = acked \cup {id} /\ UNCHANGED <<pc, ev>>  BY <1>4 DEF Deliver
  <2>2. TypeOK' /\ AckedIsServed'
    BY <1>1, <1>3, <1>4, <2>1 DEF TypeOK, AckedIsServed
  <2> QED  BY <1>1, <1>2, <2>1, <2>2
           DEF Handling, RowsPaid, PlansPaid, GrantsPaid, Owner, Sub
<1>5. CASE id \notin log
  <2>1. /\ pc' = [pc EXCEPT ![h] = "fresh"] /\ ev' = [ev EXCEPT ![h] = id]
        /\ acked' = acked /\ pc[h] = "idle" /\ id \in Sent
    BY <1>5 DEF Deliver
  <2>2. TypeOK'
    BY <1>1, <1>3, <2>1 DEF TypeOK, Stages
  <2>3. Handling'
    BY <1>1, <1>2, <2>1 DEF TypeOK, Handling
  <2>4. PlansPaid'
    BY <1>1, <1>2, <2>1 DEF TypeOK, PlansPaid, Owner, Sub
  <2> QED  BY <1>1, <1>2, <2>1, <2>2, <2>3, <2>4 DEF AckedIsServed, RowsPaid, GrantsPaid
<1> QED  BY <1>4, <1>5

\* What a handler at work knows of its event.
LEMMA AtWork ==
    ASSUME Inv, NEW h \in Handlers, pc[h] # "idle"
    PROVE  /\ ev[h] \in Ids /\ ev[h] \in Sent /\ Sub(ev[h]) \in Subs
           /\ Owner(ev[h]) \in Owners
           /\ Target(EventOf(ev[h])) \in RowStatuses
           /\ Target(EventOf(ev[h])) = "active" => Sub(ev[h]) \in Ever
<1>1. ev[h] \in Ids /\ ev[h] \in Sent  BY DEF Inv, Handling, Sent
<1>2. /\ Sub(ev[h]) \in Subs /\ ev[h][2] \in Nat /\ Owner(ev[h]) \in Owners
      /\ ev[h][2] \in 1..MaxEvents[Sub(ev[h])] /\ MaxEvents[Sub(ev[h])] \in Nat
  BY <1>1, IdFacts
<1> DEFINE s == Sub(ev[h])  i == ev[h][2]
<1>3. i \in 1..Len(sent[s])
  <2>1. ev[h][2] <= Len(sent[Sub(ev[h])])  BY <1>1 DEF Sent
  <2>2. Len(sent[Sub(ev[h])]) \in Nat  BY <1>2, LenProperties DEF Inv, TypeOK
  <2> QED  BY <1>2, <2>1, <2>2
<1>4. /\ sent[s][i].status \in {"unpaid", "active", "canceled"}
      /\ sent[s][i].kind = "checkout" => sent[s][i].status = "active"
  BY <1>2, <1>3 DEF Inv, Reported
<1>5. EventOf(ev[h]) = sent[s][i]  BY DEF EventOf
<1>6. Target(EventOf(ev[h])) = "active" => sent[s][i].status = "active"
  BY <1>4, <1>5 DEF Target
<1>7. Target(EventOf(ev[h])) \in RowStatuses
  BY <1>4, <1>5 DEF Target, RowStatuses
<1>8. sent[s][i].status = "active" => s \in Ever
  BY <1>2, <1>3 DEF Ever, EverActive
<1> QED  BY <1>1, <1>2, <1>6, <1>7, <1>8

LEMMA ProjectInv == ASSUME Inv, NEW h \in Handlers, Project(h) PROVE Inv'
<1> USE DEF Inv
<1>1. UNCHANGED <<stripe, sent, acked, log, entitlement, served, faults>>
  BY DEF Project
<1>2. Sent' = Sent /\ Ever' = Ever /\ Reported'  BY <1>1, SameSent
<1>3. CASE Return(h) /\ UNCHANGED <<row, projected, late>>
  BY <1>1, <1>2, <1>3, ReturnKeeps DEF TypeOK, AckedIsServed, RowsPaid, GrantsPaid
<1>4. CASE /\ row' = [row EXCEPT ![Sub(ev[h])] = Target(EventOf(ev[h]))]
           /\ Upserted(ev[h]) /\ GoOn(h, "projected") /\ UNCHANGED <<ev, plan>>
  <2>1. pc[h] = "fresh"  BY DEF Project
  <2>2. /\ Sub(ev[h]) \in Subs /\ Target(EventOf(ev[h])) \in RowStatuses
        /\ Target(EventOf(ev[h])) = "active" => Sub(ev[h]) \in Ever
    BY <2>1, AtWork
  <2>3. pc' = [pc EXCEPT ![h] = "projected"]  BY <1>4 DEF GoOn
  <2>7. projected' \in SUBSET Ids /\ late' \in SUBSET Ids
    BY <1>4, <2>1, AtWork DEF Upserted, TypeOK
  <2>4. TypeOK'  BY <1>1, <1>4, <2>2, <2>3, <2>7 DEF TypeOK, Stages
  <2>5. RowsPaid'  BY <1>2, <1>4, <2>2 DEF TypeOK, RowsPaid
  <2>6. Handling' /\ PlansPaid'
    BY <1>1, <1>2, <1>4, <2>1, <2>3 DEF TypeOK, Handling, PlansPaid, Owner, Sub
  <2> QED  BY <1>1, <1>2, <2>4, <2>5, <2>6 DEF AckedIsServed, GrantsPaid
<1> QED  BY <1>3, <1>4 DEF Project

LEMMA ReadPlanInv == ASSUME Inv, NEW h \in Handlers, ReadPlan(h) PROVE Inv'
<1> USE DEF Inv
<1>1. /\ UNCHANGED <<stripe, sent, acked, log, row, entitlement, ev, faults>>
      /\ UNCHANGED <<projected, late, served>>
      /\ pc[h] = "projected" /\ pc' = [pc EXCEPT ![h] = "planned"]
  BY DEF ReadPlan, GoOn, history
<1>2. Sent' = Sent /\ Ever' = Ever /\ Reported'  BY <1>1, SameSent
<1>3. PICK p : /\ plan' = [plan EXCEPT ![h] = p]
               /\ p = Free \/ p \in LiveSubs(Owner(ev[h]))
  BY DEF ReadPlan
<1>4. p # Free => p \in Subs /\ p \in Ever /\ OwnerOf[p] = Owner(ev[h])
  BY <1>3 DEF LiveSubs, RowsPaid
<1>5. TypeOK'
  BY <1>1, <1>3, <1>4 DEF TypeOK, Stages, Plans
<1>6. Handling'
  BY <1>1, <1>2 DEF TypeOK, Handling
<1>7. PlansPaid'
  BY <1>1, <1>2, <1>3, <1>4 DEF TypeOK, PlansPaid, Owner, Sub
<1> QED  BY <1>1, <1>2, <1>5, <1>6, <1>7 DEF AckedIsServed, RowsPaid, GrantsPaid

\* The entitlement is what the plan says, which was paid.
LEMMA WriteInv ==
    ASSUME Inv, NEW h \in Handlers, pc[h] # "idle", WriteSnapshot(h),
           UNCHANGED <<stripe, sent, acked, log, row, projected, late, faults>>
    PROVE  Inv'
<1> USE DEF Inv
<1>1. Sent' = Sent /\ Ever' = Ever /\ Reported'  BY SameSent
<1>2. ev[h] \in Ids /\ Owner(ev[h]) \in Owners  BY AtWork
<1> DEFINE o == Owner(ev[h])
           new == [exists |-> TRUE, plan |-> plan[h], active |-> plan[h] # Free]
<1>3. /\ entitlement' = [entitlement EXCEPT ![o] = new]
      /\ served' = served \cup {ev[h]}
      /\ pc' = [pc EXCEPT ![h] = "refreshed"] /\ UNCHANGED <<ev, plan>>
  BY DEF WriteSnapshot, GoOn
<1>4. new \in [exists : BOOLEAN, plan : Plans, active : BOOLEAN]
  BY DEF TypeOK
<1>5. new.plan = plan[h]  OBVIOUS
<1>6. plan[h] # Free => plan[h] \in Ever /\ OwnerOf[plan[h]] = o
  BY DEF PlansPaid
<1> HIDE DEF o, new
<1>7. TypeOK'
  BY <1>2, <1>3, <1>4 DEF TypeOK, Stages, o
<1>8. Handling'
  BY <1>1, <1>3 DEF TypeOK, Handling
<1>9. PlansPaid'
  BY <1>1, <1>3 DEF TypeOK, PlansPaid, Owner, Sub
<1>10. GrantsPaid'
  <2>1. ASSUME NEW q \in Owners, entitlement'[q].plan # Free
        PROVE  entitlement'[q].plan \in Ever /\ OwnerOf[entitlement'[q].plan] = q
    <3>1. CASE q = o
      BY <1>3, <1>5, <1>6, <2>1, <3>1 DEF TypeOK
    <3>2. CASE q # o
      BY <1>3, <2>1, <3>2 DEF TypeOK, GrantsPaid
    <3> QED  BY <3>1, <3>2
  <2> QED  BY <1>1, <2>1 DEF GrantsPaid
<1> QED  BY <1>1, <1>3, <1>7, <1>8, <1>9, <1>10 DEF AckedIsServed, RowsPaid

LEMMA RefreshInv ==
    ASSUME Inv, NEW h \in Handlers, UpdateEntitlement(h) \/ InsertEntitlement(h)
    PROVE  Inv'
<1> USE DEF Inv
<1>1. /\ UNCHANGED <<stripe, sent, acked, log, row, projected, late, faults>>
      /\ pc[h] \in {"planned", "missing"}
  BY DEF UpdateEntitlement, InsertEntitlement
<1>2. Sent' = Sent /\ Ever' = Ever /\ Reported'  BY <1>1, SameSent
<1>3. CASE WriteSnapshot(h)
  BY <1>1, <1>3, WriteInv
<1>4. CASE GoOn(h, "missing") /\ UNCHANGED <<entitlement, served, ev, plan>>
  <2>1. pc' = [pc EXCEPT ![h] = "missing"]  BY <1>4 DEF GoOn
  <2>2. TypeOK'  BY <1>1, <1>4, <2>1 DEF TypeOK, Stages
  <2>3. Handling' /\ PlansPaid'
    BY <1>1, <1>2, <1>4, <2>1 DEF TypeOK, Handling, PlansPaid, Owner, Sub
  <2> QED  BY <1>1, <1>2, <1>4, <2>2, <2>3 DEF AckedIsServed, RowsPaid, GrantsPaid
<1>5. CASE Return(h) /\ UNCHANGED <<entitlement, served>>
  BY <1>1, <1>2, <1>5, ReturnKeeps DEF TypeOK, AckedIsServed, RowsPaid, GrantsPaid
<1> QED  BY <1>3, <1>4, <1>5 DEF UpdateEntitlement, InsertEntitlement

\* The dedup row comes last: what it names has been served.
LEMMA RecordInv == ASSUME Inv, NEW h \in Handlers, Record(h) PROVE Inv'
<1> USE DEF Inv
<1>1. /\ UNCHANGED <<stripe, sent, row, entitlement, projected, late, served>>
      /\ Return(h) /\ pc[h] = "refreshed"
  BY DEF Record, history
<1>2. Sent' = Sent /\ Ever' = Ever /\ Reported'  BY <1>1, SameSent
<1>3. ev[h] \in Ids /\ ev[h] \in served  BY <1>1, AtWork DEF Handling
<1>4. /\ log' \subseteq log \cup {ev[h]} /\ acked' = acked \cup {ev[h]} /\ faults' \in Nat
  BY DEF Record, TypeOK
<1>5. AckedIsServed'  BY <1>1, <1>3, <1>4 DEF AckedIsServed
<1>6. /\ pc' \in [Handlers -> Stages] /\ ev' \in [Handlers -> Ids \cup {NoId}]
      /\ plan' \in [Handlers -> Plans] /\ Handling' /\ PlansPaid'
  BY <1>1, ReturnKeeps
<1>7. TypeOK'  BY <1>1, <1>3, <1>4, <1>6 DEF TypeOK
<1> QED  BY <1>1, <1>2, <1>5, <1>6, <1>7 DEF RowsPaid, GrantsPaid

LEMMA AbortInv == ASSUME Inv, NEW h \in Handlers, Abort(h) PROVE Inv'
<1> USE DEF Inv
<1>1. /\ UNCHANGED <<stripe, sent, acked, log, row, entitlement, projected, late, served>>
      /\ Return(h) /\ faults' \in Nat
  BY DEF Abort, TypeOK, history
<1>2. Sent' = Sent /\ Ever' = Ever /\ Reported'  BY <1>1, SameSent
<1>3. /\ pc' \in [Handlers -> Stages] /\ ev' \in [Handlers -> Ids \cup {NoId}]
      /\ plan' \in [Handlers -> Plans] /\ Handling' /\ PlansPaid'
  BY <1>1, ReturnKeeps
<1> QED  BY <1>1, <1>2, <1>3 DEF TypeOK, AckedIsServed, RowsPaid, GrantsPaid

LEMMA ReconcileInv == ASSUME Inv, NEW o \in Owners, Reconcile(o) PROVE Inv'
<1> USE DEF Inv
<1>1. /\ UNCHANGED <<stripe, sent, acked, log, row, pc, ev, plan, faults>>
      /\ UNCHANGED <<projected, late, served>>
      /\ entitlement' = [entitlement EXCEPT ![o].active = FALSE]
  BY DEF Reconcile, history
<1>2. Sent' = Sent /\ Ever' = Ever /\ Reported'  BY <1>1, SameSent
<1>3. /\ entitlement' \in [Owners -> [exists : BOOLEAN, plan : Plans, active : BOOLEAN]]
      /\ \A q \in Owners : entitlement'[q].plan = entitlement[q].plan
  BY <1>1 DEF TypeOK
<1>4. TypeOK'  BY <1>1, <1>3 DEF TypeOK
<1>5. GrantsPaid'  BY <1>2, <1>3 DEF GrantsPaid
<1> QED  BY <1>1, <1>2, <1>4, <1>5
         DEF Handling, AckedIsServed, RowsPaid, PlansPaid, Owner, Sub

-----------------------------------------------------------------------------
(* The rows and what Stripe says *)

\* What is acknowledged has been upserted; the last event of a subscription says what
\* Stripe says; and the row says what the last of the upserted events says, while
\* none of them was upserted after a later one.
ProjectedFirst ==
    /\ served \subseteq projected /\ projected \subseteq Sent
    /\ \A h \in Handlers : pc[h] \notin {"idle", "fresh"} => ev[h] \in projected
LastIsStripes ==
    \A s \in Subs : Len(sent[s]) # 0 => stripe[s] = sent[s][Len(sent[s])].status
RowOfLast ==
    \A s \in Subs : \A k \in 1..Len(sent[s]) :
        /\ <<s, k>> \in projected
        /\ \A i \in 1..Len(sent[s]) :
             <<s, i>> \notin late /\ (<<s, i>> \in projected => i <= k)
        => row[s] = sent[s][k].status

Mirror == ProjectedFirst /\ LastIsStripes /\ RowOfLast

\* An event a row has been set to is what the row says, a checkout's too.
LEMMA TargetIsStatus ==
    ASSUME Inv, NEW h \in Handlers, pc[h] # "idle"
    PROVE  /\ Target(EventOf(ev[h])) = EventOf(ev[h]).status
           /\ ev[h] = <<Sub(ev[h]), ev[h][2]>> /\ Sub(ev[h]) \in Subs
           /\ ev[h] \in Sent /\ ev[h][2] \in 1..Len(sent[Sub(ev[h])])
<1> DEFINE s == Sub(ev[h])  i == ev[h][2]
<1>1. ev[h] \in Ids /\ ev[h] \in Sent /\ s \in Subs  BY AtWork
<1>2. /\ Len(sent[s]) \in Nat /\ i <= Len(sent[s]) /\ ev[h] = <<s, i>>
      /\ i \in 1..MaxEvents[s] /\ MaxEvents[s] \in Nat
  BY <1>1, IdFacts, LenProperties DEF Inv, TypeOK, Sent
<1>3. i \in 1..Len(sent[s])  BY <1>2
<1>4. sent[s][i].kind = "checkout" => sent[s][i].status = "active"
  BY <1>1, <1>3 DEF Inv, Reported
<1>5. EventOf(ev[h]) = sent[s][i]  BY DEF EventOf
<1> QED  BY <1>1, <1>2, <1>3, <1>4, <1>5 DEF Target

LEMMA InitMirror == Init => Mirror
<1> SUFFICES ASSUME Init PROVE Mirror  OBVIOUS
<1>1. \A s \in Subs : Len(sent[s]) = 0  BY NoEvents DEF Init
<1> QED  BY <1>1 DEF Init, Mirror, ProjectedFirst, LastIsStripes, RowOfLast

\* A new event is not upserted yet, and is the last.
LEMMA BillMirror == ASSUME Inv, Mirror, NEW s \in Subs, Bill(s) PROVE Mirror'
<1>1. PICK status \in StripeStatuses, kind \in Kinds : Made(s, status, kind)
  BY Billed
<1>2. /\ sent' \in [Subs -> Seq(Events)]
      /\ Len(sent'[s]) = Len(sent[s]) + 1
      /\ sent'[s][Len(sent'[s])] = [kind |-> kind, status |-> status]
      /\ \A t \in Subs : /\ Len(sent[t]) \in Nat /\ Len(sent'[t]) \in Nat
                         /\ Len(sent'[t]) >= Len(sent[t])
                         /\ \A i \in 1..Len(sent[t]) : sent'[t][i] = sent[t][i]
      /\ \A t \in Subs \ {s} : sent'[t] = sent[t]
  BY <1>1, Appended DEF Made, Inv
<1>3. /\ UNCHANGED <<row, pc, ev, projected, late, served>>
      /\ stripe' = [stripe EXCEPT ![s] = status]
  BY <1>1 DEF Emit, Made, history
<1>4. Sent \subseteq Sent'  BY <1>2, SentGrows
<1>5. ProjectedFirst'  BY <1>3, <1>4 DEF Mirror, ProjectedFirst
<1>6. LastIsStripes'
  BY <1>2, <1>3 DEF Inv, TypeOK, Mirror, LastIsStripes
<1>7. RowOfLast'
  <2> SUFFICES ASSUME NEW t \in Subs, NEW k \in 1..Len(sent'[t]), <<t, k>> \in projected,
                      \A i \in 1..Len(sent'[t]) :
                        <<t, i>> \notin late /\ (<<t, i>> \in projected => i <= k)
               PROVE  row[t] = sent'[t][k].status
    BY <1>3 DEF RowOfLast
  <2>1. <<t, k>> \in Sent  BY DEF Mirror, ProjectedFirst
  <2>2. k <= Len(sent[t])  BY <2>1 DEF Sent, Sub
  <2>3. k \in 1..Len(sent[t])  BY <1>2, <2>2
  <2>4. \A i \in 1..Len(sent[t]) : i \in 1..Len(sent'[t])  BY <1>2
  <2> QED  BY <1>2, <2>3, <2>4 DEF Mirror, RowOfLast
<1> QED  BY <1>5, <1>6, <1>7 DEF Mirror

\* A step that upserts nothing.
LEMMA ElsewhereMirror ==
    ASSUME Inv, Mirror, UNCHANGED <<stripe, sent, row, projected, late>>,
           \A h \in Handlers : \/ pc'[h] \in {"idle", "fresh"}
                               \/ pc[h] \notin {"idle", "fresh"} /\ ev'[h] = ev[h],
           served' \subseteq projected
    PROVE  Mirror'
<1>1. Sent' = Sent  BY SameSent
<1> QED  BY <1>1 DEF Mirror, ProjectedFirst, LastIsStripes, RowOfLast

LEMMA ReturnMirror ==
    ASSUME Inv, Mirror, NEW h \in Handlers, Return(h),
           UNCHANGED <<stripe, sent, row, projected, late, served>>
    PROVE  Mirror'
<1>1. pc'[h] = "idle" /\ \A g \in Handlers : g # h => pc'[g] = pc[g] /\ ev'[g] = ev[g]
  BY DEF Return, Inv, TypeOK
<1>2. \A g \in Handlers : \/ pc'[g] \in {"idle", "fresh"}
                          \/ pc[g] \notin {"idle", "fresh"} /\ ev'[g] = ev[g]
  BY <1>1
<1> QED  BY <1>2, ElsewhereMirror DEF Mirror, ProjectedFirst

LEMMA DeliverMirror ==
    ASSUME Inv, Mirror, NEW h \in Handlers, NEW id \in Ids, Deliver(h, id)
    PROVE  Mirror'
<1>1. UNCHANGED <<stripe, sent, row, projected, late, served>>  BY DEF Deliver, history
<1>2. \A g \in Handlers : \/ pc'[g] \in {"idle", "fresh"}
                          \/ pc[g] \notin {"idle", "fresh"} /\ ev'[g] = ev[g]
  BY DEF Deliver, Inv, TypeOK
<1> QED  BY <1>1, <1>2, ElsewhereMirror DEF Mirror, ProjectedFirst

\* The upsert of the last event, or one after which its event counts as late.
LEMMA ProjectMirror ==
    ASSUME Inv, Mirror, NEW h \in Handlers, Project(h)
    PROVE  Mirror'
<1>1. UNCHANGED <<stripe, sent, served>> /\ pc[h] = "fresh" /\ Sent' = Sent
  BY SameSent DEF Project
<1> DEFINE s == Sub(ev[h])  n == ev[h][2]
<1>2. /\ Target(EventOf(ev[h])) = EventOf(ev[h]).status
      /\ ev[h] = <<s, n>> /\ s \in Subs /\ ev[h] \in Sent /\ n \in 1..Len(sent[s])
  BY <1>1, TargetIsStatus
<1>3. CASE Return(h) /\ UNCHANGED <<row, projected, late>>
  BY <1>1, <1>3, ReturnMirror
<1>4. CASE /\ row' = [row EXCEPT ![s] = EventOf(ev[h]).status]
           /\ Upserted(ev[h]) /\ GoOn(h, "projected") /\ UNCHANGED <<ev, plan>>
  <2>1. /\ \A g \in Handlers : g # h => pc'[g] = pc[g]
        /\ row'[s] = sent[s][n].status
        /\ \A t \in Subs : t # s => row'[t] = row[t]
    BY <1>2, <1>4 DEF GoOn, EventOf, Inv, TypeOK
  <2>2. /\ projected' = projected \cup {<<s, n>>} /\ late \subseteq late'
        /\ \/ <<s, n>> \in late'
           \/ \A i \in 1..MaxEvents[s] : i > n => <<s, i>> \notin projected
    BY <1>2, <1>4 DEF Upserted, Sub
  <2>3. ProjectedFirst'
    BY <1>1, <1>2, <1>4, <2>1, <2>2 DEF Mirror, ProjectedFirst
  <2>4. LastIsStripes'  BY <1>1 DEF Mirror, LastIsStripes
  <2>5. RowOfLast'
    <3> SUFFICES ASSUME NEW t \in Subs, NEW k \in 1..Len(sent[t]), <<t, k>> \in projected',
                        \A i \in 1..Len(sent[t]) :
                          <<t, i>> \notin late' /\ (<<t, i>> \in projected' => i <= k)
                 PROVE  row'[t] = sent[t][k].status
      BY <1>1 DEF RowOfLast
    <3>1. CASE t # s
      <4>1. \A i : <<t, i>> \in projected' <=> <<t, i>> \in projected  BY <2>2, <3>1
      <4> QED  BY <2>1, <2>2, <3>1, <4>1 DEF Mirror, RowOfLast
    <3>2. CASE t = s
      <4>1. n <= k /\ <<s, n>> \notin late'  BY <1>2, <2>2, <3>2
      <4>2. CASE k = n
        BY <2>1, <3>2, <4>2
      <4>3. CASE k # n
        <5>1. <<s, k>> \in projected  BY <2>2, <3>2, <4>3
        <5>2. <<s, k>> \in Ids  BY <5>1 DEF Inv, TypeOK
        <5>3. k \in 1..MaxEvents[s]  BY <5>2, IdFacts DEF Sub
        <5>4. Len(sent[s]) \in Nat  BY <1>2, LenProperties DEF Inv, TypeOK
        <5>5. k > n  BY <1>2, <3>2, <4>1, <4>3, <5>4
        <5> QED  BY <2>2, <4>1, <5>1, <5>3, <5>5
      <4> QED  BY <4>2, <4>3
    <3> QED  BY <3>1, <3>2
  <2> QED  BY <2>3, <2>4, <2>5 DEF Mirror
<1> QED  BY <1>2, <1>3, <1>4 DEF Project

LEMMA MirrorStep == ASSUME Inv, Mirror, [Next]_vars PROVE Mirror'
<1>1. CASE UNCHANGED vars
  BY <1>1 DEF vars, Mirror, ProjectedFirst, LastIsStripes, RowOfLast, Sent, Sub
<1>2. ASSUME NEW h \in Handlers, Handle(h) \/ Abort(h) PROVE Mirror'
  <2>1. CASE ReadPlan(h)
    <3>1. UNCHANGED <<stripe, sent, row, projected, late, served>>
      BY <2>1 DEF ReadPlan, history
    <3>2. \A g \in Handlers : \/ pc'[g] \in {"idle", "fresh"}
                              \/ pc[g] \notin {"idle", "fresh"} /\ ev'[g] = ev[g]
      BY <2>1 DEF ReadPlan, GoOn, Inv, TypeOK
    <3> QED  BY <3>1, <3>2, ElsewhereMirror DEF Mirror, ProjectedFirst
  <2>2. CASE UpdateEntitlement(h) \/ InsertEntitlement(h)
    <3>1. /\ UNCHANGED <<stripe, sent, row, projected, late>>
          /\ pc[h] \in {"planned", "missing"} /\ ev[h] \in projected
      BY <2>2 DEF UpdateEntitlement, InsertEntitlement, Mirror, ProjectedFirst
    <3>2. CASE Return(h) /\ UNCHANGED <<entitlement, served>>
      BY <3>1, <3>2, ReturnMirror
    <3>3. CASE /\ served' \in {served, served \cup {ev[h]}} /\ UNCHANGED ev
               /\ GoOn(h, "missing") \/ GoOn(h, "refreshed")
      <4>1. \A g \in Handlers : \/ pc'[g] \in {"idle", "fresh"}
                                \/ pc[g] \notin {"idle", "fresh"} /\ ev'[g] = ev[g]
        BY <3>1, <3>3 DEF GoOn, Inv, TypeOK
      <4>2. served' \subseteq projected  BY <3>1, <3>3 DEF Mirror, ProjectedFirst
      <4> QED  BY <3>1, <4>1, <4>2, ElsewhereMirror
    <3> QED  BY <2>2, <3>2, <3>3 DEF UpdateEntitlement, InsertEntitlement, WriteSnapshot
  <2>3. CASE Record(h) \/ Abort(h)
    BY <2>3, ReturnMirror DEF Record, Abort, history
  <2> QED  BY <1>2, <2>1, <2>2, <2>3, ProjectMirror DEF Handle
<1>3. ASSUME NEW o \in Owners, Reconcile(o) PROVE Mirror'
  BY <1>3 DEF Reconcile, history, Mirror, ProjectedFirst, LastIsStripes, RowOfLast,
              Sent, Sub
<1> QED  BY <1>1, <1>2, <1>3, BillMirror, DeliverMirror DEF Next

LEMMA MirrorAgrees == ASSUME Inv, Mirror PROVE WrongOnlyIfLate
<1> SUFFICES ASSUME NEW s \in Subs, sent[s] # <<>>,
                    \A i \in 1..Len(sent[s]) : <<s, i>> \in acked /\ <<s, i>> \notin late
             PROVE  row[s] = stripe[s]
  BY DEF WrongOnlyIfLate
<1>1. Len(sent[s]) \in Nat \ {0}  BY EmptySeq DEF Inv, TypeOK
<1>2. \A i \in 1..Len(sent[s]) : <<s, i>> \in projected
  BY DEF Inv, AckedIsServed, Mirror, ProjectedFirst
<1>4. /\ Len(sent[s]) \in 1..Len(sent[s])
      /\ \A i \in 1..Len(sent[s]) : i <= Len(sent[s])
  BY <1>1
<1>3. row[s] = sent[s][Len(sent[s])].status
  BY <1>4, <1>2 DEF Mirror, RowOfLast
<1> QED  BY <1>1, <1>3 DEF Mirror, LastIsStripes

-----------------------------------------------------------------------------
(* Theorems *)

\* The inductive invariant behind the other theorems.
THEOREM Invariance == Spec => []Inv
<1>1. Inv /\ [Next]_vars => Inv'
  <2> SUFFICES ASSUME Inv, [Next]_vars PROVE Inv'  OBVIOUS
  <2>1. CASE UNCHANGED vars
    <3>1. Sent' = Sent /\ Ever' = Ever /\ Reported'  BY <2>1, SameSent DEF vars, Inv
    <3> QED  BY <2>1, <3>1 DEF vars, Inv, TypeOK, Handling, AckedIsServed, RowsPaid,
                               PlansPaid, GrantsPaid, Owner, Sub
  <2>2. ASSUME NEW h \in Handlers, Handle(h) PROVE Inv'
    BY <2>2, ProjectInv, ReadPlanInv, RefreshInv, RecordInv DEF Handle
  <2> QED  BY <2>1, <2>2, BillInv, DeliverInv, AbortInv, ReconcileInv DEF Next
<1> QED  BY <1>1, InitInv, PTL DEF Spec

\* The projection, the events and the handlers keep their types.
THEOREM TypeCorrect == Spec => []TypeOK
<1>1. Inv => TypeOK  BY DEF Inv
<1> QED  BY <1>1, Invariance, PTL

\* webhook_handler.rs:2-5: for any number of handlers, crashes and repeated
\* deliveries, an event that is acknowledged or recorded has been served.
THEOREM NoEventLost == Spec => []AckedIsServed
<1>1. Inv => AckedIsServed  BY DEF Inv
<1> QED  BY <1>1, Invariance, PTL

\* In whatever order events arrive and refreshes overlap, a plan an owner has been
\* given is of a subscription of its own that Stripe reported as active.
THEOREM NothingUnpaid == Spec => []GrantWasPaid
<1>1. Inv => GrantWasPaid  BY DEF Inv, GrantsPaid, GrantWasPaid, Ever
<1> QED  BY <1>1, Invariance, PTL

\* init.sql:2205: for any number of subscriptions, handlers, copies and faults, and
\* events in any order: a row whose events have all their 200 differs from what
\* Stripe says only if one of them was upserted after a later one.
THEOREM OnlyLateEventsMislead == Spec => []WrongOnlyIfLate
<1>1. Init => Inv /\ Mirror  BY InitInv, InitMirror
<1>2. Inv /\ Mirror /\ [Next]_vars => Mirror'  BY MirrorStep
<1>3. Inv /\ Mirror => WrongOnlyIfLate  BY MirrorAgrees
<1> QED  BY <1>1, <1>2, <1>3, Invariance, PTL DEF Spec
=============================================================================
