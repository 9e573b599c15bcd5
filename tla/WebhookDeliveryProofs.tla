----------------------- MODULE WebhookDeliveryProofs -----------------------
(***************************************************************************)
(* WebhookDelivery for any number of dispatchers, endpoints, events and    *)
(* faults: what holds of every delivery, and what holds of one that is not *)
(* claimed while it is worked on, or whose claims are never lost.          *)
(***************************************************************************)
EXTENDS WebhookDelivery, TLAPS

-----------------------------------------------------------------------------
(* With any number of dispatchers *)

\* What dispatcher w has claimed and not settled.
Claimed(w) == jobs[w] \cup Posted(w)

\* Between the answer to a POST and the last UPDATE, current is its job.
PostedIsJob ==
    \A w \in Dispatchers : step[w] \in {"posted", "settled"} => current[w] # NoJob

\* A claimed row is in the table until its endpoint is deleted, so no event can
\* be given the same row again while a dispatcher still holds it.
ClaimedHasRow ==
    \A w \in Dispatchers : \A j \in Claimed(w) :
        row[j.id].status # "absent" \/ ~endpoint[EndpointOf(j.id)].exists

\* A dispatcher that polls has settled, or lost, all it had claimed.
PollsEmpty == \A w \in Dispatchers : step[w] = "polling" => jobs[w] = {}

Inv == /\ TypeOK /\ PostedIsJob /\ PollsEmpty
       /\ ClaimedHasRow /\ AutoDisable /\ AttemptsDistinct

LEMMA NoJobIsNoRecord ==
    ASSUME NEW r \in [id : Deliveries, attempt : Nat, answer : Responses]
    PROVE  r # NoJob
<1>1. DOMAIN r = {"id", "attempt", "answer"}  OBVIOUS
<1>2. DOMAIN NoJob = {"answer"}  BY DEF NoJob
<1> QED  BY <1>1, <1>2

\* The job of a dispatcher that has its answer.
LEMMA CurrentJob ==
    ASSUME TypeOK, PostedIsJob, NEW w \in Dispatchers,
           step[w] \in {"posted", "settled"}
    PROVE  current[w] \in [id : Deliveries, attempt : Nat, answer : Responses]
BY DEF TypeOK, PostedIsJob

LEMMA ReadyType == Ready \subseteq Deliveries  BY DEF Ready

\* Everything after the claim that changes a row leaves it a row.
LEMMA SetRowType ==
    ASSUME TypeOK, NEW d \in Deliveries, NEW status \in Statuses,
           NEW due \in BOOLEAN, SetRow(d, status, due)
    PROVE  row' \in [Deliveries -> [status : Statuses, attempts : Nat, due : BOOLEAN]]
<1>1. row \in [Deliveries -> [status : Statuses, attempts : Nat, due : BOOLEAN]]
  BY DEF TypeOK
<1>2. CASE row[d].status = "absent"  BY <1>1, <1>2 DEF SetRow
<1>3. CASE row[d].status # "absent"
  <2>1. [row[d] EXCEPT !.status = status, !.due = due]
          \in [status : Statuses, attempts : Nat, due : BOOLEAN]
    BY <1>1
  <2>2. row' = [row EXCEPT ![d] = [row[d] EXCEPT !.status = status, !.due = due]]
    BY <1>1, <1>3 DEF SetRow
  <2> QED  BY <1>1, <2>1, <2>2
<1> QED  BY <1>2, <1>3

\* What an answer turns a delivery into.
Verdict(j) ==
    IF j.answer = "ok" THEN "delivered"
    ELSE IF j.answer = "refused" THEN "abandoned"
    ELSE IF RetryLeft(j) THEN "pending" ELSE "failed"

LEMMA SettleRowEffect ==
    ASSUME TypeOK, PostedIsJob, NEW w \in Dispatchers, SettleRow(w)
    PROVE  \E due \in BOOLEAN : SetRow(current[w].id, Verdict(current[w]), due)
<1> DEFINE j == current[w]
<1>1. j.answer \in Responses /\ j.id \in Deliveries
  BY CurrentJob DEF SettleRow
<1>2. row[j.id].due \in BOOLEAN  BY <1>1 DEF TypeOK
<1>3. CASE j.answer = "ok"
  BY <1>2, <1>3 DEF SettleRow, Verdict
<1>4. CASE j.answer = "refused"
  BY <1>2, <1>4 DEF SettleRow, Verdict
<1>5. CASE j.answer = "retryable" /\ RetryLeft(j)
  BY <1>5 DEF SettleRow, Verdict
<1>6. CASE j.answer = "retryable" /\ ~RetryLeft(j)
  BY <1>2, <1>6 DEF SettleRow, Verdict
<1> QED  BY <1>1, <1>3, <1>4, <1>5, <1>6 DEF Responses

LEMMA TypeStep == TypeOK /\ PostedIsJob /\ [Next]_vars => TypeOK' /\ PostedIsJob'
<1> SUFFICES ASSUME TypeOK, PostedIsJob, [Next]_vars
             PROVE  TypeOK' /\ PostedIsJob'
  OBVIOUS
<1> USE DEF TypeOK, PostedIsJob
<1>1. CASE UNCHANGED vars  BY <1>1 DEF vars
<1>2. ASSUME NEW ev \in Events, Emit(ev) PROVE TypeOK' /\ PostedIsJob'
  <2>1. NewRow \in [status : Statuses, attempts : Nat, due : BOOLEAN]
    BY DEF NewRow, Statuses
  <2> QED  BY <1>2, <2>1 DEF Emit
<1>3. ASSUME NEW d \in Deliveries, TestPing(d) PROVE TypeOK' /\ PostedIsJob'
  <2>1. NewRow \in [status : Statuses, attempts : Nat, due : BOOLEAN]
    BY DEF NewRow, Statuses
  <2>2. row' \in [Deliveries -> [status : Statuses, attempts : Nat, due : BOOLEAN]]
    <3>1. row' = [row EXCEPT ![d] = NewRow]  BY <1>3 DEF TestPing
    <3>2. row \in [Deliveries -> [status : Statuses, attempts : Nat, due : BOOLEAN]]
      OBVIOUS
    <3> HIDE DEF TypeOK, PostedIsJob
    <3> QED  BY <2>1, <3>1, <3>2
  <2>3. edits' \in Nat  BY <1>3 DEF TestPing
  <2>4. UNCHANGED <<endpoint, jobs, snapshot, step, current, accepted, posts,
                    doubled, forgotten, faults>>
    BY <1>3 DEF TestPing
  <2>5. TypeOK'  BY <2>2, <2>3, <2>4
  <2>6. PostedIsJob'  BY <2>4
  <2> QED  BY <2>5, <2>6
<1>4. ASSUME NEW e \in Endpoints, NEW value \in BOOLEAN, SetEnabled(e, value)
      PROVE  TypeOK' /\ PostedIsJob'
  <2>1. endpoint' \in [Endpoints -> [exists : BOOLEAN, enabled : BOOLEAN, failures : Nat]]
    <3>1. endpoint' = [endpoint EXCEPT
              ![e].enabled = value,
              ![e].failures = IF value /\ ~endpoint[e].enabled THEN 0 ELSE @]
      BY <1>4 DEF SetEnabled
    <3>2. endpoint \in [Endpoints -> [exists : BOOLEAN, enabled : BOOLEAN, failures : Nat]]
      OBVIOUS
    <3> HIDE DEF TypeOK, PostedIsJob
    <3>3. CASE value /\ ~endpoint[e].enabled  BY <3>1, <3>2, <3>3
    <3>4. CASE ~(value /\ ~endpoint[e].enabled)  BY <3>1, <3>2, <3>4
    <3> QED  BY <3>3, <3>4
  <2>2. edits' \in Nat  BY <1>4 DEF SetEnabled
  <2> QED  BY <1>4, <2>1, <2>2 DEF SetEnabled
<1>5. ASSUME NEW e \in Endpoints, DeleteEndpoint(e) PROVE TypeOK' /\ PostedIsJob'
  <2>1. endpoint' \in [Endpoints -> [exists : BOOLEAN, enabled : BOOLEAN, failures : Nat]]
    <3>1. endpoint' = [endpoint EXCEPT ![e] = [endpoint[e] EXCEPT !.exists = FALSE]]
      BY <1>5 DEF DeleteEndpoint
    <3>2. [endpoint[e] EXCEPT !.exists = FALSE]
            \in [exists : BOOLEAN, enabled : BOOLEAN, failures : Nat]
      <4>1. endpoint[e] \in [exists : BOOLEAN, enabled : BOOLEAN, failures : Nat]
        OBVIOUS
      <4> HIDE DEF TypeOK, PostedIsJob
      <4> QED  BY <4>1
    <3> QED  BY <3>1, <3>2
  <2>2. row' \in [Deliveries -> [status : Statuses, attempts : Nat, due : BOOLEAN]]
    BY <1>5 DEF DeleteEndpoint, Statuses
  <2>3. edits' \in Nat  BY <1>5 DEF DeleteEndpoint
  <2> QED  BY <1>5, <2>1, <2>2, <2>3 DEF DeleteEndpoint
<1>6. ASSUME NEW d \in Deliveries, BecomeDue(d) PROVE TypeOK' /\ PostedIsJob'
  BY <1>6 DEF BecomeDue
<1>7. ASSUME NEW w \in Dispatchers, Claim(w) PROVE TypeOK' /\ PostedIsJob'
  <2>1. PICK S \in SUBSET Ready :
          /\ row' = [d \in Deliveries |->
                       IF d \in S THEN [row[d] EXCEPT !.attempts = @ + 1] ELSE row[d]]
          /\ jobs' = [jobs EXCEPT ![w] =
                        {[id |-> d, attempt |-> row[d].attempts + 1] : d \in S}]
    BY <1>7 DEF Claim
  <2>2. {[id |-> d, attempt |-> row[d].attempts + 1] : d \in S} \in SUBSET Jobs
    BY ReadyType DEF Jobs
  <2>3. row' \in [Deliveries -> [status : Statuses, attempts : Nat, due : BOOLEAN]]
    BY <2>1
  <2>4. jobs' \in [Dispatchers -> SUBSET Jobs]  BY <2>1, <2>2
  <2>5. doubled' \in SUBSET Deliveries
    BY <1>7, ReadyType DEF Claim
  <2> QED  BY <1>7, <2>3, <2>4, <2>5 DEF Claim
<1>8. ASSUME NEW w \in Dispatchers, LoadEndpoints(w) PROVE TypeOK' /\ PostedIsJob'
  BY <1>8 DEF LoadEndpoints
<1>9. ASSUME NEW w \in Dispatchers, NEW j \in jobs[w], SkipJob(w, j)
      PROVE  TypeOK' /\ PostedIsJob'
  <2>1. j.id \in Deliveries  BY DEF Jobs
  <2>2. row' \in [Deliveries -> [status : Statuses, attempts : Nat, due : BOOLEAN]]
    BY <1>9, <2>1, SetRowType DEF SkipJob, Statuses
  <2> QED  BY <1>9, <2>2 DEF SkipJob
<1>10. ASSUME NEW w \in Dispatchers, NEW j \in jobs[w], NEW answer \in Responses,
              Post(w, j, answer)
       PROVE  TypeOK' /\ PostedIsJob'
  <2>1. j.id \in Deliveries /\ j.attempt \in Nat  BY DEF Jobs
  <2>2. [id |-> j.id, attempt |-> j.attempt, answer |-> answer]
          \in [id : Deliveries, attempt : Nat, answer : Responses]
    BY <2>1
  <2>3. [id |-> j.id, attempt |-> j.attempt, answer |-> answer] # NoJob
    BY <2>2, NoJobIsNoRecord
  <2>4. PostedIsJob'  BY <1>10, <2>3 DEF Post
  <2> QED  BY <1>10, <2>1, <2>2, <2>4 DEF Post
<1>11. ASSUME NEW w \in Dispatchers, SettleRow(w) PROVE TypeOK' /\ PostedIsJob'
  <2>1. current[w].id \in Deliveries  BY <1>11, CurrentJob DEF SettleRow
  <2>2. PICK due \in BOOLEAN : SetRow(current[w].id, Verdict(current[w]), due)
    BY <1>11, SettleRowEffect
  <2>3. row' \in [Deliveries -> [status : Statuses, attempts : Nat, due : BOOLEAN]]
    <3>1. Verdict(current[w]) \in Statuses  BY DEF Verdict, Statuses
    <3> QED  BY <2>1, <2>2, <3>1, SetRowType
  <2> QED  BY <1>11, <2>3 DEF SettleRow
<1>12. ASSUME NEW w \in Dispatchers, SettleEndpoint(w) PROVE TypeOK' /\ PostedIsJob'
  <2>1. EndpointOf(current[w].id) \in Endpoints
    BY <1>12, CurrentJob DEF SettleEndpoint, Deliveries, EndpointOf
  <2>2. endpoint' \in [Endpoints -> [exists : BOOLEAN, enabled : BOOLEAN, failures : Nat]]
    BY <1>12, <2>1 DEF SettleEndpoint, Failed
  <2> QED  BY <1>12, <2>2 DEF SettleEndpoint
<1>13. ASSUME NEW w \in Dispatchers, EndIteration(w) PROVE TypeOK' /\ PostedIsJob'
  BY <1>13 DEF EndIteration
<1>14. ASSUME NEW w \in Dispatchers, LoseUpdate(w) PROVE TypeOK' /\ PostedIsJob'
  <2>1. jobs' \in [Dispatchers -> SUBSET Jobs]
    <3>1. CASE step[w] = "batch"  BY <1>14, <3>1 DEF LoseUpdate
    <3>2. CASE step[w] # "batch"  BY <1>14, <3>2 DEF LoseUpdate
    <3> QED  BY <3>1, <3>2
  <2>2. \/ UNCHANGED <<step, current>>
        \/ step[w] = "posted" /\ step' = [step EXCEPT ![w] = "settled"]
             /\ UNCHANGED current
        \/ step' = [step EXCEPT ![w] = "batch"]
             /\ current' = [current EXCEPT ![w] = NoJob]
    BY <1>14 DEF LoseUpdate
  <2>3. step' \in [Dispatchers -> {"polling", "claimed", "batch", "posted", "settled"}]
    BY <2>2
  <2>4. current' \in [Dispatchers -> {NoJob} \cup
                       [id : Deliveries, attempt : Nat, answer : Responses]]
    BY <2>2
  <2>5. faults' \in Nat  BY <1>14 DEF LoseUpdate
  <2>6. UNCHANGED <<endpoint, row, snapshot, accepted, posts, doubled, edits>>
    BY <1>14 DEF LoseUpdate
  <2>9. forgotten' \in SUBSET Deliveries
    <3>1. \A j \in jobs[w] : j.id \in Deliveries  BY DEF Jobs
    <3>2. step[w] = "posted" => current[w].id \in Deliveries  BY CurrentJob
    <3> QED  BY <1>14, <3>1, <3>2 DEF LoseUpdate
  <2>7. TypeOK'  BY <2>1, <2>3, <2>4, <2>5, <2>6, <2>9
  <2>8. PostedIsJob'
    <3>1. CASE UNCHANGED <<step, current>>  BY <3>1
    <3>2. CASE /\ step[w] = "posted" /\ step' = [step EXCEPT ![w] = "settled"]
               /\ UNCHANGED current
      BY <3>2
    <3>3. CASE /\ step' = [step EXCEPT ![w] = "batch"]
               /\ current' = [current EXCEPT ![w] = NoJob]
      BY <3>3
    <3> QED  BY <2>2, <3>1, <3>2, <3>3
  <2> QED  BY <2>7, <2>8
<1>15. ASSUME NEW w \in Dispatchers, Crash(w) PROVE TypeOK' /\ PostedIsJob'
  <2>1. /\ step' = [step EXCEPT ![w] = "polling"]
        /\ jobs' = [jobs EXCEPT ![w] = {}]
        /\ snapshot' = [snapshot EXCEPT ![w] = {}]
        /\ current' = [current EXCEPT ![w] = NoJob]
        /\ faults' = faults + 1
        /\ forgotten' \in SUBSET Deliveries
        /\ UNCHANGED <<endpoint, row, accepted, posts, doubled, edits>>
    BY <1>15 DEF Crash
  <2>2. jobs' \in [Dispatchers -> SUBSET Jobs]  BY <2>1
  <2>3. snapshot' \in [Dispatchers -> SUBSET Endpoints]  BY <2>1
  <2>4. current' \in [Dispatchers -> {NoJob} \cup
                       [id : Deliveries, attempt : Nat, answer : Responses]]
    BY <2>1
  <2>5. TypeOK'  BY <2>1, <2>2, <2>3, <2>4
  <2>6. PostedIsJob'  BY <2>1
  <2> QED  BY <2>5, <2>6
<1> QED
  BY <1>1, <1>2, <1>3, <1>4, <1>5, <1>6, <1>7, <1>8, <1>9, <1>10, <1>11, <1>12,
     <1>13, <1>14, <1>15
  DEF Next, Edit, Dispatch

\* Every variable keeps its type, for any number of dispatchers and faults.
THEOREM TypeCorrect == Spec => []TypeOK
<1>1. Init => TypeOK /\ PostedIsJob
  BY BoundsType DEF Init, TypeOK, PostedIsJob, Statuses
<1> QED  BY <1>1, TypeStep, PTL DEF Spec

\* An UPDATE by id changes the status and the due date of one row, if it is there.
LEMMA SetRowEffect ==
    ASSUME TypeOK, NEW d \in Deliveries, NEW status \in Statuses,
           NEW due \in BOOLEAN, SetRow(d, status, due)
    PROVE  /\ \A x \in Deliveries : x # d => row'[x] = row[x]
           /\ row'[d].attempts = row[d].attempts
           /\ row[d].status = "absent" => row'[d].status = "absent"
           /\ row[d].status # "absent" => row'[d].status = status
BY DEF TypeOK, SetRow

\* A row that is there stays until its endpoint is deleted, its attempts only
\* grow, and a row that went with its endpoint does not come back.
RowKept(d) ==
    /\ \/ row[d].status # "absent"
       \/ ~endpoint[EndpointOf(d)].exists
       => \/ row'[d].status # "absent"
          \/ ~endpoint'[EndpointOf(d)].exists
    /\ row[d].status = "absent" /\ ~endpoint[EndpointOf(d)].exists
         => row'[d].status = "absent"
    /\ row[d].status # "absent" /\ row'[d].status # "absent"
         => row[d].attempts <= row'[d].attempts

LEMMA SetRowKeeps ==
    ASSUME TypeOK, NEW d \in Deliveries, NEW status \in Statuses \ {"absent"},
           NEW due \in BOOLEAN, SetRow(d, status, due), endpoint' = endpoint,
           NEW x \in Deliveries
    PROVE  RowKept(x)
<1>1. row[x].attempts \in Nat  BY DEF TypeOK
<1> QED  BY <1>1, SetRowEffect DEF RowKept

LEMMA RowsKept ==
    ASSUME TypeOK, PostedIsJob, [Next]_vars, NEW x \in Deliveries
    PROVE  RowKept(x)
<1>0. row[x].attempts \in Nat /\ EndpointOf(x) \in Endpoints
  BY DEF TypeOK, Deliveries, EndpointOf
<1>1. CASE row' = row /\ endpoint' = endpoint  BY <1>0, <1>1 DEF RowKept
<1>2. ASSUME NEW ev \in Events, Emit(ev) PROVE RowKept(x)
  <2>1. row'[x] = row[x] \/ (row'[x] = NewRow /\ Enabled(EndpointOf(x)))
    BY <1>2 DEF Emit, EndpointOf
  <2>2. row[x].status # "absent" => row'[x] = row[x]
    <3>1. x[1] = ev => row[x].status = "absent"
      BY <1>2 DEF Emit, Deliveries
    <3> QED  BY <1>2, <3>1 DEF Emit
  <2> QED  BY <1>0, <1>2, <2>1, <2>2 DEF Emit, RowKept, NewRow, Enabled
<1>3. ASSUME NEW d \in Deliveries, TestPing(d) PROVE RowKept(x)
  <2>1. row[d].status = "absent" /\ endpoint[EndpointOf(d)].exists
    BY <1>3 DEF TestPing, Deliveries
  <2>2. row' = [row EXCEPT ![d] = NewRow] /\ endpoint' = endpoint
    BY <1>3 DEF TestPing
  <2> QED  BY <1>0, <2>1, <2>2 DEF RowKept, NewRow, TypeOK
<1>4. ASSUME NEW e \in Endpoints, NEW value \in BOOLEAN, SetEnabled(e, value)
      PROVE  RowKept(x)
  <2>1. row' = row  BY <1>4 DEF SetEnabled
  <2>2. endpoint'[EndpointOf(x)].exists = endpoint[EndpointOf(x)].exists
    BY <1>0, <1>4 DEF SetEnabled, TypeOK
  <2> QED  BY <1>0, <2>1, <2>2 DEF RowKept
<1>5. ASSUME NEW e \in Endpoints, DeleteEndpoint(e) PROVE RowKept(x)
  <2>1. row'[x] = row[x] \/ row'[x].status = "absent"
    BY <1>5 DEF DeleteEndpoint, TypeOK, Statuses
  <2>2. EndpointOf(x) = e => ~endpoint'[EndpointOf(x)].exists
    BY <1>0, <1>5 DEF DeleteEndpoint, TypeOK
  <2>3. EndpointOf(x) # e => /\ row'[x] = row[x]
                             /\ endpoint'[EndpointOf(x)] = endpoint[EndpointOf(x)]
    BY <1>0, <1>5 DEF DeleteEndpoint, TypeOK
  <2> QED  BY <1>0, <2>1, <2>2, <2>3 DEF RowKept
<1>6. ASSUME NEW d \in Deliveries, BecomeDue(d) PROVE RowKept(x)
  <2>1. row'[x].status = row[x].status /\ row'[x].attempts = row[x].attempts
    BY <1>6 DEF BecomeDue, TypeOK
  <2> QED  BY <1>0, <1>6, <2>1 DEF RowKept, BecomeDue
<1>7. ASSUME NEW w \in Dispatchers, Claim(w) PROVE RowKept(x)
  <2>1. /\ row'[x].status = row[x].status
        /\ row'[x].attempts \in {row[x].attempts, row[x].attempts + 1}
    BY <1>7 DEF Claim, TypeOK
  <2> QED  BY <1>0, <1>7, <2>1 DEF RowKept, Claim
<1>8. ASSUME NEW w \in Dispatchers, NEW j \in jobs[w], SkipJob(w, j)
      PROVE  RowKept(x)
  <2>1. j.id \in Deliveries  BY DEF TypeOK, Jobs
  <2>2. row[j.id].due \in BOOLEAN  BY <2>1 DEF TypeOK
  <2> QED  BY <1>8, <2>1, <2>2, SetRowKeeps DEF SkipJob, Statuses
<1>9. ASSUME NEW w \in Dispatchers, SettleRow(w) PROVE RowKept(x)
  <2>1. current[w].id \in Deliveries  BY <1>9, CurrentJob DEF SettleRow
  <2>2. PICK due \in BOOLEAN : SetRow(current[w].id, Verdict(current[w]), due)
    BY <1>9, SettleRowEffect
  <2>3. Verdict(current[w]) \in Statuses \ {"absent"}
    BY DEF Verdict, Statuses
  <2> QED  BY <1>9, <2>1, <2>2, <2>3, SetRowKeeps DEF SettleRow
<1>10. ASSUME NEW w \in Dispatchers, SettleEndpoint(w) PROVE RowKept(x)
  <2>1. EndpointOf(current[w].id) \in Endpoints
    BY <1>10, CurrentJob DEF SettleEndpoint, Deliveries, EndpointOf
  <2>2. endpoint'[EndpointOf(x)].exists = endpoint[EndpointOf(x)].exists
    BY <1>0, <1>10, <2>1 DEF SettleEndpoint, Failed, TypeOK
  <2> QED  BY <1>0, <1>10, <2>2 DEF RowKept, SettleEndpoint
<1> QED
  BY <1>1, <1>2, <1>3, <1>4, <1>5, <1>6, <1>7, <1>8, <1>9, <1>10
  DEF Next, Edit, Dispatch, vars, LoadEndpoints, Post, EndIteration, LoseUpdate, Crash

LEMMA PostedJob ==
    ASSUME TypeOK, PostedIsJob, NEW w \in Dispatchers
    PROVE  Posted(w) \subseteq Jobs
BY CurrentJob DEF Posted, Jobs

\* Outside the claim a dispatcher only lets go of jobs.
LEMMA ClaimedKept ==
    ASSUME TypeOK, PostedIsJob, [Next]_vars, NEW v \in Dispatchers
    PROVE  Claimed(v)' \subseteq Claimed(v) \/ Claim(v)
<1>1. CASE jobs' = jobs /\ step' = step /\ current' = current
  BY <1>1 DEF Claimed, Posted
<1>2. ASSUME NEW w \in Dispatchers, w # v,
             /\ \E S : jobs' = [jobs EXCEPT ![w] = S]
             /\ \E S : step' = [step EXCEPT ![w] = S]
             /\ current' = current \/ \E S : current' = [current EXCEPT ![w] = S]
      PROVE  Claimed(v)' \subseteq Claimed(v)
  BY <1>2 DEF Claimed, Posted, TypeOK
<1>3. CASE LoadEndpoints(v)
  BY <1>3 DEF LoadEndpoints, Claimed, Posted, TypeOK
<1>4. ASSUME NEW j \in jobs[v], SkipJob(v, j) PROVE Claimed(v)' \subseteq Claimed(v)
  BY <1>4 DEF SkipJob, Claimed, Posted, TypeOK
<1>5. ASSUME NEW j \in jobs[v], NEW answer \in Responses, Post(v, j, answer)
      PROVE  Claimed(v)' \subseteq Claimed(v)
  <2>1. j \in Jobs  BY DEF TypeOK
  <2>2. j = [id |-> j.id, attempt |-> j.attempt]  BY <2>1 DEF Jobs
  <2>3. Posted(v)' = {[id |-> j.id, attempt |-> j.attempt]}
    BY <1>5 DEF Post, Posted, TypeOK
  <2>4. jobs'[v] \subseteq jobs[v]  BY <1>5 DEF Post, TypeOK
  <2> QED  BY <2>2, <2>3, <2>4 DEF Claimed
<1>6. CASE SettleRow(v)
  BY <1>6 DEF SettleRow, Claimed, Posted, TypeOK
<1>7. CASE SettleEndpoint(v)
  BY <1>7 DEF SettleEndpoint, Claimed, Posted, TypeOK
<1>8. CASE EndIteration(v)
  BY <1>8 DEF EndIteration, Claimed, Posted, TypeOK
<1>9. CASE LoseUpdate(v)
  BY <1>9 DEF LoseUpdate, Claimed, Posted, TypeOK
<1>10. CASE Crash(v)
  BY <1>10 DEF Crash, Claimed, Posted, TypeOK
<1>11. ASSUME NEW w \in Dispatchers, w # v, Dispatch(w) \/ LoseUpdate(w) \/ Crash(w)
       PROVE  Claimed(v)' \subseteq Claimed(v)
  <2>1. /\ jobs'[v] = jobs[v] /\ step'[v] = step[v] /\ current'[v] = current[v]
    BY <1>11 DEF Dispatch, Claim, LoadEndpoints, SkipJob, Post, SettleRow,
                 SettleEndpoint, EndIteration, LoseUpdate, Crash, TypeOK
  <2> QED  BY <2>1 DEF Claimed, Posted
<1> QED
  BY <1>1, <1>3, <1>4, <1>5, <1>6, <1>7, <1>8, <1>9, <1>10, <1>11
  DEF Next, Edit, Dispatch, vars, Emit, TestPing, SetEnabled, DeleteEndpoint, BecomeDue

\* The jobs a claim returns, one for each row and with the count it just wrote.
LEMMA ClaimEffect ==
    ASSUME TypeOK, NEW w \in Dispatchers, Claim(w)
    PROVE  /\ Posted(w)' = {}
           /\ \A i, j \in jobs'[w] : i.id = j.id => i = j
           /\ \A d \in Deliveries : row'[d] # row[d] => \E j \in jobs'[w] : j.id = d
           /\ \A j \in jobs'[w] :
                /\ j.id \in Ready
                /\ j.attempt = row[j.id].attempts + 1
                /\ row'[j.id].attempts = row[j.id].attempts + 1
                /\ row'[j.id].status = row[j.id].status
           /\ \A v \in Dispatchers : v # w => jobs'[v] = jobs[v]
<1>1. PICK S \in SUBSET Ready :
        /\ row' = [d \in Deliveries |->
                     IF d \in S THEN [row[d] EXCEPT !.attempts = @ + 1] ELSE row[d]]
        /\ jobs' = [jobs EXCEPT ![w] =
                      {[id |-> d, attempt |-> row[d].attempts + 1] : d \in S}]
  BY DEF Claim
<1>2. jobs'[w] = {[id |-> d, attempt |-> row[d].attempts + 1] : d \in S}
  BY <1>1 DEF TypeOK
<1>3. Posted(w)' = {}  BY DEF Claim, Posted
<1>4. \A d \in Deliveries : row'[d] # row[d] => \E j \in jobs'[w] : j.id = d
  <2>1. ASSUME NEW d \in Deliveries, row'[d] # row[d] PROVE d \in S
    BY <1>1, <2>1
  <2>2. \A d \in S : \E j \in jobs'[w] : j.id = d
    <3> TAKE d \in S
    <3>1. [id |-> d, attempt |-> row[d].attempts + 1] \in jobs'[w]  BY <1>2
    <3> QED  BY <3>1
  <2> QED  BY <2>1, <2>2
<1>5. \A j \in jobs'[w] : j.id \in S /\ j.attempt = row[j.id].attempts + 1
  BY <1>2
<1>6. \A i, j \in jobs'[w] : i.id = j.id => i = j
  BY <1>2
<1>7. \A d \in S : /\ row'[d].attempts = row[d].attempts + 1
                  /\ row'[d].status = row[d].status
  BY <1>1, ReadyType DEF TypeOK
<1>8. \A v \in Dispatchers : v # w => jobs'[v] = jobs[v]
  BY <1>1 DEF TypeOK
<1> QED  BY <1>3, <1>4, <1>5, <1>6, <1>7, <1>8

LEMMA ClaimedHasRowStep == Inv /\ [Next]_vars => ClaimedHasRow'
<1> SUFFICES ASSUME Inv, [Next]_vars, NEW v \in Dispatchers, NEW j \in Claimed(v)'
             PROVE  row'[j.id].status # "absent" \/ ~endpoint'[EndpointOf(j.id)].exists
  BY DEF ClaimedHasRow
<1>1. CASE j \in Claimed(v)
  <2>1. j.id \in Deliveries  BY <1>1, PostedJob DEF Inv, TypeOK, Claimed, Jobs
  <2> QED  BY <1>1, <2>1, RowsKept DEF Inv, ClaimedHasRow, RowKept
<1>2. CASE Claim(v) /\ j \notin Claimed(v)
  <2>1. j \in jobs'[v]  BY <1>2, ClaimEffect DEF Inv, Claimed
  <2>2. j.id \in Ready  BY <1>2, <2>1, ClaimEffect DEF Inv
  <2>3. j.id \in Deliveries /\ row[j.id].status = "pending"  BY <2>2 DEF Ready
  <2>4. row'[j.id].status = "pending"
    BY <1>2, <2>1, <2>3, ClaimEffect DEF Inv
  <2> QED  BY <2>4
<1> QED  BY <1>1, <1>2, ClaimedKept DEF Inv

\* Only an edit or a settlement touches an endpoint.
LEMMA EndpointSteps ==
    ASSUME [Next]_vars
    PROVE  \/ endpoint' = endpoint
           \/ \E e \in Endpoints, value \in BOOLEAN : SetEnabled(e, value)
           \/ \E e \in Endpoints : DeleteEndpoint(e)
           \/ \E w \in Dispatchers : SettleEndpoint(w)
BY DEF Next, Edit, Dispatch, vars, Emit, TestPing, BecomeDue, Claim, LoadEndpoints,
       SkipJob, Post, SettleRow, EndIteration, LoseUpdate, Crash

LEMMA AutoDisableStep == Inv /\ [Next]_vars => AutoDisable'
<1> SUFFICES ASSUME Inv, [Next]_vars, NEW e \in Endpoints, endpoint'[e].enabled
             PROVE  endpoint'[e].failures < Threshold
  BY DEF AutoDisable
<1>0. endpoint[e].failures \in Nat /\ Threshold \in Nat \ {0}
  BY ThresholdType DEF Inv, TypeOK
<1>1. CASE endpoint'[e] = endpoint[e]  BY <1>1 DEF Inv, AutoDisable
<1>2. ASSUME NEW f \in Endpoints, NEW value \in BOOLEAN, SetEnabled(f, value)
      PROVE  endpoint'[e].failures < Threshold
  BY <1>0, <1>2 DEF SetEnabled, Inv, AutoDisable, TypeOK
<1>3. ASSUME NEW f \in Endpoints, DeleteEndpoint(f)
      PROVE  endpoint'[e].failures < Threshold
  BY <1>0, <1>3 DEF DeleteEndpoint, Inv, AutoDisable, TypeOK
<1>4. ASSUME NEW w \in Dispatchers, SettleEndpoint(w)
      PROVE  endpoint'[e].failures < Threshold
  <2> DEFINE f == EndpointOf(current[w].id)
  <2>1. endpoint \in [Endpoints -> [exists : BOOLEAN, enabled : BOOLEAN, failures : Nat]]
    BY DEF Inv, TypeOK
  <2>2. CASE endpoint' = endpoint  BY <2>2 DEF Inv, AutoDisable
  <2>3. CASE endpoint' = [endpoint EXCEPT ![f].failures = 0]
    BY <1>0, <2>1, <2>3 DEF Inv, AutoDisable
  <2>4. CASE endpoint' = [endpoint EXCEPT
                ![f].failures = @ + 1,
                ![f].enabled = endpoint[f].failures + 1 < Threshold /\ @]
    <3>1. CASE e = f  BY <1>0, <2>1, <2>4, <3>1
    <3>2. CASE e # f  BY <2>1, <2>4, <3>2 DEF Inv, AutoDisable
    <3> QED  BY <3>1, <3>2
  <2> QED  BY <1>4, <2>2, <2>3, <2>4 DEF SettleEndpoint, Failed
<1> QED  BY <1>1, <1>2, <1>3, <1>4, EndpointSteps

LEMMA AttemptsDistinctStep == Inv /\ [Next]_vars => AttemptsDistinct'
<1> SUFFICES ASSUME Inv, [Next]_vars, NEW v \in Dispatchers, NEW w \in Dispatchers
             PROVE  /\ \A j \in Claimed(w)' :
                         row'[j.id].status # "absent" => j.attempt <= row'[j.id].attempts
                    /\ v # w => Claimed(v)' \cap Claimed(w)' = {}
  BY DEF AttemptsDistinct, Claimed
<1>1. \A u \in Dispatchers : \A j \in Claimed(u) :
        /\ j.id \in Deliveries /\ j.attempt \in Nat
        /\ row[j.id].attempts \in Nat /\ row'[j.id].attempts \in Nat
  <2>1. \A u \in Dispatchers : \A j \in Claimed(u) : j.id \in Deliveries /\ j.attempt \in Nat
    BY PostedJob DEF Inv, TypeOK, Claimed, Jobs
  <2> QED  BY <2>1, TypeStep DEF Inv, TypeOK
\* A job that was held already is counted by a row that is still there.
<1>2. \A u \in Dispatchers : \A j \in Claimed(u) :
        row'[j.id].status # "absent" =>
          row[j.id].status # "absent" /\ j.attempt <= row'[j.id].attempts
  BY <1>1, RowsKept DEF Inv, ClaimedHasRow, AttemptsDistinct, Claimed, RowKept
\* A new job has a higher attempt than any that was held for its row.
<1>3. ASSUME NEW u \in Dispatchers, Claim(u), NEW j \in Claimed(u)'
      PROVE  /\ j.attempt <= row'[j.id].attempts
             /\ \A x \in Dispatchers : j \notin Claimed(x)
  <2>1. j \in jobs'[u]  BY <1>3, ClaimEffect DEF Inv, Claimed
  <2>2. j.id \in Ready /\ j.attempt = row[j.id].attempts + 1
    BY <1>3, <2>1, ClaimEffect DEF Inv
  <2>3. j.id \in Deliveries /\ row[j.id].status = "pending"  BY <2>2 DEF Ready
  <2>4. row[j.id].attempts \in Nat  BY <2>3 DEF Inv, TypeOK
  <2>5. row'[j.id].attempts = row[j.id].attempts + 1
    BY <1>3, <2>1, ClaimEffect DEF Inv
  <2>6. \A x \in Dispatchers : j \in Claimed(x) => j.attempt <= row[j.id].attempts
    BY <2>3 DEF Inv, AttemptsDistinct, Claimed
  <2> QED  BY <2>2, <2>4, <2>5, <2>6
<1>4. \A x \in Dispatchers : Claim(w) /\ x # w => Claimed(x)' = Claimed(x)
  BY DEF Claim, Claimed, Posted, Inv, TypeOK
<1>5. \A x \in Dispatchers : Claim(v) /\ x # v => Claimed(x)' = Claimed(x)
  BY DEF Claim, Claimed, Posted, Inv, TypeOK
<1>6. \A j \in Claimed(w)' :
        row'[j.id].status # "absent" => j.attempt <= row'[j.id].attempts
  BY <1>2, <1>3, ClaimedKept DEF Inv
<1>7. ASSUME v # w PROVE Claimed(v)' \cap Claimed(w)' = {}
  <2>1. Claimed(v) \cap Claimed(w) = {}
    BY <1>7 DEF Inv, AttemptsDistinct, Claimed
  <2>2. CASE Claim(v)  BY <1>3, <1>5, <1>7, <2>2
  <2>3. CASE Claim(w)  BY <1>3, <1>4, <1>7, <2>3
  <2>4. CASE ~Claim(v) /\ ~Claim(w)  BY <2>1, <2>4, ClaimedKept DEF Inv
  <2> QED  BY <2>2, <2>3, <2>4
<1> QED  BY <1>6, <1>7

LEMMA PollsEmptyStep == Inv /\ [Next]_vars => PollsEmpty'
<1> SUFFICES ASSUME Inv, [Next]_vars, NEW w \in Dispatchers, step'[w] = "polling"
             PROVE  jobs'[w] = {}
  BY DEF PollsEmpty
<1>1. CASE jobs'[w] = jobs[w] /\ step'[w] = step[w]
  BY <1>1 DEF Inv, PollsEmpty
<1>2. ASSUME NEW v \in Dispatchers, Dispatch(v) \/ LoseUpdate(v) \/ Crash(v), v # w
      PROVE  jobs'[w] = jobs[w] /\ step'[w] = step[w]
  BY <1>2 DEF Dispatch, Claim, LoadEndpoints, SkipJob, Post, SettleRow, SettleEndpoint,
              EndIteration, LoseUpdate, Crash, Inv, TypeOK
<1>3. CASE Dispatch(w) \/ LoseUpdate(w) \/ Crash(w)
  BY <1>3 DEF Dispatch, Claim, LoadEndpoints, SkipJob, Post, SettleRow, SettleEndpoint,
              EndIteration, LoseUpdate, Crash, Inv, TypeOK
<1> QED
  BY <1>1, <1>2, <1>3
  DEF Next, Edit, vars, Emit, TestPing, SetEnabled, DeleteEndpoint, BecomeDue

\* Only a POST counts as one or is accepted.
LEMMA PostSteps ==
    ASSUME [Next]_vars
    PROVE  \/ posts' = posts /\ accepted' = accepted
           \/ \E w \in Dispatchers : \E j \in jobs[w], answer \in Responses :
                Post(w, j, answer)
BY DEF Next, Edit, Dispatch, vars, Emit, TestPing, SetEnabled, DeleteEndpoint,
       BecomeDue, Claim, LoadEndpoints, SkipJob, SettleRow, SettleEndpoint,
       EndIteration, LoseUpdate, Crash

\* The inductive invariant of any number of dispatchers, crashes and lost updates.
THEOREM Invariance == Spec => []Inv
<1>1. Init => Inv
  <2> SUFFICES ASSUME Init PROVE Inv  OBVIOUS
  <2>1. TypeOK /\ PostedIsJob
    BY BoundsType DEF Init, TypeOK, PostedIsJob, Statuses
  <2>2. \A w \in Dispatchers : Claimed(w) = {}  BY DEF Init, Claimed, Posted
  <2>3. ClaimedHasRow /\ AttemptsDistinct
    BY <2>2 DEF ClaimedHasRow, AttemptsDistinct, Claimed
  <2>4. AutoDisable  BY ThresholdType DEF Init, AutoDisable
  <2>5. PollsEmpty  BY DEF Init, PollsEmpty
  <2> QED  BY <2>1, <2>3, <2>4, <2>5 DEF Inv
<1>2. Inv /\ [Next]_vars => Inv'
  BY TypeStep, PollsEmptyStep, ClaimedHasRowStep, AutoDisableStep, AttemptsDistinctStep
  DEF Inv
<1> QED  BY <1>1, <1>2, PTL DEF Spec

\* However the updates of several dispatchers and of the owner are ordered, lost
\* or cut short, an endpoint at the failure threshold is not enabled.
THEOREM FailingEndpointDisabled == Spec => []AutoDisable
<1>1. Inv => AutoDisable  BY DEF Inv
<1> QED  BY <1>1, Invariance, PTL

\* No two dispatchers are at the same attempt of a delivery.
THEOREM DistinctAttempts == Spec => []AttemptsDistinct
<1>1. Inv => AttemptsDistinct  BY DEF Inv
<1> QED  BY <1>1, Invariance, PTL

-----------------------------------------------------------------------------
(* One delivery, step by step *)

\* The two ways in which dispatcher w is at work on d: it has a job for it that it
\* has not begun, or the answer to a POST that it has not written down.
JobsOf(w, d) == {j \in jobs[w] : j.id = d}
AnsweredBy(w, d) == step[w] = "posted" /\ current[w].id = d

SameAt(v, d) ==
    /\ JobsOf(v, d)' = JobsOf(v, d)
    /\ AnsweredBy(v, d)' <=> AnsweredBy(v, d)
    /\ AnsweredBy(v, d) => current'[v] = current[v]
Elsewhere(w, d) == \A v \in Dispatchers : v # w => SameAt(v, d)
NoPost(d) == posts'[d] = posts[d] /\ (d \in accepted' <=> d \in accepted)

\* Nothing is done about d, but its row may be inserted, or deleted with its
\* endpoint.
Idles(d) ==
    /\ \A v \in Dispatchers : SameAt(v, d)
    /\ NoPost(d)
    /\ \/ row'[d].status = row[d].status /\ row'[d].attempts = row[d].attempts
       \/ row[d].status = "absent" /\ row'[d].status = "pending" /\ row'[d].attempts = 0
       \/ row'[d].status = "absent"

Claims(w, d) ==
    /\ Elsewhere(w, d) /\ NoPost(d)
    /\ row[d].status = "pending" /\ row'[d].status = "pending"
    /\ row'[d].attempts = row[d].attempts + 1
    /\ JobsOf(w, d)' = {[id |-> d, attempt |-> row[d].attempts + 1]}
    /\ ~AnsweredBy(w, d)'
    /\ d \notin doubled' => \A v \in Dispatchers : JobsOf(v, d) = {} /\ ~AnsweredBy(v, d)

Settled(d, status) ==
    /\ row'[d].attempts = row[d].attempts
    /\ row[d].status = "absent" => row'[d].status = "absent"
    /\ row[d].status # "absent" => row'[d].status = status

Skips(w, d) ==
    /\ Elsewhere(w, d) /\ NoPost(d) /\ Settled(d, "abandoned")
    /\ \E j \in JobsOf(w, d) : JobsOf(w, d)' = JobsOf(w, d) \ {j}
    /\ ~AnsweredBy(w, d) /\ ~AnsweredBy(w, d)'

PostsJob(w, d) ==
    /\ Elsewhere(w, d) /\ row'[d] = row[d] /\ posts'[d] = posts[d] + 1
    /\ ~AnsweredBy(w, d) /\ AnsweredBy(w, d)'
    /\ \E j \in JobsOf(w, d) : /\ JobsOf(w, d)' = JobsOf(w, d) \ {j}
                              /\ current'[w].attempt = j.attempt
    /\ d \in accepted' => d \in accepted \/ current'[w].answer = "ok"

Settles(w, d) ==
    /\ Elsewhere(w, d) /\ NoPost(d) /\ Settled(d, Verdict(current[w]))
    /\ JobsOf(w, d)' = JobsOf(w, d)
    /\ AnsweredBy(w, d) /\ ~AnsweredBy(w, d)'

\* A claim of d is lost: its dispatcher dies, or an UPDATE of its fails.
Forgets(d) ==
    /\ d \in forgotten' /\ row'[d] = row[d]
    /\ \A v \in Dispatchers : /\ JobsOf(v, d)' \subseteq JobsOf(v, d)
                              /\ AnsweredBy(v, d)' => AnsweredBy(v, d)

\* A dispatcher's step is about its own jobs.
LEMMA OthersSame ==
    ASSUME TypeOK, NEW w \in Dispatchers, NEW d \in Deliveries,
           jobs' = jobs \/ \E S : jobs' = [jobs EXCEPT ![w] = S],
           step' = step \/ \E S : step' = [step EXCEPT ![w] = S],
           current' = current \/ \E S : current' = [current EXCEPT ![w] = S]
    PROVE  Elsewhere(w, d)
<1> SUFFICES ASSUME NEW v \in Dispatchers, v # w PROVE SameAt(v, d)
  BY DEF Elsewhere
<1>1. jobs'[v] = jobs[v] /\ step'[v] = step[v] /\ current'[v] = current[v]
  BY DEF TypeOK
<1> QED  BY <1>1 DEF SameAt, JobsOf, AnsweredBy

LEMMA WorkSame ==
    ASSUME jobs' = jobs, step' = step, current' = current, NEW d \in Deliveries
    PROVE  \A v \in Dispatchers : SameAt(v, d)
BY DEF SameAt, JobsOf, AnsweredBy

LEMMA ClaimSteps ==
    ASSUME Inv, NEW w \in Dispatchers, Claim(w), NEW d \in Deliveries
    PROVE  Idles(d) \/ Claims(w, d)
<1>0. TypeOK  BY DEF Inv
<1>1. PICK S \in SUBSET Ready :
        /\ row' = [x \in Deliveries |->
                     IF x \in S THEN [row[x] EXCEPT !.attempts = @ + 1] ELSE row[x]]
        /\ jobs' = [jobs EXCEPT ![w] =
                      {[id |-> x, attempt |-> row[x].attempts + 1] : x \in S}]
        /\ doubled' = doubled \cup {x \in S : \E v \in Dispatchers : AtWork(v, x)}
  BY DEF Claim
<1>2. /\ step[w] = "polling" /\ step' = [step EXCEPT ![w] = "claimed"]
      /\ UNCHANGED <<current, accepted, posts>>
  BY DEF Claim
<1>3. Elsewhere(w, d) /\ NoPost(d)
  BY <1>0, <1>1, <1>2, OthersSame DEF NoPost
<1>4. jobs'[w] = {[id |-> x, attempt |-> row[x].attempts + 1] : x \in S}
  BY <1>0, <1>1 DEF TypeOK
<1>5. ~AnsweredBy(w, d) /\ ~AnsweredBy(w, d)'
  BY <1>0, <1>2 DEF TypeOK, AnsweredBy
<1>6. CASE d \in S
  <2>1. /\ row[d].status = "pending" /\ row'[d].status = "pending"
        /\ row'[d].attempts = row[d].attempts + 1
    BY <1>0, <1>1, <1>6 DEF Ready, TypeOK
  <2>2. JobsOf(w, d)' = {[id |-> d, attempt |-> row[d].attempts + 1]}
    BY <1>4, <1>6 DEF JobsOf
  <2>3. d \notin doubled' => \A v \in Dispatchers : ~AtWork(v, d)
    BY <1>1, <1>6
  <2> QED  BY <1>3, <1>5, <2>1, <2>2, <2>3 DEF Claims, AtWork, JobsOf, AnsweredBy
<1>7. CASE d \notin S
  <2>1. row'[d] = row[d]  BY <1>1, <1>7
  <2>2. JobsOf(w, d)' = {}  BY <1>4, <1>7 DEF JobsOf
  <2>3. JobsOf(w, d) = {}  BY <1>2 DEF Inv, PollsEmpty, JobsOf
  <2>4. SameAt(w, d)  BY <1>5, <2>2, <2>3 DEF SameAt
  <2> QED  BY <1>3, <2>1, <2>4 DEF Idles, Elsewhere
<1> QED  BY <1>6, <1>7

\* Every step is one of these for every delivery.
LEMMA WorkSteps ==
    ASSUME Inv, [Next]_vars, NEW d \in Deliveries
    PROVE  \/ Idles(d) \/ Forgets(d)
           \/ \E w \in Dispatchers :
                Claims(w, d) \/ Skips(w, d) \/ PostsJob(w, d) \/ Settles(w, d)
<1>0. TypeOK /\ PostedIsJob  BY DEF Inv
<1> DEFINE RowSame == row'[d].status = row[d].status /\ row'[d].attempts = row[d].attempts
<1>1. ASSUME jobs' = jobs, step' = step, current' = current,
             accepted' = accepted, posts' = posts,
             \/ RowSame
             \/ (row[d].status = "absent" /\ row'[d] = NewRow)
             \/ row'[d].status = "absent"
      PROVE  Idles(d)
  BY <1>1, WorkSame DEF Idles, NoPost, NewRow
<1>2. ASSUME NEW ev \in Events, Emit(ev) PROVE Idles(d)
  <2>1. d[1] = ev => row[d].status = "absent"  BY <1>2 DEF Emit, Deliveries
  <2>2. row'[d] = row[d] \/ (row[d].status = "absent" /\ row'[d] = NewRow)
    BY <1>2, <2>1 DEF Emit
  <2> QED  BY <1>1, <1>2, <2>2 DEF Emit
<1>3. ASSUME NEW x \in Deliveries, TestPing(x) PROVE Idles(d)
  <2>1. row[x].status = "absent"  BY <1>3 DEF TestPing, Deliveries
  <2>2. row'[d] = row[d] \/ (row[d].status = "absent" /\ row'[d] = NewRow)
    BY <1>0, <1>3, <2>1 DEF TestPing, TypeOK
  <2> QED  BY <1>1, <1>3, <2>2 DEF TestPing
<1>4. ASSUME NEW e \in Endpoints, NEW value \in BOOLEAN, SetEnabled(e, value)
      PROVE  Idles(d)
  BY <1>1, <1>4 DEF SetEnabled
<1>5. ASSUME NEW e \in Endpoints, DeleteEndpoint(e) PROVE Idles(d)
  <2>1. RowSame \/ row'[d].status = "absent"
    BY <1>0, <1>5 DEF DeleteEndpoint, TypeOK
  <2> QED  BY <1>1, <1>5, <2>1 DEF DeleteEndpoint
<1>6. ASSUME NEW x \in Deliveries, BecomeDue(x) PROVE Idles(d)
  <2>1. RowSame  BY <1>0, <1>6 DEF BecomeDue, TypeOK
  <2> QED  BY <1>1, <1>6, <2>1 DEF BecomeDue
<1>7. ASSUME NEW w \in Dispatchers, LoadEndpoints(w) \/ SettleEndpoint(w) \/ EndIteration(w)
      PROVE  Idles(d)
  <2>1. Elsewhere(w, d)
    <3>1. /\ jobs' = jobs
          /\ \E S : step' = [step EXCEPT ![w] = S]
          /\ current' = current \/ \E S : current' = [current EXCEPT ![w] = S]
      BY <1>7 DEF LoadEndpoints, SettleEndpoint, EndIteration
    <3> QED  BY <1>0, <3>1, OthersSame
  <2>2. /\ step[w] # "posted" /\ step'[w] # "posted" /\ jobs' = jobs /\ row' = row
        /\ accepted' = accepted /\ posts' = posts
    BY <1>0, <1>7 DEF LoadEndpoints, SettleEndpoint, EndIteration, TypeOK
  <2>3. SameAt(w, d)  BY <2>2 DEF SameAt, JobsOf, AnsweredBy
  <2> QED  BY <2>1, <2>2, <2>3 DEF Idles, Elsewhere, NoPost
<1>8. ASSUME NEW w \in Dispatchers, NEW j \in jobs[w], SkipJob(w, j)
      PROVE  Idles(d) \/ Skips(w, d)
  <2>1. /\ jobs' = [jobs EXCEPT ![w] = jobs[w] \ {j}] /\ step[w] = "batch"
        /\ UNCHANGED <<step, current, accepted, posts>>
    BY <1>8 DEF SkipJob
  <2>2. Elsewhere(w, d) /\ NoPost(d)
    BY <1>0, <2>1, OthersSame DEF NoPost
  <2>3. ~AnsweredBy(w, d) /\ ~AnsweredBy(w, d)' /\ jobs'[w] = jobs[w] \ {j}
    BY <1>0, <2>1 DEF AnsweredBy, TypeOK
  <2>4. j.id \in Deliveries /\ row[j.id].due \in BOOLEAN  BY <1>0 DEF TypeOK, Jobs
  <2>5. CASE j.id = d
    <3>1. Settled(d, "abandoned")
      BY <1>0, <1>8, <2>4, <2>5, SetRowEffect DEF SkipJob, Settled, Statuses
    <3> QED  BY <2>2, <2>3, <2>5, <3>1 DEF Skips, JobsOf
  <2>6. CASE j.id # d
    <3>1. row'[d] = row[d]
      BY <1>0, <1>8, <2>4, <2>6, SetRowEffect DEF SkipJob, Statuses
    <3>2. SameAt(w, d)  BY <2>3, <2>6 DEF SameAt, JobsOf
    <3> QED  BY <2>2, <3>1, <3>2 DEF Idles, Elsewhere
  <2> QED  BY <2>5, <2>6
<1>9. ASSUME NEW w \in Dispatchers, NEW j \in jobs[w], NEW answer \in Responses,
             Post(w, j, answer)
      PROVE  Idles(d) \/ PostsJob(w, d)
  <2>1. /\ jobs' = [jobs EXCEPT ![w] = jobs[w] \ {j}]
        /\ step[w] = "batch" /\ step' = [step EXCEPT ![w] = "posted"]
        /\ current' = [current EXCEPT ![w] =
                          [id |-> j.id, attempt |-> j.attempt, answer |-> answer]]
        /\ posts' = [posts EXCEPT ![j.id] = posts[j.id] + 1]
        /\ accepted' = IF answer = "ok" THEN accepted \cup {j.id} ELSE accepted
        /\ row' = row
    BY <1>9 DEF Post
  <2>2. Elsewhere(w, d)  BY <1>0, <2>1, OthersSame
  <2>3. /\ jobs'[w] = jobs[w] \ {j} /\ step'[w] = "posted"
        /\ current'[w] = [id |-> j.id, attempt |-> j.attempt, answer |-> answer]
    BY <1>0, <2>1 DEF TypeOK
  <2>4. ~AnsweredBy(w, d)  BY <2>1 DEF AnsweredBy
  <2>5. CASE j.id = d
    <3>1. posts'[d] = posts[d] + 1  BY <1>0, <2>1, <2>5 DEF TypeOK
    <3>2. AnsweredBy(w, d)'  BY <2>3, <2>5 DEF AnsweredBy
    <3>3. /\ j \in JobsOf(w, d) /\ JobsOf(w, d)' = JobsOf(w, d) \ {j}
          /\ current'[w].attempt = j.attempt /\ current'[w].answer = answer
      BY <2>3, <2>5 DEF JobsOf
    <3>4. d \in accepted' => d \in accepted \/ answer = "ok"  BY <2>1
    <3> QED  BY <2>1, <2>2, <2>4, <3>1, <3>2, <3>3, <3>4 DEF PostsJob
  <2>6. CASE j.id # d
    <3>1. NoPost(d)  BY <1>0, <2>1, <2>6 DEF NoPost, TypeOK
    <3>2. ~AnsweredBy(w, d)'  BY <2>3, <2>6 DEF AnsweredBy
    <3>3. SameAt(w, d)  BY <2>3, <2>4, <2>6, <3>2 DEF SameAt, JobsOf
    <3> QED  BY <2>1, <2>2, <3>1, <3>3 DEF Idles, Elsewhere
  <2> QED  BY <2>5, <2>6
<1>10. ASSUME NEW w \in Dispatchers, SettleRow(w) PROVE Idles(d) \/ Settles(w, d)
  <2>1. /\ step[w] = "posted" /\ step' = [step EXCEPT ![w] = "settled"]
        /\ UNCHANGED <<jobs, current, accepted, posts>>
    BY <1>10 DEF SettleRow
  <2>2. Elsewhere(w, d) /\ NoPost(d)
    BY <1>0, <2>1, OthersSame DEF NoPost
  <2>3. current[w].id \in Deliveries  BY <1>0, <2>1, CurrentJob
  <2>4. PICK due \in BOOLEAN : SetRow(current[w].id, Verdict(current[w]), due)
    BY <1>0, <1>10, SettleRowEffect
  <2>5. Verdict(current[w]) \in Statuses  BY DEF Verdict, Statuses
  <2>6. ~AnsweredBy(w, d)' /\ JobsOf(w, d)' = JobsOf(w, d)
    BY <1>0, <2>1 DEF AnsweredBy, JobsOf, TypeOK
  <2>7. CASE current[w].id = d
    <3>1. Settled(d, Verdict(current[w]))
      BY <1>0, <2>4, <2>5, <2>7, SetRowEffect DEF Settled
    <3> QED  BY <2>1, <2>2, <2>6, <2>7, <3>1 DEF Settles, AnsweredBy
  <2>8. CASE current[w].id # d
    <3>1. row'[d] = row[d]  BY <1>0, <2>3, <2>4, <2>5, <2>8, SetRowEffect
    <3>2. SameAt(w, d)  BY <2>6, <2>8 DEF SameAt, AnsweredBy
    <3> QED  BY <2>2, <3>1, <3>2 DEF Idles, Elsewhere
  <2> QED  BY <2>7, <2>8
<1>11. ASSUME NEW w \in Dispatchers, LoseUpdate(w) PROVE Idles(d) \/ Forgets(d)
  <2>1. row' = row /\ accepted' = accepted /\ posts' = posts  BY <1>11 DEF LoseUpdate
  <2>2. ASSUME step[w] = "batch", NEW j \in jobs[w],
               jobs' = [jobs EXCEPT ![w] = @ \ {j}], forgotten' = forgotten \cup {j.id},
               UNCHANGED <<step, current>>
        PROVE  Idles(d) \/ Forgets(d)
    <3>1. Elsewhere(w, d)  BY <1>0, <2>2, OthersSame
    <3>2. jobs'[w] = jobs[w] \ {j}  BY <1>0, <2>2 DEF TypeOK
    <3>3. CASE j.id = d
      BY <2>1, <2>2, <3>1, <3>2, <3>3 DEF Forgets, Elsewhere, SameAt, JobsOf, AnsweredBy
    <3>4. CASE j.id # d
      <4>1. SameAt(w, d)  BY <2>2, <3>2, <3>4 DEF SameAt, JobsOf, AnsweredBy
      <4> QED  BY <2>1, <3>1, <4>1 DEF Idles, Elsewhere, NoPost
    <3> QED  BY <3>3, <3>4
  <2>3. ASSUME step[w] = "posted", step' = [step EXCEPT ![w] = "settled"],
               forgotten' = forgotten \cup {current[w].id}, UNCHANGED <<jobs, current>>
        PROVE  Idles(d) \/ Forgets(d)
    <3>1. Elsewhere(w, d)  BY <1>0, <2>3, OthersSame
    <3>2. ~AnsweredBy(w, d)' /\ JobsOf(w, d)' = JobsOf(w, d)
      BY <1>0, <2>3 DEF TypeOK, AnsweredBy, JobsOf
    <3>3. CASE current[w].id = d
      BY <2>1, <2>3, <3>1, <3>2, <3>3 DEF Forgets, Elsewhere, SameAt
    <3>4. CASE current[w].id # d
      <4>1. SameAt(w, d)  BY <3>2, <3>4 DEF SameAt, AnsweredBy
      <4> QED  BY <2>1, <3>1, <4>1 DEF Idles, Elsewhere, NoPost
    <3> QED  BY <3>3, <3>4
  <2>4. ASSUME step[w] = "settled", step' = [step EXCEPT ![w] = "batch"],
               current' = [current EXCEPT ![w] = NoJob], UNCHANGED jobs
        PROVE  Idles(d)
    <3>1. Elsewhere(w, d)  BY <1>0, <2>4, OthersSame
    <3>2. SameAt(w, d)  BY <1>0, <2>4 DEF TypeOK, SameAt, AnsweredBy, JobsOf
    <3> QED  BY <2>1, <3>1, <3>2 DEF Idles, Elsewhere, NoPost
  <2> QED  BY <1>11, <2>2, <2>3, <2>4 DEF LoseUpdate
<1>12. ASSUME NEW w \in Dispatchers, Crash(w) PROVE Idles(d) \/ Forgets(d)
  <2>1. /\ step' = [step EXCEPT ![w] = "polling"] /\ jobs' = [jobs EXCEPT ![w] = {}]
        /\ current' = [current EXCEPT ![w] = NoJob]
        /\ forgotten' = forgotten \cup {x \in Deliveries : AtWork(w, x)}
        /\ UNCHANGED <<row, accepted, posts>>
    BY <1>12 DEF Crash
  <2>2. Elsewhere(w, d)  BY <1>0, <2>1, OthersSame
  <2>3. JobsOf(w, d)' = {} /\ ~AnsweredBy(w, d)'
    BY <1>0, <2>1 DEF TypeOK, JobsOf, AnsweredBy
  <2>4. CASE AtWork(w, d)
    BY <2>1, <2>2, <2>3, <2>4 DEF Forgets, Elsewhere, SameAt
  <2>5. CASE ~AtWork(w, d)
    <3>1. SameAt(w, d)  BY <2>3, <2>5 DEF AtWork, SameAt, JobsOf, AnsweredBy
    <3> QED  BY <2>1, <2>2, <3>1 DEF Idles, Elsewhere, NoPost
  <2> QED  BY <2>4, <2>5
<1>13. CASE UNCHANGED vars
  BY <1>1, <1>13 DEF vars
<1> QED
  BY <1>2, <1>3, <1>4, <1>5, <1>6, <1>7, <1>8, <1>9, <1>10, <1>11, <1>12, <1>13, ClaimSteps
  DEF Next, Edit, Dispatch

\* A delivery that was claimed while it was being worked on, or lost, remains so.
LEMMA HistoryGrows ==
    ASSUME [Next]_vars
    PROVE  doubled \subseteq doubled' /\ forgotten \subseteq forgotten'
BY DEF Next, Edit, Dispatch, vars, Emit, TestPing, SetEnabled, DeleteEndpoint,
       BecomeDue, Claim, LoadEndpoints, SkipJob, Post, SettleRow, SettleEndpoint,
       EndIteration, LoseUpdate, Crash

-----------------------------------------------------------------------------
(* A delivery no two claims of which overlap *)

\* At most one job, or one answer, of it is to be settled, and its row is pending, or
\* gone, until it is.
Single(d) ==
    /\ \A v, w \in Dispatchers :
         (JobsOf(v, d) # {} \/ AnsweredBy(v, d)) /\ (JobsOf(w, d) # {} \/ AnsweredBy(w, d))
           => v = w
    /\ \A w \in Dispatchers :
         /\ JobsOf(w, d) # {} \/ AnsweredBy(w, d) => row[d].status \in {"pending", "absent"}
         /\ AnsweredBy(w, d) => JobsOf(w, d) = {}
         /\ \A i, j \in JobsOf(w, d) : i = j

OneClaim == \A d \in Deliveries \ doubled : Single(d)

LEMMA OneClaimStep == Inv /\ OneClaim /\ [Next]_vars => OneClaim'
<1> SUFFICES ASSUME Inv, OneClaim, [Next]_vars, NEW d \in Deliveries, d \notin doubled'
             PROVE  Single(d)'
  BY DEF OneClaim
<1>1. Single(d)  BY HistoryGrows DEF OneClaim
<1>2. CASE Idles(d)
  BY <1>1, <1>2 DEF Single, Idles, SameAt
<1>3. CASE Forgets(d)
  BY <1>1, <1>3 DEF Single, Forgets
<1>4. ASSUME NEW w \in Dispatchers, Claims(w, d) PROVE Single(d)'
  <2>1. \A v \in Dispatchers : v # w => JobsOf(v, d)' = {} /\ ~AnsweredBy(v, d)'
    BY <1>4 DEF Claims, Elsewhere, SameAt
  <2> QED  BY <1>4, <2>1 DEF Single, Claims
<1>5. ASSUME NEW w \in Dispatchers, Skips(w, d) PROVE Single(d)'
  <2>1. \A v \in Dispatchers : v # w => JobsOf(v, d)' = {} /\ ~AnsweredBy(v, d)'
    BY <1>1, <1>5 DEF Single, Skips, Elsewhere, SameAt
  <2>2. JobsOf(w, d)' = {} /\ ~AnsweredBy(w, d)'
    BY <1>1, <1>5 DEF Single, Skips
  <2> QED  BY <2>1, <2>2 DEF Single
<1>6. ASSUME NEW w \in Dispatchers, PostsJob(w, d) PROVE Single(d)'
  <2>1. \A v \in Dispatchers : v # w => JobsOf(v, d)' = {} /\ ~AnsweredBy(v, d)'
    BY <1>1, <1>6 DEF Single, PostsJob, Elsewhere, SameAt
  <2>2. JobsOf(w, d)' = {} /\ row'[d].status \in {"pending", "absent"}
    BY <1>1, <1>6 DEF Single, PostsJob
  <2> QED  BY <2>1, <2>2 DEF Single
<1>7. ASSUME NEW w \in Dispatchers, Settles(w, d) PROVE Single(d)'
  <2>1. \A v \in Dispatchers : JobsOf(v, d)' = {} /\ ~AnsweredBy(v, d)'
    BY <1>1, <1>7 DEF Single, Settles, Elsewhere, SameAt
  <2> QED  BY <2>1 DEF Single
<1> QED  BY <1>2, <1>3, <1>4, <1>5, <1>6, <1>7, WorkSteps

LEMMA InitOneClaim == Init => OneClaim
BY DEF Init, OneClaim, Single, JobsOf, AnsweredBy

\* For any number of dispatchers, crashes and lost updates: a settled delivery
\* stays settled, unless it was claimed while an earlier claim was at work on it.
THEOREM SettledFinal == Spec => ReopenedOnlyIfDoubled
<1>1. ASSUME Inv, OneClaim, [Next]_vars, NEW d \in Deliveries \ doubled,
             row[d].status \in {"delivered", "failed", "abandoned"}
      PROVE  row'[d].status \in {row[d].status, "absent"}
  <2>1. Single(d)  BY <1>1 DEF OneClaim
  <2>2. \A w \in Dispatchers : JobsOf(w, d) = {} /\ ~AnsweredBy(w, d)
    BY <1>1, <2>1 DEF Single
  <2> QED
    BY <1>1, <2>2, WorkSteps DEF Idles, Forgets, Claims, Skips, PostsJob, Settles
<1>2. Inv /\ OneClaim /\ [Next]_vars
        => [\A d \in Deliveries \ doubled :
              row[d].status \in {"delivered", "failed", "abandoned"}
                => row'[d].status \in {row[d].status, "absent"}]_vars
  BY <1>1
<1> QED
  BY <1>2, InitOneClaim, OneClaimStep, Invariance, PTL DEF Spec, ReopenedOnlyIfDoubled

-----------------------------------------------------------------------------
(* A delivery whose claims neither overlap nor are lost *)

Waiting(d) == \E w \in Dispatchers : JobsOf(w, d) # {}
Answered(d) == \E w \in Dispatchers : AnsweredBy(w, d)

\* All attempts of a pending delivery but the one that waits have been POSTed; one
\* no dispatcher is at work on has an entry of the retry schedule left.
Counted(d) ==
    /\ Waiting(d) => posts[d] = row[d].attempts - 1
    /\ ~Waiting(d) => posts[d] = row[d].attempts
    /\ Waiting(d) \/ Answered(d) => row[d].attempts \in 1..(Retries + 1)
    /\ ~Waiting(d) /\ ~Answered(d) => row[d].attempts \in 0..Retries
    /\ \A w \in Dispatchers :
         /\ \A j \in JobsOf(w, d) : j.attempt = row[d].attempts
         /\ AnsweredBy(w, d) => current[w].attempt = row[d].attempts

\* What has been POSTed, and what has been accepted, by the status of the row.
Told(d) ==
    /\ row[d].status = "absent" /\ endpoint[EndpointOf(d)].exists =>
         posts[d] = 0 /\ d \notin accepted
    /\ row[d].status = "pending" => Counted(d)
    /\ row[d].status = "failed" => posts[d] = Retries + 1
    /\ d \in accepted =>
         /\ ~Waiting(d)
         /\ row[d].status = "pending" =>
              \E w \in Dispatchers : AnsweredBy(w, d) /\ current[w].answer = "ok"

AllTold == \A d \in Deliveries \ Disturbed : Told(d)

\* The frame of the steps that neither claim, POST nor settle.
LEMMA ToldIdle ==
    ASSUME Inv, [Next]_vars, NEW d \in Deliveries, Told(d), Idles(d)
    PROVE  Told(d)'
<1>0. TypeOK /\ PostedIsJob /\ ClaimedHasRow  BY DEF Inv
<1>1. (Waiting(d)' <=> Waiting(d)) /\ (Answered(d)' <=> Answered(d))
  BY DEF Idles, SameAt, Waiting, Answered
<1>2. posts'[d] = posts[d] /\ (d \in accepted' <=> d \in accepted)
  BY DEF Idles, NoPost
<1>3. RowKept(d)  BY <1>0, RowsKept
<1>4. CASE row'[d].status = row[d].status /\ row'[d].attempts = row[d].attempts
  <2>1. Counted(d) => Counted(d)'
    BY <1>1, <1>2, <1>4 DEF Counted, Idles, SameAt
  <2>2. row[d].status = "absent" /\ endpoint'[EndpointOf(d)].exists
          => endpoint[EndpointOf(d)].exists
    BY <1>3, <1>4 DEF RowKept
  <2>3. \A w \in Dispatchers : AnsweredBy(w, d) =>
          AnsweredBy(w, d)' /\ current'[w] = current[w]
    BY DEF Idles, SameAt
  <2> QED  BY <1>1, <1>2, <1>4, <2>1, <2>2, <2>3 DEF Told
<1>5. CASE row[d].status = "absent" /\ row'[d].status = "pending" /\ row'[d].attempts = 0
  <2>1. endpoint[EndpointOf(d)].exists  BY <1>3, <1>5 DEF RowKept
  <2>2. posts[d] = 0 /\ d \notin accepted  BY <1>5, <2>1 DEF Told
  <2>3. \A w \in Dispatchers : \A j \in Claimed(w) : j.id # d
    BY <1>0, <1>5, <2>1 DEF ClaimedHasRow
  <2>4. ~Waiting(d)  BY <2>3 DEF Waiting, JobsOf, Claimed
  <2>5. ~Answered(d)
    <3> SUFFICES ASSUME NEW w \in Dispatchers, step[w] = "posted", current[w].id = d
                 PROVE  FALSE
      BY DEF Answered, AnsweredBy
    <3>1. [id |-> current[w].id, attempt |-> current[w].attempt] \in Claimed(w)
      BY DEF Claimed, Posted
    <3> QED  BY <2>3, <3>1
  <2>6. Counted(d)'
    BY <1>1, <1>2, <1>5, <2>2, <2>4, <2>5, RetriesType DEF Counted, Waiting, Answered
  <2> QED  BY <1>2, <1>5, <2>2, <2>6 DEF Told
<1>6. CASE row'[d].status = "absent" /\ row[d].status # "absent"
  <2>1. ~endpoint'[EndpointOf(d)].exists  BY <1>3, <1>6 DEF RowKept
  <2> QED  BY <1>1, <1>2, <1>6, <2>1 DEF Told
<1> QED  BY <1>4, <1>5, <1>6, <1>2, <1>1, <1>3 DEF Idles, Told, RowKept

LEMMA AllToldStep == Inv /\ OneClaim /\ AllTold /\ [Next]_vars => AllTold'
<1> SUFFICES ASSUME Inv, OneClaim, AllTold, [Next]_vars, NEW d \in Deliveries,
                    d \notin Disturbed'
             PROVE  Told(d)'
  BY DEF AllTold
<1>0. TypeOK /\ PostedIsJob /\ ClaimedHasRow  BY DEF Inv
<1>1. Told(d) /\ Single(d) /\ d \notin doubled' /\ d \notin forgotten'
  BY HistoryGrows DEF AllTold, OneClaim, Disturbed
<1>2. row[d].attempts \in Nat /\ posts[d] \in Nat /\ Retries \in Nat
  BY <1>0, RetriesType DEF TypeOK
<1>3. ASSUME NEW w \in Dispatchers, Claims(w, d) PROVE Told(d)'
  <2>1. \A v \in Dispatchers : JobsOf(v, d) = {} /\ ~AnsweredBy(v, d)
    BY <1>1, <1>3 DEF Claims
  <2>2. ~Waiting(d) /\ ~Answered(d) /\ Waiting(d)' /\ ~Answered(d)'
    BY <1>3, <2>1 DEF Claims, Waiting, Answered, Elsewhere, SameAt
  <2>3. row[d].status = "pending" /\ Counted(d) /\ d \notin accepted
    BY <1>1, <1>3, <2>1 DEF Claims, Told
  <2>4. /\ posts'[d] = posts[d] /\ d \notin accepted'
        /\ row'[d].attempts = row[d].attempts + 1 /\ row'[d].status = "pending"
    BY <1>3, <2>3 DEF Claims, NoPost
  <2>5. \A v \in Dispatchers : /\ \A j \in JobsOf(v, d)' : j.attempt = row'[d].attempts
                             /\ ~AnsweredBy(v, d)'
    BY <1>3, <2>1, <2>4 DEF Claims, Elsewhere, SameAt
  <2>6. Counted(d)'
    BY <1>2, <2>2, <2>3, <2>4, <2>5 DEF Counted
  <2> QED  BY <2>4, <2>6 DEF Told
<1>4. ASSUME NEW w \in Dispatchers, Skips(w, d) PROVE Told(d)'
  <2>1. Waiting(d)  BY <1>4 DEF Skips, Waiting
  <2>2. d \notin accepted /\ d \notin accepted'
    BY <1>1, <1>4, <2>1 DEF Told, Skips, NoPost
  <2>3. row'[d].status = "abandoned" \/ (row[d].status = "absent" /\ row'[d].status = "absent")
    BY <1>4 DEF Skips, Settled
  <2>4. row[d].status = "absent" => ~endpoint[EndpointOf(d)].exists
    BY <1>0, <2>1 DEF Waiting, JobsOf, ClaimedHasRow, Claimed
  <2>5. row'[d].status = "absent" => ~endpoint'[EndpointOf(d)].exists
    BY <1>0, <2>3, <2>4, RowsKept DEF RowKept
  <2> QED  BY <2>2, <2>3, <2>5 DEF Told
<1>5. ASSUME NEW w \in Dispatchers, PostsJob(w, d) PROVE Told(d)'
  <2>1. PICK j \in JobsOf(w, d) : /\ JobsOf(w, d)' = JobsOf(w, d) \ {j}
                                 /\ current'[w].attempt = j.attempt
    BY <1>5 DEF PostsJob
  <2>2. JobsOf(w, d)' = {} /\ Waiting(d) /\ row[d].status \in {"pending", "absent"}
    BY <1>1, <2>1 DEF Single, Waiting
  <2>3. \A v \in Dispatchers : v # w => JobsOf(v, d)' = {} /\ ~AnsweredBy(v, d)'
    BY <1>1, <1>5, <2>1 DEF Single, PostsJob, Elsewhere, SameAt
  <2>4. ~Waiting(d)' /\ Answered(d)' /\ AnsweredBy(w, d)'
    BY <1>5, <2>2, <2>3 DEF Waiting, Answered, PostsJob
  <2>5. d \notin accepted /\ (d \in accepted' => current'[w].answer = "ok")
    BY <1>1, <1>5, <2>2 DEF Told, PostsJob
  <2>6. row'[d] = row[d] /\ posts'[d] = posts[d] + 1  BY <1>5 DEF PostsJob
  <2>7. row[d].status = "pending" => Counted(d)'
    <3> SUFFICES ASSUME row[d].status = "pending" PROVE Counted(d)'
      OBVIOUS
    <3>1. Counted(d)  BY <1>1 DEF Told
    <3>2. /\ posts[d] = row[d].attempts - 1 /\ row[d].attempts \in 1..(Retries + 1)
          /\ j.attempt = row[d].attempts
      BY <2>2, <3>1 DEF Counted
    <3>3. \A v \in Dispatchers :
            AnsweredBy(v, d)' => current'[v].attempt = row'[d].attempts
      BY <2>1, <2>3, <2>6, <3>2
    <3>4. posts'[d] = row'[d].attempts /\ row'[d].attempts \in 1..(Retries + 1)
      BY <1>2, <2>6, <3>2
    <3>5. \A v \in Dispatchers : JobsOf(v, d)' = {}  BY <2>2, <2>3
    <3>6. \A v \in Dispatchers : \A i \in JobsOf(v, d)' : i.attempt = row'[d].attempts
      BY <3>5
    <3> QED  BY <2>4, <3>3, <3>4, <3>6 DEF Counted
  <2>8. row[d].status = "absent" => ~endpoint[EndpointOf(d)].exists
    BY <1>0, <2>2 DEF Waiting, JobsOf, ClaimedHasRow, Claimed
  <2>9. row'[d].status = "absent" => ~endpoint'[EndpointOf(d)].exists
    BY <1>0, <2>6, <2>8, RowsKept DEF RowKept
  <2>10. d \in accepted' =>
           \E v \in Dispatchers : AnsweredBy(v, d)' /\ current'[v].answer = "ok"
    BY <2>4, <2>5
  <2> QED  BY <2>2, <2>4, <2>6, <2>7, <2>9, <2>10 DEF Told
<1>6. ASSUME NEW w \in Dispatchers, Settles(w, d) PROVE Told(d)'
  <2>1. /\ AnsweredBy(w, d) /\ row[d].status \in {"pending", "absent"}
        /\ \A v \in Dispatchers : JobsOf(v, d)' = {} /\ ~AnsweredBy(v, d)'
        /\ \A v \in Dispatchers : JobsOf(v, d) = {} /\ (AnsweredBy(v, d) => v = w)
    BY <1>1, <1>6 DEF Single, Settles, Elsewhere, SameAt
  <2>2. ~Waiting(d) /\ Answered(d) /\ ~Waiting(d)' /\ ~Answered(d)'
    BY <2>1 DEF Waiting, Answered
  <2>3. posts'[d] = posts[d] /\ (d \in accepted' <=> d \in accepted)
    BY <1>6 DEF Settles, NoPost
  <2>4. /\ row'[d].attempts = row[d].attempts
        /\ row[d].status = "absent" => row'[d].status = "absent"
        /\ row[d].status # "absent" => row'[d].status = Verdict(current[w])
    BY <1>6 DEF Settles, Settled
  <2>5. CASE row[d].status = "absent"
    <3>1. [id |-> current[w].id, attempt |-> current[w].attempt] \in Claimed(w)
      BY <2>1 DEF Claimed, Posted, AnsweredBy
    <3>2. ~endpoint[EndpointOf(d)].exists
      BY <1>0, <2>1, <2>5, <3>1 DEF ClaimedHasRow, AnsweredBy
    <3>3. ~endpoint'[EndpointOf(d)].exists
      BY <1>0, <2>4, <2>5, <3>2, RowsKept DEF RowKept
    <3> QED  BY <2>2, <2>4, <2>5, <3>3 DEF Told
  <2>6. CASE row[d].status = "pending"
    <3>1. Counted(d)  BY <1>1, <2>6 DEF Told
    <3>2. /\ posts[d] = row[d].attempts /\ row[d].attempts \in 1..(Retries + 1)
          /\ current[w].attempt = row[d].attempts
      BY <2>1, <2>2, <3>1 DEF Counted
    <3>3. d \in accepted => current[w].answer = "ok"
      BY <1>1, <2>1, <2>6 DEF Told
    <3>4. row'[d].status = Verdict(current[w])  BY <2>4, <2>6
    <3>5. row'[d].status = "pending" => RetryLeft(current[w]) /\ d \notin accepted'
      BY <2>3, <3>3, <3>4 DEF Verdict
    <3>6. row'[d].status = "failed" => ~RetryLeft(current[w])
      BY <3>4 DEF Verdict
    <3>7. row'[d].status = "pending" => Counted(d)'
      BY <1>2, <2>1, <2>2, <2>3, <2>4, <3>2, <3>5 DEF Counted, RetryLeft
    <3>8. row'[d].status = "failed" => posts'[d] = Retries + 1
      BY <1>2, <2>3, <3>2, <3>6 DEF RetryLeft
    <3>9. row'[d].status # "absent"  BY <3>4 DEF Verdict
    <3> QED  BY <2>2, <3>5, <3>7, <3>8, <3>9 DEF Told
  <2> QED  BY <2>1, <2>5, <2>6
<1> QED
  BY <1>1, <1>3, <1>4, <1>5, <1>6, WorkSteps, ToldIdle DEF Forgets

LEMMA InitAllTold == Init => AllTold
BY DEF Init, AllTold, Told, Waiting, JobsOf

LEMMA ToldInvariance == Spec => [](OneClaim /\ AllTold)
BY InitOneClaim, InitAllTold, OneClaimStep, AllToldStep, Invariance, PTL DEF Spec

\* For any number of dispatchers: what a receiver has accepted is POSTed again only
\* if its claims overlapped or the outcome of one was never written down.
THEOREM AtMostOnceAccepted == Spec => ResentOnlyIfDisturbed
<1>1. ASSUME Inv, AllTold, [Next]_vars, NEW d \in accepted \ Disturbed
      PROVE  posts'[d] = posts[d]
  <2>0. d \in Deliveries  BY <1>1 DEF Inv, TypeOK
  <2>1. Told(d)  BY <1>1, <2>0 DEF AllTold
  <2>2. \/ posts'[d] = posts[d]
        \/ \E w \in Dispatchers : \E j \in jobs[w], answer \in Responses : Post(w, j, answer)
    BY <1>1, PostSteps
  <2>3. ASSUME NEW w \in Dispatchers, NEW j \in jobs[w], NEW answer \in Responses,
               Post(w, j, answer)
        PROVE  posts'[d] = posts[d]
    <3>1. j.id # d  BY <2>1 DEF Told, Waiting, JobsOf
    <3> QED  BY <2>0, <2>3, <3>1 DEF Post, Inv, TypeOK
  <2> QED  BY <2>2, <2>3
<1>2. Inv /\ AllTold /\ [Next]_vars
        => [\A d \in accepted \ Disturbed : posts'[d] = posts[d]]_vars
  BY <1>1
<1> QED  BY <1>2, Invariance, ToldInvariance, PTL DEF Spec, ResentOnlyIfDisturbed

\* For any number of dispatchers: a delivery whose claims neither overlapped nor
\* were lost is given up as failed only after one POST more than the retry
\* schedule is long.
THEOREM FailedAfterLastAttempt == Spec => []FailedAfterAllAttempts
<1>1. AllTold => FailedAfterAllAttempts  BY DEF AllTold, Told, FailedAfterAllAttempts
<1> QED  BY <1>1, ToldInvariance, PTL
=============================================================================
