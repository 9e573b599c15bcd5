-------------------------- MODULE WebhookDelivery --------------------------
(***************************************************************************)
(* Outbound webhooks: webhooks/events.rs puts deliveries in the table      *)
(* webhook_deliveries, webhooks/dispatcher.rs takes them out again, and    *)
(* webhooks/handler.rs lets the owner of an endpoint change it meanwhile.  *)
(*                                                                         *)
(* Every process with the api role runs one dispatcher.  An action is one  *)
(* SQL statement, committed on its own, or one HTTP request; a dispatcher  *)
(* can die between any two, and an UPDATE that fails is ignored by the     *)
(* code (let _ = ...) and so simply does not happen.                       *)
(***************************************************************************)
EXTENDS Naturals, FiniteSets

CONSTANTS
    Dispatchers,
    Endpoints,
    Events,
    BatchSize,       \* LIMIT of the claim (25)
    Retries,         \* length of RETRY_SCHEDULE_MINUTES (2)
    Threshold,       \* AUTO_DISABLE_THRESHOLD (20)
    MaxFaults,       \* bound on crashes and failed UPDATEs
    MaxEdits         \* bound on what the owners of endpoints do

ASSUME BatchSizeType == BatchSize \in Nat \ {0}
ASSUME RetriesType == Retries \in Nat
ASSUME ThresholdType == Threshold \in Nat \ {0}
ASSUME BoundsType == MaxFaults \in Nat /\ MaxEdits \in Nat

\* One row per event and endpoint it fans out to.
Deliveries == Events \X Endpoints
EndpointOf(d) == d[2]

Statuses == {"absent", "pending", "delivered", "failed", "abandoned"}
\* What a POST can come to: a 2xx; a 4xx other than 408 and 429; anything else,
\* including a request that times out after the receiver has handled it.
Responses == {"ok", "refused", "retryable"}

VARIABLES
    endpoint,     \* webhook_endpoints: [exists, enabled, failures]
    row,          \* webhook_deliveries: [status, attempts, due]
    jobs,         \* the claimed rows a dispatcher has not settled: [id, attempt]
    snapshot,     \* the endpoints it found enabled, loaded after the claim
    step,         \* where a dispatcher is in its iteration
    current,      \* the job it is at, and what the receiver answered
    accepted,     \* ghost: deliveries a receiver has answered with a 2xx
    posts,        \* ghost: how often each delivery was POSTed
    doubled,      \* ghost: those claimed again before a claim of theirs was settled
    forgotten,    \* ghost: those a claim of which was never settled
    faults, edits

vars == <<endpoint, row, jobs, snapshot, step, current, accepted, posts,
          doubled, forgotten, faults, edits>>

Jobs == [id : Deliveries, attempt : Nat]
NoJob == [answer |-> "none"]

-----------------------------------------------------------------------------
(* Producers and owners *)

Enabled(e) == endpoint[e].exists /\ endpoint[e].enabled
NewRow == [status |-> "pending", attempts |-> 0, due |-> TRUE]

\* Seeded fault: rows are inserted under a status no claim looks for.
EmitQueued(ev) ==
    /\ \A e \in Endpoints : row[<<ev, e>>].status = "absent"
    /\ row' = [d \in Deliveries |->
                 IF d[1] = ev /\ Enabled(d[2])
                 THEN [NewRow EXCEPT !.status = "queued"] ELSE row[d]]
    /\ UNCHANGED <<endpoint, jobs, snapshot, step, current, accepted, posts,
                   doubled, forgotten, faults, edits>>

\* emit(): one INSERT ... SELECT over the endpoints that are enabled and that
\* the event concerns, whose owner and subscription match it.
Emit(ev) ==
    /\ \A e \in Endpoints : row[<<ev, e>>].status = "absent"
    /\ \E concerned \in SUBSET {e \in Endpoints : Enabled(e)} :
         /\ concerned # {}
         /\ row' = [d \in Deliveries |->
                      IF d[1] = ev /\ d[2] \in concerned THEN NewRow ELSE row[d]]
    /\ UNCHANGED <<endpoint, jobs, snapshot, step, current, accepted, posts,
                   doubled, forgotten, faults, edits>>

\* test_webhook(): a ping for one endpoint, enabled or not.
TestPing(d) ==
    /\ edits < MaxEdits /\ edits' = edits + 1
    /\ \A e \in Endpoints : row[<<d[1], e>>].status = "absent"
    /\ endpoint[EndpointOf(d)].exists
    /\ row' = [row EXCEPT ![d] = NewRow]
    /\ UNCHANGED <<endpoint, jobs, snapshot, step, current, accepted, posts,
                   doubled, forgotten, faults>>

\* Seeded fault: re-enabling does not restart the failure counter.
SetEnabledKeepsFailures(e, value) ==
    /\ edits < MaxEdits /\ edits' = edits + 1
    /\ endpoint[e].exists
    /\ endpoint' = [endpoint EXCEPT ![e].enabled = value]
    /\ UNCHANGED <<row, jobs, snapshot, step, current, accepted, posts,
                   doubled, forgotten, faults>>

\* update_webhook() with `enabled` set: failures restart from 0 on re-enabling.
SetEnabled(e, value) ==
    /\ edits < MaxEdits /\ edits' = edits + 1
    /\ endpoint[e].exists
    /\ endpoint' = [endpoint EXCEPT
                      ![e].enabled = value,
                      ![e].failures = IF value /\ ~endpoint[e].enabled THEN 0 ELSE @]
    /\ UNCHANGED <<row, jobs, snapshot, step, current, accepted, posts,
                   doubled, forgotten, faults>>

\* delete_webhook(); the rows go with the endpoint (ON DELETE CASCADE).
DeleteEndpoint(e) ==
    /\ edits < MaxEdits /\ edits' = edits + 1
    /\ endpoint[e].exists
    /\ endpoint' = [endpoint EXCEPT ![e].exists = FALSE]
    /\ row' = [d \in Deliveries |-> IF EndpointOf(d) = e
                                    THEN [row[d] EXCEPT !.status = "absent"]
                                    ELSE row[d]]
    /\ UNCHANGED <<jobs, snapshot, step, current, accepted, posts,
                   doubled, forgotten, faults>>

\* Seeded fault: the schedule is read one entry too far, and the last retry has
\* no next_attempt_at.
BecomeDueButLast(d) ==
    /\ row[d].status = "pending" /\ ~row[d].due /\ row[d].attempts < Retries
    /\ row' = [row EXCEPT ![d].due = TRUE]
    /\ UNCHANGED <<endpoint, jobs, snapshot, step, current, accepted, posts,
                   doubled, forgotten, faults, edits>>

\* next_attempt_at comes up.
BecomeDue(d) ==
    /\ row[d].status = "pending" /\ ~row[d].due
    /\ row' = [row EXCEPT ![d].due = TRUE]
    /\ UNCHANGED <<endpoint, jobs, snapshot, step, current, accepted, posts,
                   doubled, forgotten, faults, edits>>

-----------------------------------------------------------------------------
(* run_iteration *)

\* Seeded fault: the claim does not look at the status.
ReadyWhateverStatus == {d \in Deliveries : row[d].status # "absent" /\ row[d].due}

Ready == {d \in Deliveries : row[d].status = "pending" /\ row[d].due}

\* w has claimed d and has not yet settled its row.
AtWork(w, d) ==
    \/ \E j \in jobs[w] : j.id = d
    \/ step[w] = "posted" /\ current[w].id = d

\* Seeded fault: the claim does not count the attempt.
ClaimUncounted(w) ==
    /\ step[w] = "polling"
    /\ \E S \in SUBSET Ready :
         /\ S # {}
         /\ Cardinality(S) = BatchSize \/ (S = Ready /\ Cardinality(S) < BatchSize)
         /\ jobs' = [jobs EXCEPT ![w] =
                       {[id |-> d, attempt |-> row[d].attempts + 1] : d \in S}]
    /\ step' = [step EXCEPT ![w] = "claimed"]
    /\ UNCHANGED <<endpoint, row, snapshot, current, accepted, posts,
                   doubled, forgotten, faults, edits>>

\* SELECT ... FOR UPDATE SKIP LOCKED LIMIT 25, and the UPDATE around it: one
\* statement, whose locks are gone when it returns.
Claim(w) ==
    /\ step[w] = "polling"
    /\ \E S \in SUBSET Ready :
         /\ S # {}
         /\ Cardinality(S) = BatchSize \/ (S = Ready /\ Cardinality(S) < BatchSize)
         /\ row' = [d \in Deliveries |->
                      IF d \in S THEN [row[d] EXCEPT !.attempts = @ + 1] ELSE row[d]]
         /\ jobs' = [jobs EXCEPT ![w] =
                       {[id |-> d, attempt |-> row[d].attempts + 1] : d \in S}]
         /\ doubled' = doubled \cup {d \in S : \E v \in Dispatchers : AtWork(v, d)}
    /\ step' = [step EXCEPT ![w] = "claimed"]
    /\ UNCHANGED <<endpoint, snapshot, current, accepted, posts, forgotten,
                   faults, edits>>

\* The endpoints of the whole batch, read once.
LoadEndpoints(w) ==
    /\ step[w] = "claimed"
    /\ snapshot' = [snapshot EXCEPT ![w] =
                      {e \in Endpoints : Enabled(e)}]
    /\ step' = [step EXCEPT ![w] = "batch"]
    /\ UNCHANGED <<endpoint, row, jobs, current, accepted, posts,
                   doubled, forgotten, faults, edits>>

\* UPDATE webhook_deliveries ... WHERE id = d: no row, no effect.
SetRow(d, status, due) ==
    row' = IF row[d].status = "absent" THEN row
           ELSE [row EXCEPT ![d].status = status, ![d].due = due]

\* The next job's endpoint is gone or disabled: mark_abandoned, no POST.
SkipJob(w, j) ==
    /\ step[w] = "batch" /\ j \in jobs[w]
    /\ EndpointOf(j.id) \notin snapshot[w]
    /\ SetRow(j.id, "abandoned", row[j.id].due)
    /\ jobs' = [jobs EXCEPT ![w] = @ \ {j}]
    /\ UNCHANGED <<endpoint, snapshot, step, current, accepted, posts,
                   doubled, forgotten, faults, edits>>

\* deliver(): the POST, and the receiver's answer to it.
Post(w, j, answer) ==
    /\ step[w] = "batch" /\ j \in jobs[w]
    /\ EndpointOf(j.id) \in snapshot[w]
    /\ posts' = [posts EXCEPT ![j.id] = @ + 1]
    /\ accepted' = IF answer = "ok" THEN accepted \cup {j.id} ELSE accepted
    /\ current' = [current EXCEPT ![w] =
                     [id |-> j.id, attempt |-> j.attempt, answer |-> answer]]
    /\ jobs' = [jobs EXCEPT ![w] = @ \ {j}]
    /\ step' = [step EXCEPT ![w] = "posted"]
    /\ UNCHANGED <<endpoint, row, snapshot, doubled, forgotten, faults, edits>>

\* Seeded fault: the retry after the last entry but one is not made.
RetryLeftOneFewer(j) == j.attempt < Retries

\* schedule_retry_or_abandon: RETRY_SCHEDULE_MINUTES has an entry for this one.
RetryLeft(j) == j.attempt <= Retries

\* Seeded fault: a delivered row is left pending.
SettleRowUnmarked(w) ==
    /\ step[w] = "posted"
    /\ LET j == current[w] IN
         CASE j.answer = "ok" -> UNCHANGED row
           [] j.answer = "refused" -> SetRow(j.id, "abandoned", row[j.id].due)
           [] j.answer = "retryable" /\ RetryLeft(j) -> SetRow(j.id, "pending", FALSE)
           [] j.answer = "retryable" /\ ~RetryLeft(j) ->
                SetRow(j.id, "failed", row[j.id].due)
    /\ step' = [step EXCEPT ![w] = "settled"]
    /\ UNCHANGED <<endpoint, jobs, snapshot, current, accepted, posts,
                   doubled, forgotten, faults, edits>>

\* The first UPDATE of mark_delivered, mark_abandoned_with_response or
\* schedule_retry_or_abandon.
SettleRow(w) ==
    /\ step[w] = "posted"
    /\ LET j == current[w] IN
         CASE j.answer = "ok" -> SetRow(j.id, "delivered", row[j.id].due)
           [] j.answer = "refused" -> SetRow(j.id, "abandoned", row[j.id].due)
           [] j.answer = "retryable" /\ RetryLeft(j) -> SetRow(j.id, "pending", FALSE)
           [] j.answer = "retryable" /\ ~RetryLeft(j) ->
                SetRow(j.id, "failed", row[j.id].due)
    /\ step' = [step EXCEPT ![w] = "settled"]
    /\ UNCHANGED <<endpoint, jobs, snapshot, current, accepted, posts,
                   doubled, forgotten, faults, edits>>

\* record_failure
Failed(e) ==
    [endpoint EXCEPT ![e].failures = @ + 1,
                     ![e].enabled = endpoint[e].failures + 1 < Threshold /\ @]

\* The UPDATE of the endpoint that follows; a retry has none.
SettleEndpoint(w) ==
    /\ step[w] = "settled"
    /\ LET j == current[w]
           e == EndpointOf(j.id) IN
         endpoint' = IF ~endpoint[e].exists THEN endpoint
                     ELSE IF j.answer = "ok" THEN [endpoint EXCEPT ![e].failures = 0]
                     ELSE IF j.answer = "retryable" /\ RetryLeft(j) THEN endpoint
                     ELSE Failed(e)
    /\ current' = [current EXCEPT ![w] = NoJob]
    /\ step' = [step EXCEPT ![w] = "batch"]
    /\ UNCHANGED <<row, jobs, snapshot, accepted, posts,
                   doubled, forgotten, faults, edits>>

\* The batch is done; sleep and poll again.
EndIteration(w) ==
    /\ step[w] = "batch" /\ jobs[w] = {}
    /\ step' = [step EXCEPT ![w] = "polling"]
    /\ snapshot' = [snapshot EXCEPT ![w] = {}]
    /\ UNCHANGED <<endpoint, row, jobs, current, accepted, posts,
                   doubled, forgotten, faults, edits>>

-----------------------------------------------------------------------------
(* Faults *)

\* An UPDATE after the claim fails; its error is dropped.
LoseUpdate(w) ==
    /\ faults < MaxFaults /\ faults' = faults + 1
    /\ \/ /\ step[w] = "batch"
          /\ \E j \in jobs[w] : /\ EndpointOf(j.id) \notin snapshot[w]
                               /\ jobs' = [jobs EXCEPT ![w] = @ \ {j}]
                               /\ forgotten' = forgotten \cup {j.id}
          /\ UNCHANGED <<step, current>>
       \/ /\ step[w] = "posted" /\ step' = [step EXCEPT ![w] = "settled"]
          /\ forgotten' = forgotten \cup {current[w].id}
          /\ UNCHANGED <<jobs, current>>
       \/ /\ step[w] = "settled" /\ step' = [step EXCEPT ![w] = "batch"]
          /\ current' = [current EXCEPT ![w] = NoJob]
          /\ UNCHANGED <<jobs, forgotten>>
    /\ UNCHANGED <<endpoint, row, snapshot, accepted, posts, doubled, edits>>

\* The process dies and another takes its place, or the query for the endpoints
\* fails and run_iteration returns: the rest of the batch is forgotten.
Crash(w) ==
    /\ faults < MaxFaults /\ faults' = faults + 1
    /\ step[w] # "polling"
    /\ step' = [step EXCEPT ![w] = "polling"]
    /\ jobs' = [jobs EXCEPT ![w] = {}]
    /\ snapshot' = [snapshot EXCEPT ![w] = {}]
    /\ current' = [current EXCEPT ![w] = NoJob]
    /\ forgotten' = forgotten \cup {d \in Deliveries : AtWork(w, d)}
    /\ UNCHANGED <<endpoint, row, accepted, posts, doubled, edits>>

-----------------------------------------------------------------------------

Init ==
    /\ endpoint = [e \in Endpoints |->
                     [exists |-> TRUE, enabled |-> TRUE, failures |-> 0]]
    /\ row = [d \in Deliveries |->
                [status |-> "absent", attempts |-> 0, due |-> FALSE]]
    /\ jobs = [w \in Dispatchers |-> {}]
    /\ snapshot = [w \in Dispatchers |-> {}]
    /\ step = [w \in Dispatchers |-> "polling"]
    /\ current = [w \in Dispatchers |-> NoJob]
    /\ accepted = {}
    /\ posts = [d \in Deliveries |-> 0]
    /\ doubled = {} /\ forgotten = {}
    /\ faults = 0 /\ edits = 0

Dispatch(w) ==
    \/ Claim(w) \/ LoadEndpoints(w)
    \/ \E j \in jobs[w] : SkipJob(w, j)
    \/ \E j \in jobs[w], answer \in Responses : Post(w, j, answer)
    \/ SettleRow(w) \/ SettleEndpoint(w) \/ EndIteration(w)

Edit ==
    \/ \E d \in Deliveries : TestPing(d)
    \/ \E e \in Endpoints, value \in BOOLEAN : SetEnabled(e, value)
    \/ \E e \in Endpoints : DeleteEndpoint(e)

Next ==
    \/ \E ev \in Events : Emit(ev)
    \/ Edit
    \/ \E d \in Deliveries : BecomeDue(d)
    \/ \E w \in Dispatchers : Dispatch(w) \/ LoseUpdate(w) \/ Crash(w)

Spec == Init /\ [][Next]_vars

\* The dispatchers poll for ever and time passes.
FairSpec ==
    /\ Spec
    /\ \A w \in Dispatchers : WF_vars(Dispatch(w))
    /\ \A d \in Deliveries : WF_vars(BecomeDue(d))

-----------------------------------------------------------------------------
(* Properties *)

TypeOK ==
    /\ endpoint \in [Endpoints ->
                       [exists : BOOLEAN, enabled : BOOLEAN, failures : Nat]]
    /\ row \in [Deliveries -> [status : Statuses, attempts : Nat, due : BOOLEAN]]
    /\ jobs \in [Dispatchers -> SUBSET Jobs]
    /\ snapshot \in [Dispatchers -> SUBSET Endpoints]
    /\ step \in [Dispatchers -> {"polling", "claimed", "batch", "posted", "settled"}]
    /\ current \in [Dispatchers -> {NoJob} \cup
                      [id : Deliveries, attempt : Nat, answer : Responses]]
    /\ accepted \in SUBSET Deliveries
    /\ posts \in [Deliveries -> Nat]
    /\ doubled \in SUBSET Deliveries /\ forgotten \in SUBSET Deliveries
    /\ faults \in Nat /\ edits \in Nat

\* The job of a dispatcher's POST, from the request to the last UPDATE.
Posted(w) ==
    IF step[w] \in {"posted", "settled"}
    THEN {[id |-> current[w].id, attempt |-> current[w].attempt]} ELSE {}

\* An endpoint that has failed Threshold times in a row takes no events, however
\* the updates of several dispatchers and of its owner are ordered: the counter
\* of an enabled endpoint is below the threshold.
AutoDisable ==
    \A e \in Endpoints :
        endpoint[e].enabled => endpoint[e].failures < Threshold

\* Two dispatchers that have claimed the same row hold different attempts of
\* it, and none that the row has not counted: the retry schedule is indexed by
\* a number no other claim uses.
AttemptsDistinct ==
    \A v, w \in Dispatchers :
        /\ \A j \in jobs[w] \cup Posted(w) :
             row[j.id].status # "absent" => j.attempt <= row[j.id].attempts
        /\ v # w => (jobs[v] \cup Posted(v)) \cap (jobs[w] \cup Posted(w)) = {}

\* dispatcher.rs:57-58, "FOR UPDATE SKIP LOCKED lets several dispatchers run
\* concurrently without double-sending", and technical_wayve.md:128-130 and 950-951:
\* nothing that a receiver accepted is POSTed again.  Refuted: the claim is committed
\* before the POST and leaves the row pending and due for another dispatcher.
NoResendAfterSuccess ==
    [][\A d \in accepted : posts'[d] = posts[d]]_vars

\* A second claim, or a claim whose outcome was never written down, is the only
\* way to POST again what a receiver has accepted.
Disturbed == doubled \cup forgotten

ResentOnlyIfDisturbed ==
    [][\A d \in accepted \ Disturbed : posts'[d] = posts[d]]_vars

\* The UPDATEs of dispatcher.rs:261-362 do not look at the status they overwrite:
\* those of two claims of one row undo each other.  Whatever dispatchers do to
\* other rows, die of or lose, a delivery that is settled, and was never claimed
\* while it was being worked on, stays settled.
ReopenedOnlyIfDoubled ==
    [][\A d \in Deliveries \ doubled :
         row[d].status \in {"delivered", "failed", "abandoned"}
           => row'[d].status \in {row[d].status, "absent"}]_vars

\* technical_wayve.md:915, "3 attempts total": a delivery given up as failed
\* was POSTed once more than there are retries, unless claims of it overlapped
\* or one of them was lost, which costs it a POST.
FailedAfterAllAttempts ==
    \A d \in Deliveries \ Disturbed :
        row[d].status = "failed" => posts[d] = Retries + 1

\* No delivery is left waiting: it is delivered or given up in the end, however
\* often a dispatcher dies on it.
EverySettled ==
    \A d \in Deliveries : row[d].status = "pending" ~> row[d].status # "pending"
=============================================================================
