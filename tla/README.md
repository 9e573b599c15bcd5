# Wayve: formal models

TLA+ models of the parts of Wayve whose correctness depends on the order in
which things happen, the TLC configurations that check them on small instances,
and TLAPS proofs of what matters most. Wayve is one Rust server
(`src/backend/crates/wayve-server`, actix-web over PostgreSQL and Redis), a
React client (`src/frontend`) and a thin Tauri shell; the server runs as several
processes that share the two stores.

Paths below leave out `src/backend/crates/wayve-server/src/` for the server and
`src/frontend/src/` for the client. `calling.md` and `realtime-chat.md` are in
`src/docs/architecture/`, `technical_wayve.md` is in `src/docs/product/`.

## 1. Inventory

### Parts with state that several actors change

| Part | State | Operations | Talks to |
|---|---|---|---|
| Call relay (`call/handler.rs`, `ws_registry.rs`) | SESSIONS (user to sockets), CALLER_SCOPES, ACTIVE_CALLS, three mutexes in one process | socket started; the signals invite, accept, reject, cancel, end, offer/answer/ice; socket stopped | the call session of each tab over a websocket, the audit log |
| Call session (`call/useCallSession.ts`) | callState, pcRef, ring timer, startingRef, socket | start, accept, reject, end, each incoming signal, connection-state changes, reconnect | the relay, the browser's RTCPeerConnection |
| Outbound webhooks (`webhooks/events.rs`, `dispatcher.rs`, `handler.rs`) | `webhook_endpoints` (enabled, failures), `webhook_deliveries` (status, attempt_count, next_attempt_at) | emit, claim, POST, mark delivered / retry / failed / abandoned, edit an endpoint | every feature that emits; receivers over HTTP |
| Stripe subscriptions (`billing/webhook_handler.rs`, `entitlements.rs`, `mod.rs`) | `subscriptions`, `entitlements`, processed events | one handler per event type, refresh of entitlements, the hourly reconciliation | Stripe |
| Organization signup (`billing/organization_upgrade.rs`, `routes/user/organizations.rs`) | pending signups, organizations, members | checkout, confirm, the webhook's finalization, cancellation | Stripe, the webhook handler |
| Presence (`chat/presence.rs`, `cache.rs`) | Redis sorted set of last heartbeats, a counter of sockets per user | connect, heartbeat, disconnect, sweep | chat sockets, pub/sub |
| Chat delivery (`chat/websocket.rs`, `pubsub.rs`, `direct_messages.rs`, `chat/Chat.tsx`) | message rows (sent, delivered, read), local sessions, the lists on two screens | send, on-connect sweep, resync, receipts, publish | presence, Redis |
| Role context cache (`rbac_cache.rs`, `cache.rs`, wayve-security's `rbac.rs`) | a layer per process and a Redis layer over role rows | get, put, invalidate | every authorized request |
| Email sync and body worker (`email/sync.rs`, `label_history.rs`, `body_worker.rs`, `body_handlers.rs`) | `last_sync`, `label_history_id`, rows with labels, bodies, attachments and marks | sync (worker, wake, push), label replay, backfill, fetch of a body by the worker or a reader | Gmail |
| Membership, API keys, quotas, rate limits | rows with role checks; fixed-window counters in Redis | change a role, remove, invite; count a request | |

The remaining parts (drive, documents, tasks, tickets, notes, scheduler, shared
inboxes, integrations, assistant, administration, key recovery, sign-in) are
one statement per request or calls to outside services; `PROJECT.json` lists
each with the reason. They are most of the 94 000 lines of the repository,
which is why the mapped share is small.

### What makes each part correct, and what is hard about it

* **Relay.** Handlers of different sockets run on different worker threads and
  take three mutexes one after the other, never two at once. A call must be
  answered by one tab, hung up only by the tabs that are in it, never cross a
  tenant boundary, never outlive its tabs, and leave one audit row. Hard: tables
  read at different moments of one handler, stale tabs, a tab that closes while
  another opens.
* **Session.** `startCall`, `acceptCall` and the handling of `call-accept`
  suspend at awaits (the permission prompt, the ICE servers, the microphone, the
  SDP calls), while signals, timers and clicks go on. Nobody may ring or dial
  for ever, and both ends and the relay have to agree about an answered call.
  Hard: continuations that do not look at the state again, signals dropped
  while the socket is down, endings that name a peer and not a call.
* **Webhooks.** Every process polls the same table. A delivery must be settled in
  the end, not repeated after a 2xx, tried as often as documented, and an
  endpoint that keeps failing must be switched off. Hard: the claim is committed
  before the POST; every update after it is unguarded and its error ignored.
* **Stripe.** The projection must come to Stripe's state, no acknowledged event
  may be lost, nobody may get an unpaid plan. Hard: the dedup row is read first
  and written last, updates carry no version, entitlements are read and written
  in separate statements.
* **Signup.** Whoever has paid gets one organization, or is not charged on. Hard:
  the browser and the webhook finalize the same row, and the name and the founder
  may be taken by then.
* **Presence.** A user is online as long as one socket is, and goes offline once.
  Hard: two Redis commands per event, run in spawned tasks, against a sweeper.
* **Chat.** Every stored message reaches the screen, and no tick says more than
  the database. Hard: the send looks at the registry twice, the sweep and the
  receipts run beside it, the resync starts from what happens to be on screen.
* **Roles.** No role outlives its revocation by more than the lifetimes of the
  caches. Hard: two layers, several processes, a load racing an invalidation.
* **Mailbox.** No mail is skipped, labels follow Gmail's, a body is fetched in
  the end. Hard: a sync is a dozen requests, several syncs overlap, time passes
  and labels change between the requests, and errors are read as empty answers.

## 2. Modules

| Module | Models | Composes |
|---|---|---|
| `CallBook` | what a call relay promises: the abstract specification | |
| `CallRelay` | the relay, one action per critical section | instantiates `CallBook`, which it implements |
| `CallSession` | the tabs, their sockets and the frames in flight | extends `CallRelay` |
| `WebhookDelivery` | the two webhook tables, the dispatchers, the owners | |
| `StripeProjection` | subscriptions and entitlements, statement by statement | |
| `OrgSignup` | the paid upgrade to an organization, with its two finalizers | |
| `Presence` | one user's presence in Redis, command by command, and a contact | |
| `ChatDelivery` | direct messages between two tabs through server and database | |
| `RoleCache` | the two cache layers over one user's role | |
| `Mailbox` | one Gmail account, its syncs, and the fetching of bodies | |
| `XProofs` | theorems about `X`; `CallProofs` about `CallRelay` and `CallSession` | extends `X` and `TLAPS` |
| `MCX` | an instance of `X` for TLC: values, symmetry | extends `X` |

Operators marked *Seeded fault* stand next to a definition and change it the way
a plausible bug would; each property is known to fail under one of them.

### CallRelay and CallBook

A member of `Conns` is a `ConnId`; the registry never reuses one, so a member
goes through one life: `new`, `registered`, `idle`, and around `idle` through
`planned`, `cancelled`, `gated` for each frame, then `unregistered`,
`unscoped`, `finalizing`, `closed`. `pc` holds that program counter.

| Action | Code |
|---|---|
| `Register`, `RecordCallerScope` | `started()`: the two tables it fills |
| `PlanSignal` | `plan_signal` under the ACTIVE_CALLS lock, with `PlanInvite`, `PlanUntracked`, `PlanAccept`, `PlanEnding`, `PlanMedia` for its branches |
| `CancelRings` | the sends of `cancel_my_others` and `cancel_me` |
| `Gate` | the lookup of the target in CALLER_SCOPES, and `can_call_between` with the sending socket's own scope |
| `Forward` | `resolve(plan.forward)` and the sends |
| `Unregister`, `DropCallerScope`, `PlanDisconnect`, `Finalize` | `stopped()`: unregister, drop_caller_scope, plan_disconnect, and one turn of the loop over the calls it took off the table: the other party is told, the audit row recorded |

`calls` is ACTIVE_CALLS as the set of its values; the key is the unordered pair.
`delivered` and `audit` hold what the last step put in mailboxes and in the
audit log. `Signal` lets any open socket send any signal to any user at any time:
the relay must hold against a client that is out of step. Offer, answer and
ice-candidate are one kind, `media`, because the relay treats them alike. `ScopeOf`
gives each connection the scope resolved when it was opened, which its actor keeps;
a user who changes organization with a tab open has connections of both. A client
only calls another user. The audit row is written by a spawned task; it is recorded
at the step that spawns it: `plan_signal` and the spawn are one action, because the
handler does nothing that others can see in between.
Reading a scope is not modelled as failing: without one a socket is refused.

`CallBook` forgets sockets, handlers and routes: each pair of users has no call, a
ringing one or a connected one; a call is placed, answered at most once, and
resolved with one audit row whose outcome fits what it was. A signal records its row
at once; a closing tab resolves all its calls in one step and owes their rows
(`due`), which it records one by one. The refinement mapping of `CallRelay`
(`BookState`, `BookDue`, `BookRows`) reads the state of a pair off `calls`, the debts
off `finalized` and the rows off `audit`; `KeepsTheBook == Book!Spec` is the claim.

### CallSession

Composes the relay with the tabs. `up` and `down` are the frames in flight in
order; `sock` is `wsRef`, `broken` the sockets nothing arrives over any more
(each end notices later, by `OnClose` and `Stopped`). `jobs` holds the suspended
async functions of a tab with the await they are at (`ice`, `media`, or `closed`
when their peer connection was closed under them); `pcRef` is the current peer
connection; `linked` the negotiated ones that have not been closed, with
abandoned ones (a second click on Accept replaces `pcRef` while the handlers of
the first connection stay).

| Action | Code |
|---|---|
| `StartCall`, `PromptGranted`, `PromptDenied` | `startCall` before and after the permission prompt |
| `RingTimeout` | the 30 s timer armed there; its cancel goes to the peer it was armed for, which `timer` holds |
| `AcceptCall`, `IceServersReady`, `MediaReady`, `MediaFailed` | `acceptCall` and `buildPeerConnection`; the same three for the caller's job on `call-accept` |
| `RejectCall`, `EndCall` | the buttons |
| `HandleSignal` with `OnInvite`, `OnAccept`, `OnEnding`, `OnMedia` | `handleSignal` |
| `PeerLost`, `MediaLost` | `onconnectionstatechange`: nobody at the other end; the path fails |
| `Connect`, `OnClose`, `CloseTab`, `Break` | the socket effect, the page, the network |
| `Receive`, `Relay`, `Stopped` | the server's half: CallRelay's actions, fed from `up`, feeding `down` |

Abstracted: candidates (buffered or applied, they change nothing the model
tells apart); mute and camera; two suspended jobs of one tab that agree in every
field are one; the moment between `setCallState` and the effect that renews the
handler (listed as a hazard); the awaits inside the handling of an offer, between
which only a teardown could matter, and the answer then lost was for a call torn down. `RTCPeerConnection` is outside the repository:
`Deserted` says when one finds nobody at the other end.

### WebhookDelivery

An action is one committed SQL statement or one HTTP request. A delivery is an
`<<event, endpoint>>` pair, as one statement of `emit` inserts it; `row` is its
row (`absent` until then and after a cascade delete).

| Action | Code |
|---|---|
| `Emit`, `TestPing` | `emit`, `test_webhook` |
| `SetEnabled`, `DeleteEndpoint` | `update_webhook`, `delete_webhook` |
| `BecomeDue` | `next_attempt_at <= now()` becomes true |
| `Claim`, `LoadEndpoints` | the two queries of `run_iteration` |
| `SkipJob`, `Post` | the loop over the batch: endpoint gone, or `deliver()` |
| `SettleRow`, `SettleEndpoint` | the two updates of `mark_delivered`, `mark_abandoned_with_response`, `schedule_retry_or_abandon` |
| `EndIteration` | sleep and poll again |
| `LoseUpdate`, `Crash` | an UPDATE whose error is dropped; the process dies, or the endpoint query fails |

The order of the claim (`ORDER BY next_attempt_at`) is abstracted to any choice of
at most `BatchSize` due rows; `RETRY_SCHEDULE_MINUTES` to its length; which
subscriptions match an event to any nonempty set of enabled endpoints.
`accepted`, `posts`, `doubled` (deliveries claimed while a claim of theirs was still at
work) and `forgotten` (those a claim of which was lost by a crash or a failed UPDATE)
are ghosts for the properties.

### StripeProjection

`stripe` and `sent` are Stripe: the status of each subscription and the events
made of it, in order. An event is `<<subscription, n>>`, a plan is named by the
subscription that pays for it. `row` is `subscriptions.status`, `entitlement` the
owner's row, `log` is `webhook_events`, `acked` the events with a 200. A handler
goes through `fresh`, `projected`, `planned`, (`missing`,) `refreshed`: one
committed statement each.

| Action | Code |
|---|---|
| `Bill` | Stripe: Checkout, inline subscribing, dunning, cancelling |
| `Deliver` | `stripe_webhook` up to the dedup SELECT |
| `Project` | the upsert of `handle_checkout_completed` or `handle_subscription_event`; the partial unique index makes it a 500 |
| `ReadPlan`, `UpdateEntitlement`, `InsertEntitlement` | the statements of `refresh_entitlements` |
| `Record` | the dedup INSERT and the 200 |
| `Abort` | the process dies, or a statement fails |
| `Reconcile` | the hourly UPDATE of `spawn_billing_worker` |

Stripe delivers any event it has made, at any time, as often as it likes, and also
while another copy is handled: `Deliver` waits for nothing. The UPDATE and the INSERT
ON CONFLICT of an upsert are one action: either is a single statement that leaves the
row as the event says. `projected`, `late` and `served` are histories: events that
were upserted, those upserted after a later event of their subscription, and those
whose owner was refreshed for since.

### OrgSignup

A signup `p` names its row, its subscription at Stripe (`charge`) and its
organization. A transaction is one action because it locks the signup's row and
then the founder's; requests to Stripe and statements outside of the transaction
are actions of their own.

| Action | Code |
|---|---|
| `Start`, `InsertSignup`, `Pay` | `start_organization_upgrade`: checks and subscription, then the INSERT; the founder pays |
| `Confirm`, `CheckPaid` | `finalize_organization_upgrade` up to the question to Stripe |
| `HookUpdates`, `HookFinalizes` | `handle_subscription_event` with and without a row |
| `Finalize` (`MayFound`, `Found`) | `finalize_org_signup_inner` with `lock_if_personal` and `create_org_for_user` |
| `MarkFailed` | the UPDATE after the rollback, without the lock |
| `Answer`, `CancelCharge`, `CancelFails` | the two callers: answer, or `cancel_now` first |
| `RequestRemoval`, `StopCharge`, `RemoveOrg`, `AbandonRemoval` | `delete_my_organization`: the SELECT and its checks, `cancel_now`, the transaction; a step that fails |
| `Interfere` | others take and free names, invite and remove founders |
| `Abort` | a request ends anywhere |

### Presence

One user, several tabs `At` several instances, one contact. `score` is the entry of
`presence:online`, `none`, `fresh` or `stale` (45 s without a heartbeat); `conns`
the counter; `joining`, `leaving`, `sweep` the next Redis command of each task.

| Action | Code |
|---|---|
| `Open`, `Close` | `started`, `stopped` of the chat socket: the tasks are spawned |
| `LookUp`, `CountUp`, `AddEntry`, `AnnounceOnline` | `on_connect`: ZSCORE, INCR, ZADD, broadcast |
| `CountDown`, `ClearCount`, `RemoveEntry`, `AnnounceOffline` | `on_disconnect`: DECR, DEL (whose error is ignored), ZREM, broadcast |
| `Heartbeat`, `GoStale` | `on_heartbeat`, and its absence |
| `FindStale`, `Reap`, `ClearReaped`, `AnnounceReaped` | `run_sweeper`: the range query, ZREM, DEL, broadcast |
| `Poll`, `SetStatus` | the contact's snapshot every 30 s; the status handler |
| `Crash` | the instance with its sockets and tasks |

`owed` is a ghost: entries made, less ends announced.

### ChatDelivery

A message is its id. The sender's tab stays connected; the receiver has the
conversation open in one tab whose socket drops and reconnects. Sends, fan-outs,
fetches and decryptions run side by side and end in any order. `excused` is a history:
the messages a lost frame, a failed fetch or a lost answer was to bring, and those that
had been overtaken by a later one when a tab asked for what follows the highest id it
shows.

| Action | Code |
|---|---|
| `Insert`, `Check`, `Echo`, `Publish` | the send in `ChatSession`: INSERT, the delivered check, the second look for the echo, `fan_out_user` |
| `Connect`, `Sweep`, `Drop` | `started` and the client's `onopen`; `mark_delivered_on_connect`; the socket closes |
| `Receive`, `Show` | a frame arrives, and is decrypted |
| `Fetch`, `MarkRead`, `Merge` | `get_messages` with `since_id`: the SELECT, the UPDATE to read in the same READ COMMITTED transaction; `Chat.tsx`'s merge |
| `ReadReceipt` | the receipt a look at the conversation sends |
| `ApplyEcho`, `ApplyUpdate` | the sender's screen: the echo gives the bubble its id, `handleStatusUpdate` raises the tick |
| `Crash` | the server dies |

### RoleCache

Time is counted in units. A request may be under way for up to `Delay` of them, held up
by Redis or the database at any step (`age`), and an invalidation for any time: the
code sets no timeout on a Redis command. An entry is what it holds and the units it has
left. `since[r]` counts the units since `r` was the
user's role, up to the bound that matters.

| Action | Code |
|---|---|
| `Request`, `GetRedis`, `Copy` | `resolve_role_context`: `get_json` with its copy into the local layer |
| `ReadSql`, `PutLocal`, `PutRedis` | the load and `set_json_with_ttl` |
| `Change`, `DropLocal`, `DropRedis` | a role change and `invalidate_role_context` |
| `Crash`, `Tick` | a process restarts; time passes |

### Mailbox

Gmail is `arrived`, `inbox` and `history`; the rows are `stored`, `labelled`, `body`,
`checked`, `attached`; the account `lastSync` and `position`. A message has one
label and one attachment. `sync[s]` is one sync, `fetching[p][m]` the fetch of a
body by the worker or by a reader.

| Action | Code |
|---|---|
| `Start`, `ListIds`, `FetchHeader`, `Store`, `Stamp` | `sync_account`: `fetch_ids`, `fetch_headers_only`, `process_batch`, the UPDATE of last_sync; `Store` upserts any batch of the headers that have come while others are fetched |
| `ReadPosition`, `ListHistory`, `Apply`, `ResetPosition`, `SavePosition` | `sync_label_changes`; a page of the history is listed and applied in a transaction of its own before the next is asked for |
| `ListOlder` (then `FetchHeader`, `Store`), `EndBackfill` | `backfill_older`: one page, the newest of what is older |
| `Take`, `FetchBody`, `UpdateBody`, `SaveAttachments`, `MarkChecked` | `body_worker.rs`'s claim and save; `get_email_body`, whose UPDATE also sets the mark |
| `GmailErrs`, `PositionExpired`, `Abandon`, `HistoryFails`, `BodyErrs`, `FetchFails` | an error on a page of ids, which leaves the list partial, a header dropped, a 404, a step that fails or a process that dies |
| `Arrive`, `Relabel`, `Tick` | Gmail, its user, and time |

`Tick` assumes that a pass over new mail takes less than the overlap of an hour:
that is what the overlap is there for, and without it `NothingSkipped` fails. The pages
of ids are one action: Gmail lists the newest first, so what comes meanwhile is on none
of the pages still to be read. `lost`, `raced`, `began` and `botched` are ghosts for what
Gmail withheld, whether two syncs have overlapped, where the position was last reset,
and whose body or attachments an error has cost.
Outlook and IMAP accounts are not modelled.

## 3. Runs

| Run | Question | Bounds |
|---|---|---|
| `relay_safety` | are the table, the routes and the audit consistent under every interleaving of handlers, and does the relay implement `CallBook`? | sockets a1 and a2 of one user opened in two organizations, b1 of another, a third user who is not connected, 4 signals; 3.5 M states |
| `session_one_call` | when everything has settled, do the screens agree with the relay? | two tabs, 1 call, 1 close, 1 broken socket with a second connection id; 4.7 M states |
| `session_live` | does dialing, and ringing, end, and does a socket that stops leave nothing behind? | two tabs, 1 call, 1 close, 1 lost media path |
| `webhook_dispatchers` | what of settlement, of the retry schedule and of the failure counter survives two dispatchers and faults? | 2 dispatchers, 1 event, 1 endpoint, 2 retries, threshold 2, 2 faults, 2 edits; 650 k states |
| `webhook_double_send` | does FOR UPDATE SKIP LOCKED keep two dispatchers from sending twice? It does not | 2 dispatchers, 1 event, no fault |
| `billing_projection` | is nothing acknowledged unserved, nothing granted unpaid, and what can make the table differ from Stripe? | 2 subscriptions of one owner, 2 handlers, 2 events of one and 1 of the other in any order and any number of copies, 1 fault; 330 k states |
| `signup_founding` | one organization per signup, nobody moved, whoever paid served or not charged on? | 2 founders who want one name, 1 confirm and 1 webhook at a time, 2 faults, 3 interferences; 160 k states |
| `presence_dot` | is every end announced once, and does the dot settle on the truth? | 2 tabs on 2 instances, 2 connects or statuses, 1 fault; 1.8 M states |
| `chat_delivery` | what can the receiver's screen miss, are the ticks true? | 2 messages sent and fanned out in any order, 1 drop or crash, 1 fault |
| `chat_overtaken` | is the resync after a drop lossless? It is not | 2 messages, 1 drop, no fault |
| `roles_cache` | for how long may a revoked role be acted on? | 2 instances, 2 roles, lifetimes 3 and 4 units of 15 s (the code's 45 s and 60 s), requests slow by 1 unit; 380 k states |
| `mailbox_sync` | is no message skipped, do labels agree, what can a checked row lack? | 2 messages, 2 syncs, 2 label changes, overlap 1, 3 ticks, 2 faults; 2.1 M states |

Why these bounds are enough to be interesting. The relay's rules tell apart the
caller's connection, the answering one, and another of either user: with a1, a2 and b1
a call placed by b1 rings two tabs, and one placed by a1 has a stranger in a2; a1 and
a2 were opened in different scopes, so a call of one may pass the gate and the same
call of the other may not. Four signals are an invite, an accept, a second accept or a
stale ending, and anything else, with each socket also starting and stopping at any
moment. A session tells apart its own call, its peer's and an earlier one; one
call covers the first two. With `Threshold = 2` and `Retries = 2` (the code's
schedule has two entries; the code's threshold is 20) both the last retry and the
disabling failure are reached by a delivery or two. Two handlers and two
subscriptions are what the unique index, the dedup row and the pair UPDATE/INSERT
tell apart; two events of a subscription are what one can arrive before the other, or
again after it. Two founders of one name, with three interferences, reach a taken name, an
invitation, and a deletion between the two finalizers. Two tabs are what makes the
counter differ from a flag; one of the sweepers may crash. Two messages and one drop
are one message overtaking the other, or the fetch after the reconnect. Two messages and two overlapping syncs with three ticks let one sync stamp over
another's window and leave the window behind; two label changes are one before and
one behind the position.

In `mailbox_sync` the two halves of the model are not interleaved freely.
Syncs and body fetches write disjoint columns and share only the set of rows,
which never shrinks, so their steps commute; `BodiesLast` keeps bodies for
the states a first sync leaves and lets nothing follow. `RacesUnlabelled` keeps label
changes for the behaviours in which two syncs have not yet overlapped: `LabelsAgree`
speaks of those alone, and nothing else that is checked looks at a label. The
theorems of `MailboxProofs` hold without either bound.

`CHECK_DEADLOCK FALSE` is set where the bounds let a behaviour end: connections are
used up, nobody places another call, all rows are settled, all events are
acknowledged, all drops are spent. The runs `presence_dot`, `roles_cache` and
`mailbox_sync` check deadlock.

### What the passing runs show

* `CallsHeldByLiveConns`, `NoCrossScopeCall`, `OnlyItsTabsResolveACall`,
  `KeepsTheBook`: section 4 proves them.
* `ClosedLeavesNothing`: after `stopped()` has begun, the socket is gone from the
  registry and from every call in the end and for good.
* `ClosedLeavesNothing` speaks of sockets that close; a call whose tabs have torn down
  without closing is not such a case.
* `AnsweredIsShown`, for one call: in a quiet state (no frame, job, timer or unnoticed dead
  socket) an answered call the relay still tracks is shown as active by both its
  tabs, as long as no media path was lost.
* `DialingEnds`, `RingingEnds`: nobody dials or rings for ever, as long as no
  socket broke.
* `AutoDisable`, `AttemptsDistinct`, `EverySettled` hold with several dispatchers,
  crashes and lost updates. What does not hold of every delivery is traced to its
  cause, delivery by delivery, with other deliveries free to go wrong:
  `ReopenedOnlyIfDoubled`: a settled row is reopened only if it was claimed while an
  earlier claim of it was at work; `ResentOnlyIfDisturbed` and `FailedAfterAllAttempts`:
  an accepted delivery is POSTed again, or one is given up after fewer POSTs than the
  schedule has, only if claims of it overlapped or one was lost.
* `AckedIsServed`, `GrantWasPaid`, `EventsServed`, `LapsedIsDeactivated`: the dedup
  row read first and written last costs repeated work, never a lost event, also when
  copies are handled side by side; interleaved refreshes grant nothing unpaid and leave
  no lapsed owner marked active. An event that would activate a second subscription of
  its owner (`Blocked`) is retried until the first ends. `WrongOnlyIfLate`: when every
  event of a subscription has its 200 and none was upserted after a later one, the row
  says what Stripe says; a late event is the only thing that makes it differ.
* `FoundedOnce`, `NeverMovedOut`, `PaidIsServed`: the lock and the status prevent a
  double creation whatever fails, and a paid charge does not stay without an
  organization.
* `OneOfflineEach`, `DotSettles`: tabs and sweepers may take a user offline who is
  not, but each end of the entry is announced once, and the dot settles.
* `MissedIsExcused`, `TickIsTrue`, `OnlyRise`: once nothing is under way a connected
  receiver misses only what a fault has lost or what had been overtaken when its tab
  asked, however sends, frames, fetches and decryptions overlap; ticks never say more
  than the rows, and neither goes back.
* `StaleBounded`: a revoked role can be acted on for the sum of both lifetimes and of
  the time two slow requests take.
* `NothingSkipped`, `LabelsAgree`, `UnsavedIsExcused`: last_sync never moves past a
  message Gmail has answered for; labels agree but for what lies ahead of the
  position, if syncs do not overlap; a checked row lacks its text or attachments only
  if Gmail answered with an error, a save failed, or `get_email_body` is, or died,
  between its two statements.

### Where the code and what is said of it differ

`webhook_double_send`: dispatcher.rs:57-58 says that FOR UPDATE SKIP LOCKED lets
several dispatchers run without double-sending. The claim is one autocommitted
statement that leaves the row pending and due; it is POSTed again after a 2xx. For the
same reason the retry mark of one dispatcher puts the other's delivered row back to
pending (technical_wayve.md:128-130 calls several instances safe).

`chat_overtaken`: realtime-chat.md:3 and :7 say that no message is lost across drops.
Sends are futures that run side by side and fan-outs are spawned tasks
(websocket.rs:643, 697), so a tab may show a later message before an earlier one is
fanned out; if its socket drops in between, it asks for what follows the highest id
shown, and never sees the earlier one.

Seen while modelling, and not given a run of its own:

* *Relay.* calling.md:134 says the scope entry is dropped only when the last socket
  closes; a socket started between unregister and drop_caller_scope is left open
  without one. calling.md:131 says closing an idle tab never touches a call; `last`
  is stale when plan_disconnect uses it, and a call may be rejected while another
  tab is open. handler.rs:49-51 promises one audit row when a call resolves; an
  invite from a third tab replaces a connected call without one (`CallBook`'s `Place`
  allows it). handler.rs:333-335 says users in different organizations can never call
  each other; a socket keeps the scope it was opened with, the gate compares it with that
  of the target's last opened socket, and the call then rings all of the target's: a
  user who changes organization with a tab open can be rung in one by a caller of the
  other (`NoCrossScopeCall` speaks of targets whose sockets lie in one tenant). calling.md:146-147 says nothing is persisted about calls;
  `record_call_audit` writes caller, callee, outcome and duration.
* *Session.* useCallSession.ts:78 says an unanswered call auto-cancels; an ending
  of an earlier call takes down the caller's side of a later one without a cancel,
  and its callee rings on. calling.md:67-69 promises no survivor on a frozen panel;
  a callee whose caller's tab closes before its offer is active for ever.
  `acceptCall` does not look at the call state after its awaits: a call cancelled
  meanwhile shows up as active. A callee whose socket drops while ringing misses the
  `call-cancel`. When the media path is lost both tabs tear down without
  `call-end`, and the relay holds the call, with its talk time, until a socket closes.
* *Webhooks.* technical_wayve.md:915 promises three attempts; a dispatcher that
  dies between claim and POST has used one up. One whose UPDATE after a 2xx is lost
  POSTs the delivery again. A lost UPDATE of the endpoint leaves its failure counter
  behind.
* *Billing.* webhook_handler.rs:207 sets the status to active whatever later event
  has been applied, so that a repeated or late checkout event revives a cancelled
  subscription, and the last of two updates to arrive wins (:276). Stripe promises no
  order and init.sql:2205 calls the table a local projection: what can be said is
  `WrongOnlyIfLate`. A refresh that has read the plan before a cancellation may write
  it after. Reconciliation resets the flag of a lapsed entitlement and leaves its limits (mod.rs:140-142).
* *Signup.* organizations.rs:513-514: `MarkFailed` and the cancellation run without
  the lock. A finalizer that was refused may mark as failed, and stop the charge of, a
  signup whose organization the other has founded in between.
* *Presence.* presence.rs:11-12 says extra tabs do not matter; one that closes while
  another opens can flap the user offline until the next heartbeat.
* *Chat.* A resync marks everything as read, even if the window is not focused or its
  response is lost, and also a message inserted between its SELECT and its UPDATE, which
  it does not return. A status_update that comes before the bubble has its id is
  dropped. More than 500 missed messages are not fetched.
* *Roles.* rbac_cache.rs:16-18 speaks of 45 s; a local copy lives for 60 s by default
  and starts with its whole life when it is copied, so staleness can reach the sum, and
  more by as long as a request is held up between reading a role and storing it.
* *Mailbox.* sync.rs:82-84 leaves a failed id "for the next sync to retry"; last_sync
  is stamped regardless, and once the message is older than the overlap it is never
  asked for again. `fetch_ids` reads an error answer as an empty list.
  wake.rs:9-10 calls a racing tick harmless; overlapping syncs can leave stale
  labels. body_worker.rs:202-203 and 262-265 say the mark comes only after a
  successful save, "if it swallowed an error the flag stays false"; but
  `save_email_attachments` only logs what fails and the worker's mark runs all the same,
  `get_email_body` sets the mark before it saves (body_handlers.rs:320), and neither looks
  at the HTTP status, so that an error answer is stored as an empty body and marked.
  `UnsavedIsExcused` lists these as excuses; without them TLC refutes it.

### Fairness

* `CallSession`: weak fairness of each browser task source (frames, the ring
  timer, connection-state and close events, settled promises) and of the server's
  step for each connection: a handler that was started is run to its end by its
  worker thread. The permission prompt and the SDP calls settle: this
  is what the browser promises, and a prompt left open for ever keeps the tab in
  `startingRef`, before it dials. People, closing tabs, breaking sockets have no
  fairness.
* `WebhookDelivery`: weak fairness of `Dispatch(w)`, the loop of
  `spawn_dispatcher` that polls for ever, each request having a timeout, and of
  `BecomeDue`, the passing of time. Faults are bounded and have no fairness.
* `StripeProjection`: a handler that runs is finished; the hourly worker runs; strong
  fairness of the delivery of each event, since Stripe repeats it until it has a
  200 and the server handles any number of requests at once (the two handlers of the
  instance are not a pool that can starve one).
* `OrgSignup`: the same for requests and Stripe's events. Nothing obliges the
  founder's browser to confirm: `PaidIsServed` rests on the webhook alone.
* `Presence`: some spawned task goes on as long as one can, and some sweeper; there are
  finitely many tasks, so this is enough. The intervals of heartbeats and of the contact's
  poll fire; time passes. Nobody has to close a tab.
* The other modules have no liveness property and no fairness.

## 4. Proofs

Every theorem holds for all values of the constants that satisfy the named
assumptions of its module (types of the constants, distinctness of the model
values); TLC evaluates the assumptions in each run.

### CallProofs

Three parts: the relay alone, the composition with the tabs, and a single call in it.

*The relay.* The inductive invariant is

    Inv == TypeOK /\ OneCallPerPair /\ CallsHeldByLiveConns
                  /\ SessionsAgree /\ ScopesAgree /\ FinalizedAgree

`SessionsAgree` says a socket is in SESSIONS exactly while it is in the stages
between `started` and `unregister`, under its own user; without it a route could
resolve to a connection of somebody else. `ScopesAgree` says an entry of
CALLER_SCOPES is the scope of one of the user's connections, and that the target of a
plan past the gate has a connection the sending one can reach; without it the gate,
checked one step before `Forward`, says nothing about the step that delivers.
`FinalizedAgree` says only a closing socket has calls to go through, and one per pair:
the audit rows it owes. `OneCallPerPair` is
needed by `CallsHeldByLiveConns` because planning works on the entry of a pair.
`Invariance` proves `Spec => []Inv`, action by action. The lemmas about a step are
stated over `RelayMoves` (an action of the relay with any signal a client could
send, or none) rather than over `Next`, so that they hold of the composition, where
a frame comes out of a queue, as well.

*The composition.* `SessionInv == Inv /\ SessionOwn`: the types of `CallSession`,
`TimerInCall` (a ring timer runs only in a call, so that its cancel has somebody to
go to) and `PromptFirst`, without which the frames a continuation sends have no
type; an armed timer carries the peer its cancel goes to. `SessionMoves` says that every step of the composition is one of `RelayMoves`
for the relay; the relay's theorems follow for its real clients.

*A single call.* `AnsweredIsShown` is about a settled state, and says nothing of the
steps that lead there; the inductive invariant has to know where the call is:

    OneCallInv == SocketsInUse /\ Counted /\ (losses = 0 => OneCall)

`SocketsInUse`: an opened, unbroken connection is the socket of its tab. `OneCall` is
one of four phases: `BeforeInvite` (somebody is at the prompt), `Inviting` (the
invite is on its way, with at most its own endings behind it), `InTable`, and `Over`.
In `InTable`, `TabRoles` and `Frames` say which tabs and frames may be about the call
at all; `StillRinging` that before the accept is planned nobody acts as if answered;
`NoStrayEnding` that an ending that has got as far as the relay or a client's queue
belongs to one of the callee's other tabs; `MediaOut` that the offer is out only
once the caller's connection is the callee's. `Answers` is the property without the
settled state: as long as neither end has broken or sent an ending (`Sound`), the
caller's tab dials or shows the call and the tab that answered shows it. In a
settled state nothing is in a queue, so a call still tracked is sound.

`MaxCalls <= 1` is what the theorem is about, not a bound for convenience: with two
calls that cross between the same two users TLC refutes `AnsweredIsShown` (Ana dials
and cancels, Ben dials Ana meanwhile; Ana's `call-cancel`, which names its user and
not its call, takes Ben's dialling off his screen, and Ana then answers a call that
only her tab shows). Users, tabs, connections, drops and closed tabs are unbounded.
`TabOfUser`, an assumption of `CallSession`, says that the connections of a tab are
of one user: the session is given one `myId` (useCallSession.ts:118).

| Theorem | Says |
|---|---|
| `TypeCorrect` | `Spec => []TypeOK` |
| `CallsHeld` | `Spec => []CallsHeldByLiveConns` |
| `PairKeyed` | `Spec => []OneCallPerPair` |
| `ScopeIsolation` | `Spec => NoCrossScopeCall` |
| `FirstAnswerWins` | `Spec => AnsweredOnce` |
| `OutsidersCannotHangUp` | `Spec => OnlyItsTabsResolveACall` |
| `ResolvedAudited` | `Spec => ResolvedCallAudited` |
| `RelayKeepsTheBook` | `Spec => KeepsTheBook`: the relay implements `CallBook` |
| `SessionTypeCorrect` | `SessionSpec => []SessionTypeOK` |
| `SessionCallsHeld` | `SessionSpec => []CallsHeldByLiveConns` |
| `SessionScopeIsolation` | `SessionSpec => NoCrossScopeCall` |
| `SessionCallsAreTheirTabs` | `SessionSpec => AnsweredOnce /\ OnlyItsTabsResolveACall /\ ResolvedCallAudited` |
| `SessionKeepsTheBook` | `SessionSpec => KeepsTheBook` |
| `AnsweredCallShown` | `SessionSpec => []AnsweredIsShown`, given `MaxCalls <= 1` |

The refinement maps every action to a step of the book or a stutter:
`PlanInvite` to `Place`, `PlanAccept` to `Answer`, `PlanEnding` to `Resolve`,
`PlanDisconnect` to `Close`, `Finalize` to `Record`, the rest to stutters. It needs
`OneCallPerPair` (the state of a pair is that of its one call) and `FinalizedAgree`
(a socket that closes owes nothing yet, and the rows it owes are of different pairs).
A second accept is no step of the book that differs from a stutter, nor is a third tab
that takes an answered call over: `FirstAnswerWins` and `OutsidersCannotHangUp`, by the
lemma `NoSecondAnswer`, exclude both.

### WebhookDeliveryProofs

Two layers, both with any number of dispatchers, crashes and lost updates:

* Of all deliveries. The inductive invariant is
  `Inv == TypeOK /\ PostedIsJob /\ PollsEmpty /\ ClaimedHasRow /\ AutoDisable /\ AttemptsDistinct`.
  `ClaimedHasRow` (a claimed row is in the table until its endpoint is deleted)
  is what keeps an old job from meeting a fresh row of the same delivery, with
  which it could share an attempt number. `RowsKept` (attempts only grow, a row
  gone with its endpoint does not come back) and `ClaimedKept` (outside the claim
  a dispatcher only lets go of jobs) carry every action at once.
* Of one delivery `d`. The lemmas `ClaimSteps` and `WorkSteps` say that a step, as far as
  `d` is concerned, leaves it alone, or inserts or deletes its row (`Idles`), claims it (`Claims`),
  gives up its job (`Skips`), POSTs it (`PostsJob`), settles it (`Settles`) or forgets
  it (`Forgets`); what happens to other deliveries does not matter. `OneClaim`: a
  delivery that was never claimed twice at a time has one dispatcher at work on it at
  most, and is pending while it has. `AllTold`: of one that was not disturbed at all, what a
  receiver has accepted is settled but for the answer still to be written down, and the
  attempts counted are the POSTs made, but for the job that waits.

| Theorem | Says |
|---|---|
| `TypeCorrect` | `Spec => []TypeOK` |
| `FailingEndpointDisabled` | `Spec => []AutoDisable` |
| `DistinctAttempts` | `Spec => []AttemptsDistinct` |
| `SettledFinal` | `Spec => ReopenedOnlyIfDoubled` |
| `AtMostOnceAccepted` | `Spec => ResentOnlyIfDisturbed` |
| `FailedAfterLastAttempt` | `Spec => []FailedAfterAllAttempts` |

None of them assumes anything of the number of dispatchers or of faults; the run
`webhook_double_send` shows that the exception of `AtMostOnceAccepted` is needed.

### StripeProjectionProofs

`Inv == TypeOK /\ Handling /\ AckedIsServed /\ Reported /\ RowsPaid /\ PlansPaid /\ GrantsPaid`,
with events in any order, repeated and handled side by side. `Handling` ties a
handler to an event Stripe has made, and says it has served it by the time it
writes the dedup row: `AckedIsServed` is not inductive without it. The paid parts
follow a plan on its way: what Stripe reported (`Reported`: a checkout is of an
active subscription), what the rows say (`RowsPaid`), what a handler read
(`PlansPaid`, which may be out of date but was true), what the owner was given
(`GrantsPaid`).

`Mirror` follows a row, and is inductive beside `Inv` without any assumption on the
order: what is acknowledged was upserted first (`ProjectedFirst`), the last event of a
subscription says what Stripe says (`LastIsStripes`), and while no event of a
subscription was upserted after a later one, its row says what the last upserted one
says (`RowOfLast`).

| Theorem | Says |
|---|---|
| `TypeCorrect` | `Spec => []TypeOK` |
| `NoEventLost` | `Spec => []AckedIsServed` |
| `NothingUnpaid` | `Spec => []GrantWasPaid` |
| `OnlyLateEventsMislead` | `Spec => []WrongOnlyIfLate`: a row all of whose events are acknowledged differs from Stripe only if one of them came late |

### OrgSignupProofs

`Inv == TypeOK /\ Unfounded /\ FoundedOnce`: a signup that is `none` or `pending` has
founded nothing. The UPDATE without the lock (`MarkFailed`) can only overwrite
`finalized` with `failed`, and neither founds anything again.

| Theorem | Says |
|---|---|
| `TypeCorrect` | `Spec => []TypeOK` |
| `OneOrganization` | `Spec => []FoundedOnce` |
| `NobodyMoved` | `Spec => NeverMovedOut`, since the transaction looks at the founder's row under its lock |

### PresenceProofs

`Inv == TypeOK /\ OpenIsQuiet /\ OneOfflineEach`; assumes finitely many tabs and
instances, because the property counts tasks. `OpenIsQuiet` says that the task of a
tab's last disconnect has ended when it connects again. `Balance` puts the
property in terms of two counts, and each action changes one of them by one, or
the entry.

| Theorem | Says |
|---|---|
| `TypeCorrect` | `Spec => []TypeOK` |
| `EndsAnnouncedOnce` | `Spec => []OneOfflineEach` |

### ChatDeliveryProofs

    Inv == TypeOK /\ StoredOnce /\ UpdatesTrue /\ TicksStored
                  /\ DeliveredIsStored /\ EchoIsTrue /\ TickIsTrue

`UpdatesTrue` says a status frame under way does not exceed the row, `EchoIsTrue`
the same of the echo that will set the tick, while the receiver is connected and
swept: the sender learns of a status on three paths, and a tick is true only if
each of them is.

`OnlyExcusedMissed` has an invariant of its own, `Accounted`: while the receiver is
connected, each message that was fanned out is on the wire, held by its tab (decrypting,
in an answer, or shown), will be asked for by a fetch that has not read the table, or is
excused. A connect establishes it: what lies above the highest id shown is asked for, what
lies below and is not shown was overtaken. Messages may be stored, fanned out and
shown in any order.

| Theorem | Says |
|---|---|
| `TypeCorrect` | `Spec => []TypeOK` |
| `DeliveredStored` | `Spec => []DeliveredIsStored`: a message to a connected receiver stays `sent` only until its own check |
| `TicksTrue` | `Spec => []TickIsTrue` |
| `TicksOnlyRise` | `Spec => OnlyRise` |
| `OnlyExcusedMissed` | `Spec => []MissedIsExcused` |

### RoleCacheProofs

    Inv == TypeOK /\ since[role] = 0 /\ RedisFresh /\ LocalFresh /\ InFlightFresh

How much a copy may have missed, by where it is: a value read from SQL, as many units as
the request has been under way; an entry of Redis with `n` units left, at most
`RedisTtl + Delay - n`, since that request may have been slow to store it; a value
read from Redis, `RedisTtl - 1 + Delay` and the age of its request; a local copy with `n`
units left `Stalest + 1 - n`, since it may have been taken in the last unit of the
entry's life, by a slow request, and starts a life of its own. The units a request may
take are a constant, `Delay`, of any size.

| Theorem | Says |
|---|---|
| `TypeCorrect` | `Spec => []TypeOK` |
| `StalenessIsBounded` | `Spec => []StaleBounded` |

### MailboxProofs

`Inv == TypeInv /\ WindowInv /\ CheckedInv /\ LabelInv`. `TypeInv` adds to `TypeOK` that a body is
fetched for a row that exists. `WindowInv` (`Clocks`, `InWindow`) is about messages
that came, have no row, and were never withheld by Gmail: none is older than
last_sync's window, and a sync at work still has it in its list, in its headers,
or in the window it is about to stamp; it is stated of each sync separately, which
is why overlapping ones do no harm. `CheckedInv` (`SavedInTurn`, `UnsavedIsExcused`)
says how far each fetch has come, what it was given and what it has saved, through any
faults; without `SavedInTurn` the worker's mark, which looks at nothing, says nothing
about the body or the attachments. `LabelInv` follows a label: a row
agrees with Gmail, or the message was relabelled after the position, or before the
position was last reset (`Excused`); the same of the headers a sync will store and of
what the pages applied so far leave (`HeadersExcused`, `SaveExcused`, with `Reached` for
how far they go, and `InPlace`: pages start at the position and go on from there).
`HistoryTells` ties the
history to the labels by its last entry about a message, and `ChangesDecide` that
applying the entries from a position leaves a label as the last of them has it.
All of it is about syncs that have never overlapped (`Alone`).

| Theorem | Says |
|---|---|
| `TypeCorrect` | `Spec => []TypeOK` |
| `NoMessageSkipped` | `Spec => []NothingSkipped`, for any `Overlap`, given that a pass over new mail is shorter (`Tick`) |
| `CheckedRowsSaved` | `Spec => []UnsavedIsExcused`, whatever fails |
| `LabelsFollow` | `Spec => []LabelsAgree` |

### Model-checked only

* Liveness: `ClosedLeavesNothing`, `DialingEnds`, `RingingEnds`, `EverySettled`,
  `EventsServed`, `LapsedIsDeactivated`, `PaidIsServed`, `DotSettles`. The prover
  does not reason about fairness.
* `NoResendAfterSuccess` and `Lossless`, which are refuted.

## 5. Not modelled, and why

Within the modelled parts:

* *Session.* React's commit as a step of its own: with the relay composed it takes
  the state space out of reach. Mute, camera and buffered candidates change nothing
  the properties look at.
* *Webhooks.* Creating and listing endpoints, signing, URL validation: one row each,
  or no state.
* *Stripe.* Invoices, seat quantities, plan changes, trials and manual grants; they
  go through the same dedup row and the same refresh.
* *Signup.* The free plan's upgrade (one transaction), renaming, and the creation of
  organizations by the platform.
* *Presence.* The branch without Redis, `last_seen`.
* *Chat.* Channel messages, threads, reactions, edits, attachments and search, the
  500 rows a resync is capped at, and failed statements other than the resync's: the
  UPDATE to delivered after an INSERT ignores its error, and the echo says delivered
  all the same (websocket.rs:614, :681), so `TickIsTrue` is about UPDATEs that succeed.
* *Roles.* Which role the SQL gives, the permission matrix, the mode of a session,
  eviction from the local layer.
* *Mailbox.* Pulls by label and by search (they insert rows and do not move
  last_sync); the pull on connect, which inserts a fixed number of recent messages,
  stamps last_sync, and leaves older ones to the backfill (sync.rs:1039-1072); Outlook and IMAP, read state, threading, contacts,
  unread counts, the adaptive schedule, sealing and rehydration of bodies.

Whole parts, listed in `PROJECT.json` with their sources:

* Quotas, rate limits and API keys are one counter with a lifetime each; a model
  would restate INCR and EXPIRE. Two Drive uploads can exceed a quota together, as
  the check is not held over the upload; nothing else happens there.
* Tasks, tickets, notes, user stories, shared inboxes, the scheduler, channels,
  membership and administration change one row per request behind a role check.
  The race worth a model, the last owner who steps down, is closed by FOR UPDATE
  (members.rs:160-174).
* Sign-in, SSO, SCIM and key recovery are token formats and cryptography around
  single rows.
* Sending mail, threading of mail, the assistant and the integrations are calls to
  outside services and the formats these speak.
* The frontend apart from calls and chat is views over the API.

No state shared by several actors over several steps was found in these parts. They
are most of the repository's lines, and the reason why the models map a small
share of it.
