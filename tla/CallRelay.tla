----------------------------- MODULE CallRelay -----------------------------
(***************************************************************************)
(* The signalling relay behind /ws/call: call/handler.rs and the session   *)
(* registry it stores its sockets in, ws_registry.rs.                      *)
(*                                                                         *)
(* One actix actor runs per socket and handles one event at a time, but    *)
(* the actors of different sockets run on different worker threads and     *)
(* share three tables, each behind a mutex of its own: SESSIONS,           *)
(* CALLER_SCOPES and ACTIVE_CALLS.  No handler holds two of the mutexes at *)
(* once, so an action below is one critical section, and pc says which one *)
(* the actor of a socket reaches next.                                     *)
(*                                                                         *)
(* A member of Conns stands for one ConnId: the registry hands out a fresh *)
(* one per socket, so a reconnecting client continues as another member.   *)
(***************************************************************************)
EXTENDS Naturals, FiniteSets

CONSTANTS
    Users,        \* user ids
    Conns,        \* connection ids; each is used by one socket only
    UserOf,       \* the authenticated user of a connection
    ScopeOf,      \* the scope resolved when a connection was opened: [kind, org]
    Orgs,         \* organization ids
    NoOrg,        \* organization_id: None
    NoConn,       \* callee_conn: None
    NoScope,      \* no entry in CALLER_SCOPES
    MaxSignals    \* bound on the signals the clients send

ScopeKinds == {"Personal", "Platform", "Organization"}
Scopes == [kind : ScopeKinds, org : Orgs \cup {NoOrg}]

ASSUME UserOfType == UserOf \in [Conns -> Users]
ASSUME ScopeOfType == ScopeOf \in [Conns -> Scopes]
ASSUME NoConnAssumption == NoConn \notin Conns
ASSUME NoScopeAssumption == NoScope \notin Scopes
ASSUME MaxSignalsType == MaxSignals \in Nat

\* "media" stands for offer, answer and ice-candidate, which the relay routes
\* alike.
Kinds == {"call-invite", "call-accept", "call-reject", "call-cancel",
          "call-end", "media"}
Endings == {"call-reject", "call-cancel", "call-end"}

VARIABLES
    pc,          \* how far the actor of each connection is in its handler
    sessions,    \* SESSIONS: the registered connections of each user
    scopes,      \* CALLER_SCOPES
    calls,       \* ACTIVE_CALLS, as the set of its values
    plan,        \* the Plan the handler of a connection is carrying out
    last,        \* what unregister() returned to stopped()
    finalized,   \* the resolved calls stopped() has still to go through
    delivered,   \* the signals the step just taken put in mailboxes
    audit,       \* the audit rows the step just taken recorded
    sent         \* signals sent so far, compared with MaxSignals

vars == <<pc, sessions, scopes, calls, plan, last, finalized, delivered, audit,
          sent>>

-----------------------------------------------------------------------------
(* The data of the handlers. *)

CallInfo ==
    [caller : Users, callee : Users, callerConn : Conns,
     calleeConn : Conns \cup {NoConn}, connected : BOOLEAN]

AllOf(u) == [type |-> "AllOf", user |-> u, conn |-> NoConn]
ToConn(u, c) == [type |-> "Conn", user |-> u, conn |-> c]
Nowhere(u) == [type |-> "Nowhere", user |-> u, conn |-> NoConn]
Routes ==
    [type : {"AllOf", "Conn", "Nowhere"}, user : Users,
     conn : Conns \cup {NoConn}]

Plans ==
    [kind : Kinds, to : Users, forward : Routes, cancelMyOthers : BOOLEAN,
     cancelMe : BOOLEAN]
Signals == [kind : Kinds, from : Users, conn : Conns]
Outcomes == {"rejected", "completed", "missed"}
AuditRows == [call : CallInfo, outcome : Outcomes]

CanCallBetween(s, t) ==
    \/ s.kind = "Personal" /\ t.kind = "Personal"
    \/ s.kind = "Platform" /\ t.kind = "Platform"
    \/ /\ s.kind = "Organization" /\ t.kind = "Organization"
       /\ s.org # NoOrg /\ s.org = t.org

\* The entry of ACTIVE_CALLS under call_key(u, v), as a set of at most one.
Tracked(u, v) == {i \in calls : {i.caller, i.callee} = {u, v}}

RouteTo(i, peer) ==
    IF peer = i.caller THEN ToConn(peer, i.callerConn)
    ELSE IF i.calleeConn = NoConn THEN AllOf(peer)
    ELSE ToConn(peer, i.calleeConn)

IsMyConn(i, me, c) ==
    IF me = i.caller THEN i.callerConn = c ELSE i.calleeConn \in {NoConn, c}

\* Seeded faults: an unanswered call is recorded as completed, or under an
\* outcome the audit log does not know.
OutcomeAlwaysCompleted(i) == "completed"
OutcomeCancelled(i) == IF i.connected THEN "completed" ELSE "cancelled"

OutcomeWhenEnded(i) == IF i.connected THEN "completed" ELSE "missed"

\* The connections a route reaches at this moment.
Resolve(r) ==
    CASE r.type = "AllOf" -> sessions[r.user]
      [] r.type = "Conn" -> sessions[r.user] \cap {r.conn}
      [] r.type = "Nowhere" -> {}

Deliver(kind, from, conns) ==
    {[kind |-> kind, from |-> from, conn |-> d] : d \in conns}

NoPlan == [kind |-> "media", to |-> CHOOSE u \in Users : TRUE,
           forward |-> Nowhere(CHOOSE u \in Users : TRUE),
           cancelMyOthers |-> FALSE, cancelMe |-> FALSE]

-----------------------------------------------------------------------------
(* started() *)

Register(c) ==
    /\ pc[c] = "new"
    /\ pc' = [pc EXCEPT ![c] = "registered"]
    /\ sessions' = [sessions EXCEPT ![UserOf[c]] = @ \cup {c}]
    /\ delivered' = {} /\ audit' = {}
    /\ UNCHANGED <<scopes, calls, plan, last, finalized, sent>>

RecordCallerScope(c) ==
    /\ pc[c] = "registered"
    /\ pc' = [pc EXCEPT ![c] = "idle"]
    /\ scopes' = [scopes EXCEPT ![UserOf[c]] = ScopeOf[c]]
    /\ delivered' = {} /\ audit' = {}
    /\ UNCHANGED <<sessions, calls, plan, last, finalized, sent>>

-----------------------------------------------------------------------------
(* handle(Text): plan_signal, then the sends it asks for *)

\* plan_signal decides the plan p, the new table and the audit row.
Planned(c, p, table, rows) ==
    /\ pc' = [pc EXCEPT ![c] = "planned"]
    /\ plan' = [plan EXCEPT ![c] = p]
    /\ calls' = table
    /\ audit' = rows

JustForward(kind, to, route) ==
    [kind |-> kind, to |-> to, forward |-> route, cancelMyOthers |-> FALSE,
     cancelMe |-> FALSE]

PlanInvite(c, to) ==
    Planned(c, JustForward("call-invite", to, AllOf(to)),
            (calls \ Tracked(UserOf[c], to)) \cup
                {[caller |-> UserOf[c], callee |-> to, callerConn |-> c,
                  calleeConn |-> NoConn, connected |-> FALSE]},
            {})

PlanUntracked(c, kind, to) ==
    /\ Tracked(UserOf[c], to) = {}
    /\ Planned(c, JustForward(kind, to, AllOf(to)), calls, {})

\* Seeded fault: an accept is taken whether or not another tab has answered.
PlanAcceptLastWins(c, to, i) ==
    Planned(c, [JustForward("call-accept", to, RouteTo(i, to))
                  EXCEPT !.cancelMyOthers = TRUE],
            (calls \ {i}) \cup {[i EXCEPT !.calleeConn = c, !.connected = TRUE]},
            {})

PlanAccept(c, to, i) ==
    \/ /\ i.calleeConn = NoConn
       /\ Planned(c, [JustForward("call-accept", to, RouteTo(i, to))
                        EXCEPT !.cancelMyOthers = TRUE],
                  (calls \ {i}) \cup
                      {[i EXCEPT !.calleeConn = c, !.connected = TRUE]},
                  {})
    \/ /\ i.calleeConn = c
       /\ Planned(c, JustForward("call-accept", to, RouteTo(i, to)), calls, {})
    \/ /\ i.calleeConn \notin {NoConn, c}
       /\ Planned(c, [JustForward("call-accept", to, Nowhere(to))
                        EXCEPT !.cancelMe = TRUE], calls, {})

PlanEnding(c, kind, to, i) ==
    \/ /\ ~IsMyConn(i, UserOf[c], c)
       /\ Planned(c, JustForward(kind, to, Nowhere(to)), calls, {})
    \/ /\ IsMyConn(i, UserOf[c], c)
       /\ Planned(c, [JustForward(kind, to, RouteTo(i, to))
                        EXCEPT !.cancelMyOthers =
                            UserOf[c] = i.callee /\ i.calleeConn = NoConn],
                  calls \ {i},
                  {[call |-> i,
                    outcome |-> IF kind = "call-reject" THEN "rejected"
                                ELSE OutcomeWhenEnded(i)]})

PlanMedia(c, kind, to, i) ==
    Planned(c, JustForward(kind, to, IF IsMyConn(i, UserOf[c], c)
                                     THEN RouteTo(i, to) ELSE Nowhere(to)),
            calls, {})

PlanTracked(c, kind, to, i) ==
    \/ kind = "call-accept" /\ UserOf[c] = i.callee /\ PlanAccept(c, to, i)
    \/ kind \in Endings /\ PlanEnding(c, kind, to, i)
    \/ /\ kind = "media" \/ (kind = "call-accept" /\ UserOf[c] # i.callee)
       /\ PlanMedia(c, kind, to, i)

\* A text frame arrives: plan_signal, under the ACTIVE_CALLS lock.  The audit row is
\* recorded by the same handler before it does anything else.  A client only calls
\* other users, so `to` is never the sender.
PlanSignal(c, kind, to) ==
    /\ pc[c] = "idle" /\ to # UserOf[c]
    /\ \/ kind = "call-invite" /\ PlanInvite(c, to)
       \/ kind # "call-invite" /\ PlanUntracked(c, kind, to)
       \/ /\ kind # "call-invite"
          /\ \E i \in Tracked(UserOf[c], to) : PlanTracked(c, kind, to, i)
    /\ delivered' = {}
    /\ UNCHANGED <<sessions, scopes, last, finalized>>

\* cancel_my_others and cancel_me: the sender's own tabs stop ringing.
CancelRings(c) ==
    /\ pc[c] = "planned"
    /\ pc' = [pc EXCEPT ![c] = "cancelled"]
    /\ delivered' =
         Deliver("call-cancel", plan[c].to,
                 {d \in sessions[UserOf[c]] \ {c} : plan[c].cancelMyOthers}
                   \cup {d \in {c} : plan[c].cancelMe})
    /\ audit' = {}
    /\ UNCHANGED <<sessions, scopes, calls, plan, last, finalized, sent>>

\* Seeded fault: the sender's scope is looked up like the target's, so that it is
\* the one of whichever socket of the sender was opened last.
GateLooksUpBoth(c) ==
    /\ pc[c] = "cancelled"
    /\ LET passes == /\ scopes[plan[c].to] # NoScope
                     /\ scopes[UserOf[c]] # NoScope
                     /\ CanCallBetween(scopes[UserOf[c]], scopes[plan[c].to])
       IN  /\ pc' = [pc EXCEPT ![c] = IF passes THEN "gated" ELSE "idle"]
           /\ plan' = IF passes THEN plan ELSE [plan EXCEPT ![c] = NoPlan]
    /\ delivered' = {} /\ audit' = {}
    /\ UNCHANGED <<sessions, scopes, calls, last, finalized, sent>>

\* The scope gate, under the CALLER_SCOPES lock: the scope the sending socket was
\* opened with against that of the target's last opened one.
Gate(c) ==
    /\ pc[c] = "cancelled"
    /\ LET passes == /\ scopes[plan[c].to] # NoScope
                     /\ CanCallBetween(ScopeOf[c], scopes[plan[c].to])
       IN  /\ pc' = [pc EXCEPT ![c] = IF passes THEN "gated" ELSE "idle"]
           /\ plan' = IF passes THEN plan ELSE [plan EXCEPT ![c] = NoPlan]
    /\ delivered' = {} /\ audit' = {}
    /\ UNCHANGED <<sessions, scopes, calls, last, finalized, sent>>

Forward(c) ==
    /\ pc[c] = "gated"
    /\ pc' = [pc EXCEPT ![c] = "idle"]
    /\ plan' = [plan EXCEPT ![c] = NoPlan]
    /\ delivered' = Deliver(plan[c].kind, UserOf[c], Resolve(plan[c].forward))
    /\ audit' = {}
    /\ UNCHANGED <<sessions, scopes, calls, last, finalized, sent>>

-----------------------------------------------------------------------------
(* stopped(): a Close frame, a protocol error, or 60 silent seconds *)

Unregister(c) ==
    /\ pc[c] = "idle"
    /\ sessions' = [sessions EXCEPT ![UserOf[c]] = @ \ {c}]
    /\ last' = [last EXCEPT ![c] = sessions'[UserOf[c]] = {}]
    /\ pc' = [pc EXCEPT ![c] = IF last'[c] THEN "unregistered" ELSE "unscoped"]
    /\ delivered' = {} /\ audit' = {}
    /\ UNCHANGED <<scopes, calls, plan, finalized, sent>>

DropCallerScope(c) ==
    /\ pc[c] = "unregistered"
    /\ pc' = [pc EXCEPT ![c] = "unscoped"]
    /\ scopes' = [scopes EXCEPT ![UserOf[c]] = NoScope]
    /\ delivered' = {} /\ audit' = {}
    /\ UNCHANGED <<sessions, calls, plan, last, finalized, sent>>

\* Seeded fault: the connection that answered a call is not looked at.
LeftByCallerOrLast(c, u, wasLast) ==
    {i \in calls : \/ i.caller = u /\ i.callerConn = c
                   \/ i.callee = u /\ i.calleeConn = NoConn /\ wasLast}

\* The calls plan_disconnect resolves for the connection c of user u.
LeftBy(c, u, wasLast) ==
    {i \in calls : \/ i.caller = u /\ i.callerConn = c
                   \/ i.callee = u /\ i.calleeConn = c
                   \/ i.callee = u /\ i.calleeConn = NoConn /\ wasLast}

\* What the other party of a call u left is told: nothing if it was connected.
NoticesOf(i, u) ==
    IF i.connected THEN {}
    ELSE IF i.caller = u
    THEN {[kind |-> "call-cancel", route |-> RouteTo(i, i.callee)]}
    ELSE {[kind |-> "call-reject", route |-> RouteTo(i, i.caller)]}

\* plan_disconnect, under the ACTIVE_CALLS lock: the calls leave the table.
PlanDisconnect(c) ==
    /\ pc[c] = "unscoped"
    /\ LET left == LeftBy(c, UserOf[c], last[c]) IN
         /\ calls' = calls \ left
         /\ finalized' = [finalized EXCEPT ![c] =
                            {[call |-> i, outcome |-> OutcomeWhenEnded(i)] : i \in left}]
    /\ pc' = [pc EXCEPT ![c] = IF finalized'[c] = {} THEN "closed" ELSE "finalizing"]
    /\ last' = [last EXCEPT ![c] = FALSE]
    /\ delivered' = {} /\ audit' = {}
    /\ UNCHANGED <<sessions, scopes, plan, sent>>

\* One turn of the loop over them, in any order: the other party is told, then the
\* audit row is recorded.
Finalize(c) ==
    /\ pc[c] = "finalizing"
    /\ \E r \in finalized[c] :
         /\ finalized' = [finalized EXCEPT ![c] = @ \ {r}]
         /\ delivered' = UNION {Deliver(n.kind, UserOf[c], Resolve(n.route)) :
                                  n \in NoticesOf(r.call, UserOf[c])}
         /\ audit' = {r}
    /\ pc' = [pc EXCEPT ![c] = IF finalized'[c] = {} THEN "closed" ELSE "finalizing"]
    /\ UNCHANGED <<sessions, scopes, calls, plan, last, sent>>

-----------------------------------------------------------------------------

Init ==
    /\ pc = [c \in Conns |-> "new"]
    /\ sessions = [u \in Users |-> {}]
    /\ scopes = [u \in Users |-> NoScope]
    /\ calls = {}
    /\ plan = [c \in Conns |-> NoPlan]
    /\ last = [c \in Conns |-> FALSE]
    /\ finalized = [c \in Conns |-> {}]
    /\ delivered = {} /\ audit = {}
    /\ sent = 0

\* Any client may send any signal whatever the state of its call: the relay
\* has to hold against a tab that is stale, not only against one in step.
Signal(c) ==
    /\ sent < MaxSignals
    /\ sent' = sent + 1
    /\ \E kind \in Kinds, to \in Users : PlanSignal(c, kind, to)

\* What the actor of c does without being asked to.
Proceed(c) ==
    \/ RecordCallerScope(c)
    \/ CancelRings(c)
    \/ Gate(c)
    \/ Forward(c)
    \/ DropCallerScope(c)
    \/ PlanDisconnect(c)
    \/ Finalize(c)

Next == \E c \in Conns : Register(c) \/ Signal(c) \/ Unregister(c) \/ Proceed(c)

Spec == Init /\ [][Next]_vars

-----------------------------------------------------------------------------
(* Properties *)

Stages == {"new", "registered", "idle", "planned", "cancelled", "gated",
           "unregistered", "unscoped", "finalizing", "closed"}

\* The shape of the shared tables and of every handler's local data.
TypeOK ==
    /\ pc \in [Conns -> Stages]
    /\ sessions \in [Users -> SUBSET Conns]
    /\ scopes \in [Users -> Scopes \cup {NoScope}]
    /\ calls \in SUBSET CallInfo
    /\ plan \in [Conns -> Plans]
    /\ last \in [Conns -> BOOLEAN]
    /\ finalized \in [Conns -> SUBSET AuditRows]
    /\ delivered \in SUBSET Signals
    /\ audit \in SUBSET AuditRows
    /\ sent \in Nat

\* The stages in which a socket has been started and plan_disconnect has not
\* run for it yet.
Holding(c) == pc[c] \in {"registered", "idle", "planned", "cancelled", "gated",
                         "unregistered", "unscoped"}

\* The sockets SESSIONS lists.
Listed(c) == pc[c] \in {"registered", "idle", "planned", "cancelled", "gated"}

\* No tracked call outlives the connections it is pinned to.  A call names one
\* connection of its caller and, once answered, one of its callee, and neither
\* has got past the plan_disconnect of its stopped(): ACTIVE_CALLS never keeps
\* an entry that only a dead tab could resolve.
CallsHeldByLiveConns ==
    \A i \in calls :
        /\ UserOf[i.callerConn] = i.caller /\ Holding(i.callerConn)
        /\ i.connected <=> i.calleeConn # NoConn
        /\ i.connected => /\ UserOf[i.calleeConn] = i.callee
                          /\ Holding(i.calleeConn)

\* call_key names one call per unordered pair of users, so whichever of the two
\* sends a signal, and whoever placed the call, it resolves the same entry.
OneCallPerPair ==
    \A i, j \in calls : {i.caller, i.callee} = {j.caller, j.callee} => i = j

\* Neither scope is outside of the other: the tenancy rule of calling.md, stated
\* without the code's own comparison.
SameTenant(s, t) == s.kind = t.kind /\ (s.kind = "Organization" => s.org = t.org)

\* All the sockets of a user were opened in one scope.  One who changes organization
\* with a tab open has sockets in two, and is rung on both for a call to either.
OneTenant(u) ==
    \A c, d \in Conns :
        UserOf[c] = u /\ UserOf[d] = u => SameTenant(ScopeOf[c], ScopeOf[d])

\* Nobody is rung, answered or sent media from a socket whose scope cannot reach
\* theirs, whatever scopes the sender's other sockets have, and although the gate,
\* the table the route was planned from and the registry it is resolved in are read
\* at three different moments.
DeliveredInTenant ==
    \A m \in delivered' :
        m.kind \in {"call-invite", "call-accept", "media"} /\ OneTenant(UserOf[m.conn])
            => \E c \in Conns : /\ pc'[c] # pc[c] /\ UserOf[c] = m.from
                                /\ SameTenant(ScopeOf[c], ScopeOf[m.conn])
NoCrossScopeCall == [][DeliveredInTenant]_vars

\* The first accept wins: whatever arrives from the callee's other tabs, an
\* answered call keeps the connection that answered it until it is resolved or
\* the pair starts another call.
AnswerKept ==
    \A i \in calls, j \in calls' :
        /\ i.connected /\ j.connected
        /\ j.caller = i.caller /\ j.callee = i.callee
        => j.calleeConn = i.calleeConn
AnsweredOnce == [][AnswerKept]_vars

\* The step leaves no call of the pair of i in the table.
Leaves(i) == \A j \in calls' : {j.caller, j.callee} # {i.caller, i.callee}

\* A connected call is changed by the two tabs that are in it and no other, until
\* the pair starts another call: another tab of either user can neither hang it up,
\* nor take it over by a second accept, nor, by closing, take it off the table.
ResolvedByItsTabs ==
    \A i \in calls \ calls' :
        /\ i.connected
        /\ \A j \in calls' : {j.caller, j.callee} = {i.caller, i.callee} => j.connected
        => \E c \in {i.callerConn, i.calleeConn} : pc'[c] # pc[c]
OnlyItsTabsResolveACall == [][ResolvedByItsTabs]_vars

\* A call that leaves the table without another call of the same pair taking
\* its place leaves exactly one audit row, recorded in the same step or left to the
\* handler of the closing socket, and only a call that was answered is recorded as
\* completed.
Written(c) == audit' \cup finalized'[c]

AuditedWhenResolved ==
    \A i \in calls :
        Leaves(i) => \E c \in Conns : \E r \in Written(c) :
                        /\ pc'[c] # pc[c] /\ r.call = i
                        /\ r.outcome = "completed" => i.connected
                        /\ \A q \in Written(c) : q.call = i => q = r
ResolvedCallAudited == [][AuditedWhenResolved]_vars

\* A socket that closes is gone in the end: no call is pinned to it, and no
\* list of connections contains it, from then on.
ClosedLeavesNothing ==
    \A c \in Conns :
        pc[c] \in {"unregistered", "unscoped"} ~>
            [](/\ \A u \in Users : c \notin sessions[u]
               /\ \A i \in calls : c \notin {i.callerConn, i.calleeConn})

\* The abstract specification: a call is known by its pair, the tabs and what the
\* handlers are at are left out.
PairOf(i) == {i.caller, i.callee}
PairsOfUsers == {{u, v} : u, v \in Users} \ {{u} : u \in Users}

StateIn(table, p) ==
    IF \E i \in table : PairOf(i) = p /\ i.connected THEN "connected"
    ELSE IF \E i \in table : PairOf(i) = p THEN "ringing"
    ELSE "none"

BookState == [p \in PairsOfUsers |-> StateIn(calls, p)]
RowsOf(records) == {[pair |-> PairOf(r.call), outcome |-> r.outcome] : r \in records}
BookRows == RowsOf(audit)
BookDue == [c \in Conns |-> RowsOf(finalized[c])]
Book == INSTANCE CallBook WITH
          Pairs <- PairsOfUsers, Clerks <- Conns,
          state <- BookState, due <- BookDue, rows <- BookRows

\* handler.rs:49-51, "to emit one audit row [...] when a call resolves": the
\* relay keeps the book of calls, through accepts, hang-ups and closing tabs that
\* cross one another.
KeepsTheBook == Book!Spec
=============================================================================
