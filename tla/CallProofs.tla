----------------------------- MODULE CallProofs -----------------------------
(***************************************************************************)
(* Calls, for any number of users, connections and tabs.                   *)
(*                                                                         *)
(* First CallRelay alone, whatever its clients send: no tracked call       *)
(* outlives the connections it is pinned to, no call crosses the scope     *)
(* gate, and the relay implements CallBook.  Then CallSession: the tabs    *)
(* keep their shape and leave the relay its promises.  Last a single call: *)
(* once it is answered and everything has settled, both ends show it.      *)
(***************************************************************************)
EXTENDS CallSession, SequenceTheorems, TLAPS

\* What keeps a tracked call resolvable, one call at a time.
Held(i) ==
    /\ UserOf[i.callerConn] = i.caller /\ Holding(i.callerConn)
    /\ i.connected <=> i.calleeConn # NoConn
    /\ i.connected => UserOf[i.calleeConn] = i.callee /\ Holding(i.calleeConn)

\* SESSIONS lists a connection under its own user, from register() to
\* unregister().
SessionsAgree ==
    \A u \in Users, c \in Conns :
        c \in sessions[u] <=> (UserOf[c] = u /\ Listed(c))

\* CALLER_SCOPES holds the scope of a user's connection or nothing, a plan forwards to
\* the user the signal names, and past the gate a connection of that user is in reach.
Reaches(c, u) == \E d \in Conns : UserOf[d] = u /\ CanCallBetween(ScopeOf[c], ScopeOf[d])
ScopesAgree ==
    /\ \A u \in Users : scopes[u] # NoScope
                          => \E d \in Conns : UserOf[d] = u /\ scopes[u] = ScopeOf[d]
    /\ \A c \in Conns : /\ plan[c].forward.user = plan[c].to
                        /\ pc[c] = "gated" => Reaches(c, plan[c].to)

\* Only a socket that is finalizing has calls to go through, of one pair each.
FinalizedAgree ==
    \A c \in Conns :
        /\ finalized[c] # {} => pc[c] = "finalizing"
        /\ \A q, r \in finalized[c] : PairOf(q.call) = PairOf(r.call) => q = r

LEMMA NoPlanType ==
    ASSUME NEW c \in Conns
    PROVE  NoPlan \in Plans /\ NoPlan.forward.user = NoPlan.to
<1>1. UserOf[c] \in Users  BY UserOfType
<1>2. (CHOOSE u \in Users : TRUE) \in Users  BY <1>1
<1> QED  BY <1>2 DEF NoPlan, Plans, Kinds, Nowhere, Routes

\* A route planned for `to` is a route, and names `to`.
LEMMA RouteToType ==
    ASSUME NEW i \in CallInfo, NEW to \in Users
    PROVE  RouteTo(i, to) \in Routes /\ RouteTo(i, to).user = to
BY DEF RouteTo, CallInfo, Routes, ToConn, AllOf

LEMMA JustForwardType ==
    ASSUME NEW kind \in Kinds, NEW to \in Users, NEW r \in Routes, r.user = to
    PROVE  /\ JustForward(kind, to, r) \in Plans
           /\ JustForward(kind, to, r).to = to
           /\ JustForward(kind, to, r).forward = r
BY DEF JustForward, Plans

LEMMA PlainRoutes ==
    ASSUME NEW to \in Users
    PROVE  /\ AllOf(to) \in Routes /\ AllOf(to).user = to
           /\ Nowhere(to) \in Routes /\ Nowhere(to).user = to
BY DEF AllOf, Nowhere, Routes

\* Whatever a route resolves to, it is registered for the user it names.
LEMMA ResolveListed ==
    ASSUME TypeOK, NEW r \in Routes
    PROVE  Resolve(r) \subseteq sessions[r.user] /\ Resolve(r) \subseteq Conns
BY DEF Resolve, Routes, TypeOK

LEMMA DeliverType ==
    ASSUME NEW kind \in Kinds, NEW from \in Users, NEW conns \in SUBSET Conns
    PROVE  Deliver(kind, from, conns) \in SUBSET Signals
BY DEF Deliver, Signals

\* A call of the same pair is still, or again, in the table.
Replaced(i, table) ==
    \E j \in table : {j.caller, j.callee} = {i.caller, i.callee}

\* What plan_signal may do to the table: an answer only to a call nobody had
\* answered, and a removal only by a tab of the call, with its audit row.
GoodEffect(c, to, table, rows) ==
    /\ \A j \in table \ calls :
         j.connected => \A i \in Tracked(UserOf[c], to) : ~i.connected
    /\ \A i \in calls \ table :
         \/ Replaced(i, table)
         \/ /\ i.connected => c \in {i.callerConn, i.calleeConn}
            /\ \E o \in Outcomes : /\ rows = {[call |-> i, outcome |-> o]}
                                   /\ (o = "completed" => i.connected)

\* What plan_signal can return: a well-formed plan for the user the signal
\* names, well-formed audit rows, and a table that differs from the one before
\* in the one call of the pair, which is still pinned to live connections.
GoodPlan(c, to, p, table, rows) ==
    /\ Planned(c, p, table, rows)
    /\ p \in Plans /\ p.to = to /\ p.forward.user = to
    /\ rows \in SUBSET AuditRows
    /\ table \in SUBSET CallInfo
    /\ \A j \in table \ calls : Held(j) /\ {j.caller, j.callee} = {UserOf[c], to}
    /\ \A i, j \in table : {i.caller, i.callee} = {j.caller, j.callee} => i = j
    /\ GoodEffect(c, to, table, rows)

\* A plan that leaves the table alone.
LEMMA SameTable ==
    ASSUME TypeOK, OneCallPerPair, NEW c, NEW to, NEW p,
           Planned(c, p, calls, {}),
           p \in Plans /\ p.to = to /\ p.forward.user = to
    PROVE  GoodPlan(c, to, p, calls, {})
BY DEF GoodPlan, GoodEffect, TypeOK, OneCallPerPair

LEMMA InvitePlan ==
    ASSUME TypeOK, OneCallPerPair, NEW c \in Conns, NEW to \in Users,
           pc[c] = "idle", PlanInvite(c, to)
    PROVE  \E p, table, rows : GoodPlan(c, to, p, table, rows)
<1> DEFINE new == [caller |-> UserOf[c], callee |-> to, callerConn |-> c,
                   calleeConn |-> NoConn, connected |-> FALSE]
           table == (calls \ Tracked(UserOf[c], to)) \cup {new}
           p == JustForward("call-invite", to, AllOf(to))
<1>1. Planned(c, p, table, {})  BY DEF PlanInvite
<1>2. p \in Plans /\ p.to = to /\ p.forward.user = to
  BY JustForwardType, PlainRoutes DEF Kinds
<1>3. new \in CallInfo  BY UserOfType DEF CallInfo
<1>4. table \in SUBSET CallInfo  BY <1>3 DEF TypeOK
<1>5. Held(new)  BY DEF Held, Holding
<1>6. \A j \in table \ calls : Held(j) /\ {j.caller, j.callee} = {UserOf[c], to}
  <2>1. new.caller = UserOf[c] /\ new.callee = to  OBVIOUS
  <2>2. \A j \in table \ calls : j = new  OBVIOUS
  <2> HIDE DEF new, table
  <2> QED  BY <1>5, <2>1, <2>2
<1>7. \A i, j \in table : {i.caller, i.callee} = {j.caller, j.callee} => i = j
  <2>1. \A i \in table : i = new \/ (i \in calls /\ {i.caller, i.callee} # {new.caller, new.callee})
    BY DEF Tracked
  <2> QED  BY <2>1 DEF OneCallPerPair
<1>8. GoodEffect(c, to, table, {})
  <2>1. ~new.connected /\ new.caller = UserOf[c] /\ new.callee = to  OBVIOUS
  <2>2. new \in table /\ \A j \in table \ calls : j = new  OBVIOUS
  <2>3. \A i \in calls \ table : {i.caller, i.callee} = {UserOf[c], to}
    BY DEF Tracked
  <2> HIDE DEF new, table
  <2>4. \A i \in calls \ table : Replaced(i, table)
    BY <2>1, <2>2, <2>3 DEF Replaced
  <2> QED  BY <2>1, <2>2, <2>4 DEF GoodEffect
<1> QED
  <2> HIDE DEF p, table
  <2>1. GoodPlan(c, to, p, table, {})
    BY <1>1, <1>2, <1>4, <1>6, <1>7, <1>8 DEF GoodPlan
  <2> QED  BY <2>1

LEMMA AcceptPlan ==
    ASSUME TypeOK, OneCallPerPair, CallsHeldByLiveConns,
           NEW c \in Conns, NEW to \in Users, pc[c] = "idle",
           NEW i \in Tracked(UserOf[c], to), UserOf[c] = i.callee,
           PlanAccept(c, to, i)
    PROVE  \E p, table, rows : GoodPlan(c, to, p, table, rows)
<1>1. i \in calls /\ i \in CallInfo /\ {i.caller, i.callee} = {UserOf[c], to}
  BY DEF Tracked, TypeOK
<1>2. /\ RouteTo(i, to) \in Routes /\ RouteTo(i, to).user = to
      /\ Nowhere(to) \in Routes /\ Nowhere(to).user = to
  BY <1>1, RouteToType, PlainRoutes
<1>3. CASE i.calleeConn = NoConn
  <2> DEFINE j == [i EXCEPT !.calleeConn = c, !.connected = TRUE]
             p == [JustForward("call-accept", to, RouteTo(i, to))
                     EXCEPT !.cancelMyOthers = TRUE]
             table == (calls \ {i}) \cup {j}
  <2>1. Planned(c, p, table, {})  BY <1>3, NoConnAssumption DEF PlanAccept
  <2>2. p \in Plans /\ p.to = to /\ p.forward.user = to
    BY <1>2 DEF JustForward, Plans, Kinds
  <2>3. /\ j \in CallInfo /\ j.caller = i.caller /\ j.callee = i.callee
        /\ j.callerConn = i.callerConn /\ j.calleeConn = c /\ j.connected
    BY <1>1 DEF CallInfo
  <2>4. Held(j)
    <3>1. UserOf[i.callerConn] = i.caller /\ Holding(i.callerConn)
      BY <1>1 DEF CallsHeldByLiveConns
    <3>2. Holding(c)  BY DEF Holding
    <3> HIDE DEF j
    <3> QED  BY <2>3, <3>1, <3>2, NoConnAssumption DEF Held
  <2> HIDE DEF j, p
  <2>5. table \in SUBSET CallInfo  BY <2>3 DEF TypeOK
  <2>6. \A k \in table \ calls : Held(k) /\ {k.caller, k.callee} = {UserOf[c], to}
    BY <1>1, <2>3, <2>4
  <2>7. \A k, l \in table : {k.caller, k.callee} = {l.caller, l.callee} => k = l
    BY <1>1, <2>3 DEF OneCallPerPair
  <2>8. GoodEffect(c, to, table, {})
    <3>1. ~i.connected  BY <1>1, <1>3 DEF CallsHeldByLiveConns
    <3>2. \A k \in Tracked(UserOf[c], to) : k = i
      BY <1>1 DEF Tracked, OneCallPerPair
    <3>3. \A k \in calls \ table : Replaced(k, table)
      BY <2>3 DEF Replaced
    <3> QED  BY <3>1, <3>2, <3>3 DEF GoodEffect
  <2> HIDE DEF table
  <2> QED  BY <2>1, <2>2, <2>5, <2>6, <2>7, <2>8 DEF GoodPlan
<1>4. CASE i.calleeConn = c
  <2> DEFINE p == JustForward("call-accept", to, RouteTo(i, to))
  <2>1. Planned(c, p, calls, {})  BY <1>4, NoConnAssumption DEF PlanAccept
  <2>2. p \in Plans /\ p.to = to /\ p.forward.user = to
    BY <1>2, JustForwardType DEF Kinds
  <2> HIDE DEF p
  <2> QED  BY <2>1, <2>2, SameTable
<1>5. CASE i.calleeConn \notin {NoConn, c}
  <2> DEFINE p == [JustForward("call-accept", to, Nowhere(to))
                     EXCEPT !.cancelMe = TRUE]
  <2>1. Planned(c, p, calls, {})  BY <1>5 DEF PlanAccept
  <2>2. p \in Plans /\ p.to = to /\ p.forward.user = to
    BY <1>2 DEF JustForward, Plans, Kinds
  <2> HIDE DEF p
  <2> QED  BY <2>1, <2>2, SameTable
<1> QED  BY <1>3, <1>4, <1>5

LEMMA EndingPlan ==
    ASSUME TypeOK, OneCallPerPair, CallsHeldByLiveConns, NEW c \in Conns, NEW to \in Users,
           NEW kind \in Endings, NEW i \in Tracked(UserOf[c], to),
           PlanEnding(c, kind, to, i)
    PROVE  \E p, table, rows : GoodPlan(c, to, p, table, rows)
<1>1. i \in calls /\ i \in CallInfo /\ kind \in Kinds
  BY DEF Tracked, TypeOK, Endings, Kinds
<1>2. /\ RouteTo(i, to) \in Routes /\ RouteTo(i, to).user = to
      /\ Nowhere(to) \in Routes /\ Nowhere(to).user = to
  BY <1>1, RouteToType, PlainRoutes
<1>3. CASE ~IsMyConn(i, UserOf[c], c)
  <2> DEFINE p == JustForward(kind, to, Nowhere(to))
  <2>1. Planned(c, p, calls, {})  BY <1>3 DEF PlanEnding
  <2>2. p \in Plans /\ p.to = to /\ p.forward.user = to
    BY <1>1, <1>2, JustForwardType
  <2> HIDE DEF p
  <2> QED  BY <2>1, <2>2, SameTable
<1>4. CASE IsMyConn(i, UserOf[c], c)
  <2> DEFINE p == [JustForward(kind, to, RouteTo(i, to))
                     EXCEPT !.cancelMyOthers =
                         UserOf[c] = i.callee /\ i.calleeConn = NoConn]
             rows == {[call |-> i,
                       outcome |-> IF kind = "call-reject" THEN "rejected"
                                   ELSE OutcomeWhenEnded(i)]}
  <2>1. Planned(c, p, calls \ {i}, rows)  BY <1>4 DEF PlanEnding
  <2>2. p \in Plans /\ p.to = to /\ p.forward.user = to
    BY <1>1, <1>2 DEF JustForward, Plans
  <2>3. rows \in SUBSET AuditRows
    BY <1>1 DEF AuditRows, Outcomes, OutcomeWhenEnded
  <2>4. i.connected => c \in {i.callerConn, i.calleeConn}
    BY <1>1, <1>4 DEF IsMyConn, CallsHeldByLiveConns
  <2>5. \E o \in Outcomes : /\ rows = {[call |-> i, outcome |-> o]}
                            /\ (o = "completed" => i.connected)
    BY DEF Outcomes, OutcomeWhenEnded
  <2> HIDE DEF p, rows
  <2>6. GoodEffect(c, to, calls \ {i}, rows)
    BY <2>4, <2>5 DEF GoodEffect
  <2> QED  BY <2>1, <2>2, <2>3, <2>6 DEF GoodPlan, TypeOK, OneCallPerPair
<1> QED  BY <1>3, <1>4

LEMMA MediaPlan ==
    ASSUME TypeOK, OneCallPerPair, NEW c \in Conns, NEW to \in Users,
           NEW kind \in Kinds, NEW i \in Tracked(UserOf[c], to),
           PlanMedia(c, kind, to, i)
    PROVE  \E p, table, rows : GoodPlan(c, to, p, table, rows)
<1>1. i \in CallInfo  BY DEF Tracked, TypeOK
<1> DEFINE r == IF IsMyConn(i, UserOf[c], c) THEN RouteTo(i, to) ELSE Nowhere(to)
           p == JustForward(kind, to, r)
<1>2. Planned(c, p, calls, {})  BY DEF PlanMedia
<1>3. r \in Routes /\ r.user = to  BY <1>1, RouteToType, PlainRoutes
<1>4. p \in Plans /\ p.to = to /\ p.forward.user = to
  <2> HIDE DEF r
  <2> QED  BY <1>3, JustForwardType
<1> HIDE DEF p
<1> QED  BY <1>2, <1>4, SameTable

\* Every branch of plan_signal together.
LEMMA SignalPlan ==
    ASSUME TypeOK, OneCallPerPair, CallsHeldByLiveConns,
           NEW c \in Conns, NEW kind \in Kinds, NEW to \in Users,
           PlanSignal(c, kind, to)
    PROVE  \E p, table, rows : GoodPlan(c, to, p, table, rows)
<1>1. pc[c] = "idle"  BY DEF PlanSignal
<1>2. CASE PlanInvite(c, to)  BY <1>1, <1>2, InvitePlan
<1>3. CASE PlanUntracked(c, kind, to)
  <2> DEFINE p == JustForward(kind, to, AllOf(to))
  <2>1. Planned(c, p, calls, {})  BY <1>3 DEF PlanUntracked
  <2>2. p \in Plans /\ p.to = to /\ p.forward.user = to
    BY JustForwardType, PlainRoutes
  <2> HIDE DEF p
  <2> QED  BY <2>1, <2>2, SameTable
<1>4. ASSUME NEW i \in Tracked(UserOf[c], to), PlanTracked(c, kind, to, i)
      PROVE  \E p, table, rows : GoodPlan(c, to, p, table, rows)
  <2>1. CASE UserOf[c] = i.callee /\ PlanAccept(c, to, i)
    BY <1>1, <2>1, AcceptPlan
  <2>2. CASE kind \in Endings /\ PlanEnding(c, kind, to, i)
    BY <2>2, EndingPlan
  <2>3. CASE PlanMedia(c, kind, to, i)
    BY <2>3, MediaPlan
  <2> QED  BY <1>4, <2>1, <2>2, <2>3 DEF PlanTracked
<1> QED  BY <1>2, <1>3, <1>4 DEF PlanSignal

-----------------------------------------------------------------------------
(* The invariant, conjunct by conjunct, each from the ones it rests on. *)

Inv ==
    /\ TypeOK /\ OneCallPerPair /\ CallsHeldByLiveConns
    /\ SessionsAgree /\ ScopesAgree /\ FinalizedAgree

\* Another socket's loop is not disturbed.
LEMMA FinalizedUntouched ==
    ASSUME Inv, NEW c \in Conns, pc[c] # "finalizing", NEW s, pc' = [pc EXCEPT ![c] = s],
           UNCHANGED finalized
    PROVE  FinalizedAgree'
BY DEF Inv, TypeOK, FinalizedAgree

LEMMA InitInv == Init => Inv
<1> SUFFICES ASSUME Init PROVE Inv  OBVIOUS
<1>1. \A c \in Conns : NoPlan \in Plans /\ NoPlan.forward.user = NoPlan.to
  BY NoPlanType
<1> HIDE DEF NoPlan
<1>2. TypeOK  BY <1>1 DEF Init, TypeOK, Stages
<1>3. OneCallPerPair /\ CallsHeldByLiveConns
  BY DEF Init, OneCallPerPair, CallsHeldByLiveConns
<1>4. SessionsAgree  BY DEF Init, SessionsAgree, Listed
<1>5. ScopesAgree  BY <1>1 DEF Init, ScopesAgree
<1>6. FinalizedAgree  BY DEF Init, FinalizedAgree
<1> QED  BY <1>2, <1>3, <1>4, <1>5, <1>6 DEF Inv

\* A frame is planned: the only step that adds or rewrites calls.
LEMMA PlanSignalInv ==
    ASSUME Inv, NEW c \in Conns, NEW kind \in Kinds, NEW to \in Users,
           PlanSignal(c, kind, to), sent' \in Nat
    PROVE  Inv'
<1>1. PICK p, table, rows : GoodPlan(c, to, p, table, rows)
  BY SignalPlan DEF Inv
<1>2. /\ pc' = [pc EXCEPT ![c] = "planned"] /\ plan' = [plan EXCEPT ![c] = p]
      /\ calls' = table /\ audit' = rows /\ delivered' = {}
      /\ UNCHANGED <<sessions, scopes, last, finalized>> /\ pc[c] = "idle"
  BY <1>1 DEF GoodPlan, Planned, PlanSignal
<1>3. TypeOK'
  BY <1>1, <1>2 DEF Inv, TypeOK, GoodPlan, Stages
<1>4. OneCallPerPair'
  BY <1>1, <1>2 DEF OneCallPerPair, GoodPlan
<1>5. \A d \in Conns : Holding(d) => Holding(d)'
  BY <1>2 DEF Holding, Inv, TypeOK
<1>6. CallsHeldByLiveConns'
  <2> SUFFICES ASSUME NEW i \in table
               PROVE  /\ UserOf[i.callerConn] = i.caller /\ Holding(i.callerConn)'
                      /\ i.connected <=> i.calleeConn # NoConn
                      /\ i.connected => /\ UserOf[i.calleeConn] = i.callee
                                        /\ Holding(i.calleeConn)'
    BY <1>2 DEF CallsHeldByLiveConns
  <2>1. Held(i)
    BY <1>1 DEF GoodPlan, Held, CallsHeldByLiveConns, Inv
  <2>2. i \in CallInfo  BY <1>1 DEF GoodPlan
  <2> QED  BY <2>1, <2>2, <1>5 DEF Held, CallInfo
<1>7. SessionsAgree'
  BY <1>2 DEF Inv, TypeOK, SessionsAgree, Listed
<1>8. ScopesAgree'
  BY <1>1, <1>2 DEF Inv, TypeOK, ScopesAgree, GoodPlan, Reaches
<1>9. FinalizedAgree'  BY <1>2, FinalizedUntouched
<1> QED  BY <1>3, <1>4, <1>6, <1>7, <1>8, <1>9 DEF Inv

\* The connection steps of one handler that leave the table alone.
LEMMA TableUntouched ==
    ASSUME Inv, NEW c \in Conns, UNCHANGED calls,
           NEW s \in Stages, pc' = [pc EXCEPT ![c] = s],
           Holding(c) => s \in {"registered", "idle", "planned", "cancelled",
                                "gated", "unregistered", "unscoped"}
    PROVE  OneCallPerPair' /\ CallsHeldByLiveConns'
<1>1. OneCallPerPair'  BY DEF OneCallPerPair, Inv
<1>2. \A d \in Conns : Holding(d) => Holding(d)'  BY DEF Holding, Inv, TypeOK
<1>3. CallsHeldByLiveConns'
  BY <1>2 DEF CallsHeldByLiveConns, Inv, TypeOK, CallInfo
<1> QED  BY <1>1, <1>3

LEMMA RegisterInv ==
    ASSUME Inv, NEW c \in Conns, Register(c) PROVE Inv'
<1>1. TypeOK'  BY UserOfType DEF Inv, TypeOK, Register, Stages
<1>2. OneCallPerPair' /\ CallsHeldByLiveConns'
  BY TableUntouched DEF Register, Stages
<1>3. SessionsAgree'
  BY UserOfType DEF Inv, TypeOK, SessionsAgree, Listed, Register
<1>4. ScopesAgree'  BY DEF Inv, TypeOK, ScopesAgree, Reaches, Register
<1>5. FinalizedAgree'  BY FinalizedUntouched DEF Register
<1> QED  BY <1>1, <1>2, <1>3, <1>4, <1>5 DEF Inv

LEMMA RecordCallerScopeInv ==
    ASSUME Inv, NEW c \in Conns, RecordCallerScope(c) PROVE Inv'
<1>1. TypeOK'
  BY UserOfType, ScopeOfType DEF Inv, TypeOK, RecordCallerScope, Stages
<1>2. OneCallPerPair' /\ CallsHeldByLiveConns'
  BY TableUntouched DEF RecordCallerScope, Stages
<1>3. SessionsAgree'
  BY DEF Inv, TypeOK, SessionsAgree, Listed, RecordCallerScope
<1>4. ScopesAgree'
  BY UserOfType, ScopeOfType, NoScopeAssumption DEF Inv, TypeOK, ScopesAgree, Reaches, RecordCallerScope
<1>5. FinalizedAgree'  BY FinalizedUntouched DEF RecordCallerScope
<1> QED  BY <1>1, <1>2, <1>3, <1>4, <1>5 DEF Inv

LEMMA CancelRingsInv ==
    ASSUME Inv, NEW c \in Conns, CancelRings(c) PROVE Inv'
<1>0. delivered' \in SUBSET Signals
  <2>1. plan[c].to \in Users /\ "call-cancel" \in Kinds
    BY DEF Inv, TypeOK, Plans, Kinds
  <2>2. {d \in sessions[UserOf[c]] \ {c} : plan[c].cancelMyOthers}
          \cup {d \in {c} : plan[c].cancelMe} \in SUBSET Conns
    BY UserOfType DEF Inv, TypeOK
  <2> QED  BY <2>1, <2>2, DeliverType DEF CancelRings
<1>1. TypeOK'  BY <1>0 DEF Inv, TypeOK, CancelRings, Stages
<1>2. OneCallPerPair' /\ CallsHeldByLiveConns'
  BY TableUntouched DEF CancelRings, Stages
<1>3. SessionsAgree'
  BY DEF Inv, TypeOK, SessionsAgree, Listed, CancelRings
<1>4. ScopesAgree'  BY DEF Inv, TypeOK, ScopesAgree, Reaches, CancelRings
<1>5. FinalizedAgree'  BY FinalizedUntouched DEF CancelRings
<1> QED  BY <1>1, <1>2, <1>3, <1>4, <1>5 DEF Inv

LEMMA GateInv ==
    ASSUME Inv, NEW c \in Conns, Gate(c) PROVE Inv'
<1> DEFINE passes == /\ scopes[plan[c].to] # NoScope
                     /\ CanCallBetween(ScopeOf[c], scopes[plan[c].to])
<1>1. /\ pc[c] = "cancelled"
      /\ pc' = [pc EXCEPT ![c] = IF passes THEN "gated" ELSE "idle"]
      /\ plan' = IF passes THEN plan ELSE [plan EXCEPT ![c] = NoPlan]
      /\ delivered' = {} /\ audit' = {}
      /\ UNCHANGED <<sessions, scopes, calls, last, finalized, sent>>
  BY DEF Gate
<1>2. NoPlan \in Plans /\ NoPlan.forward.user = NoPlan.to  BY NoPlanType
<1>3. passes => Reaches(c, plan[c].to)
  BY DEF Inv, TypeOK, ScopesAgree, Plans, Reaches
<1> HIDE DEF passes, NoPlan
<1>4. TypeOK'  BY <1>1, <1>2 DEF Inv, TypeOK, Stages
<1>5. OneCallPerPair' /\ CallsHeldByLiveConns'
  BY <1>1, TableUntouched DEF Stages
<1>6. SessionsAgree'  BY <1>1 DEF Inv, TypeOK, SessionsAgree, Listed
<1>7. ScopesAgree'
  BY <1>1, <1>2, <1>3 DEF Inv, TypeOK, ScopesAgree, Reaches
<1>8. FinalizedAgree'  BY <1>1, FinalizedUntouched
<1> QED  BY <1>4, <1>5, <1>6, <1>7, <1>8 DEF Inv

LEMMA ForwardInv ==
    ASSUME Inv, NEW c \in Conns, Forward(c) PROVE Inv'
<1>1. NoPlan \in Plans /\ NoPlan.forward.user = NoPlan.to  BY NoPlanType
<1>2. plan[c].kind \in Kinds /\ plan[c].forward \in Routes /\ UserOf[c] \in Users
  BY UserOfType DEF Inv, TypeOK, Plans
<1>3. delivered' \in SUBSET Signals
  BY <1>2, ResolveListed, DeliverType DEF Forward, Inv
<1> HIDE DEF NoPlan
<1>4. TypeOK'  BY <1>1, <1>3 DEF Inv, TypeOK, Forward, Stages
<1>5. OneCallPerPair' /\ CallsHeldByLiveConns'
  BY TableUntouched DEF Forward, Stages
<1>6. SessionsAgree'  BY DEF Inv, TypeOK, SessionsAgree, Listed, Forward
<1>7. ScopesAgree'  BY <1>1 DEF Inv, TypeOK, ScopesAgree, Reaches, Forward
<1>8. FinalizedAgree'  BY FinalizedUntouched DEF Forward
<1> QED  BY <1>4, <1>5, <1>6, <1>7, <1>8 DEF Inv

LEMMA UnregisterInv ==
    ASSUME Inv, NEW c \in Conns, Unregister(c) PROVE Inv'
<1> DEFINE stage == IF last'[c] THEN "unregistered" ELSE "unscoped"
<1>0. last' \in [Conns -> BOOLEAN]  BY DEF Inv, TypeOK, Unregister
<1>1. stage \in {"unregistered", "unscoped"}  OBVIOUS
<1>2. /\ pc[c] = "idle" /\ pc' = [pc EXCEPT ![c] = stage]
      /\ sessions' = [sessions EXCEPT ![UserOf[c]] = @ \ {c}]
      /\ delivered' = {} /\ audit' = {}
      /\ UNCHANGED <<scopes, calls, plan, finalized, sent>>
  BY DEF Unregister
<1> HIDE DEF stage
<1>3. TypeOK'  BY <1>0, <1>1, <1>2 DEF Inv, TypeOK, Stages
<1>4. OneCallPerPair' /\ CallsHeldByLiveConns'
  BY <1>1, <1>2, TableUntouched DEF Stages
<1>5. SessionsAgree'
  BY <1>1, <1>2, UserOfType DEF Inv, TypeOK, SessionsAgree, Listed
<1>6. ScopesAgree'  BY <1>1, <1>2 DEF Inv, TypeOK, ScopesAgree, Reaches
<1>7. FinalizedAgree'  BY <1>2, FinalizedUntouched
<1> QED  BY <1>3, <1>4, <1>5, <1>6, <1>7 DEF Inv

LEMMA DropCallerScopeInv ==
    ASSUME Inv, NEW c \in Conns, DropCallerScope(c) PROVE Inv'
<1>1. TypeOK'  BY DEF Inv, TypeOK, DropCallerScope, Stages
<1>2. OneCallPerPair' /\ CallsHeldByLiveConns'
  BY TableUntouched DEF DropCallerScope, Stages
<1>3. SessionsAgree'
  BY DEF Inv, TypeOK, SessionsAgree, Listed, DropCallerScope
<1>4. ScopesAgree'  BY DEF Inv, TypeOK, ScopesAgree, Reaches, DropCallerScope
<1>5. FinalizedAgree'  BY FinalizedUntouched DEF DropCallerScope
<1> QED  BY <1>1, <1>2, <1>3, <1>4, <1>5 DEF Inv

\* plan_disconnect: afterwards no call is pinned to c, so c may stop holding.
LEMMA PlanDisconnectInv ==
    ASSUME Inv, NEW c \in Conns, PlanDisconnect(c) PROVE Inv'
<1> DEFINE left == LeftBy(c, UserOf[c], last[c])
           stage == IF finalized'[c] = {} THEN "closed" ELSE "finalizing"
           records == {[call |-> i, outcome |-> OutcomeWhenEnded(i)] : i \in left}
<1>0. stage \in {"closed", "finalizing"}  OBVIOUS
<1>1. left \subseteq calls /\ left \subseteq CallInfo
  BY DEF LeftBy, Inv, TypeOK
<1>2. /\ pc[c] = "unscoped" /\ pc' = [pc EXCEPT ![c] = stage]
      /\ calls' = calls \ left
      /\ finalized' = [finalized EXCEPT ![c] = records]
      /\ last' = [last EXCEPT ![c] = FALSE]
      /\ delivered' = {} /\ audit' = {} /\ UNCHANGED <<sessions, scopes, plan, sent>>
  BY DEF PlanDisconnect
<1>s. finalized'[c] = {} \/ stage = "finalizing"  OBVIOUS
<1> HIDE DEF stage
<1>3. records \in SUBSET AuditRows
  BY <1>1 DEF AuditRows, Outcomes, OutcomeWhenEnded
<1>4. \A q, r \in records : PairOf(q.call) = PairOf(r.call) => q = r
  BY <1>1 DEF Inv, OneCallPerPair, PairOf
<1>5. \A i \in calls' : c # i.callerConn /\ c # i.calleeConn
  <2> SUFFICES ASSUME NEW i \in calls', c = i.callerConn \/ c = i.calleeConn
               PROVE  i \in left
    BY <1>2
  <2>1. i \in calls  BY <1>2
  <2>2. /\ UserOf[i.callerConn] = i.caller
        /\ i.connected <=> i.calleeConn # NoConn
        /\ i.connected => UserOf[i.calleeConn] = i.callee
    BY <2>1 DEF Inv, CallsHeldByLiveConns
  <2> QED  BY <2>1, <2>2, NoConnAssumption DEF LeftBy
<1> HIDE DEF left, records
<1>6. finalized' \in [Conns -> SUBSET AuditRows]
  BY <1>2, <1>3 DEF Inv, TypeOK
<1>7. TypeOK'  BY <1>0, <1>1, <1>2, <1>6 DEF Inv, TypeOK, Stages
<1>8. OneCallPerPair'  BY <1>2 DEF Inv, OneCallPerPair
<1>9. \A d \in Conns \ {c} : Holding(d) => Holding(d)'
  BY <1>2 DEF Inv, TypeOK, Holding
<1>10. CallsHeldByLiveConns'
  BY <1>2, <1>5, <1>9 DEF Inv, TypeOK, CallsHeldByLiveConns, CallInfo
<1>11. SessionsAgree'
  BY <1>0, <1>2 DEF Inv, TypeOK, SessionsAgree, Listed
<1>12. ScopesAgree'  BY <1>0, <1>2 DEF Inv, TypeOK, ScopesAgree, Reaches
<1>13. FinalizedAgree'
  BY <1>2, <1>4, <1>s DEF Inv, TypeOK, FinalizedAgree
<1> QED  BY <1>7, <1>8, <1>10, <1>11, <1>12, <1>13 DEF Inv

LEMMA FinalizeInv ==
    ASSUME Inv, NEW c \in Conns, Finalize(c) PROVE Inv'
<1> DEFINE stage == IF finalized'[c] = {} THEN "closed" ELSE "finalizing"
<1>0. stage \in {"closed", "finalizing"}  OBVIOUS
<1>1. PICK r \in finalized[c] :
        /\ finalized' = [finalized EXCEPT ![c] = @ \ {r}]
        /\ delivered' = UNION {Deliver(n.kind, UserOf[c], Resolve(n.route)) :
                                 n \in NoticesOf(r.call, UserOf[c])}
        /\ audit' = {r}
  BY DEF Finalize
<1>2. /\ pc[c] = "finalizing" /\ pc' = [pc EXCEPT ![c] = stage]
      /\ UNCHANGED <<sessions, scopes, calls, plan, last, sent>>
  BY DEF Finalize
<1>s. finalized'[c] = {} \/ stage = "finalizing"  OBVIOUS
<1> HIDE DEF stage
<1>3. r \in AuditRows /\ r.call \in CallInfo /\ UserOf[c] \in Users
  BY UserOfType DEF Inv, TypeOK, AuditRows
<1>4. \A n \in NoticesOf(r.call, UserOf[c]) :
        Deliver(n.kind, UserOf[c], Resolve(n.route)) \in SUBSET Signals
  <2> SUFFICES ASSUME NEW n \in NoticesOf(r.call, UserOf[c])
               PROVE  Deliver(n.kind, UserOf[c], Resolve(n.route)) \in SUBSET Signals
    OBVIOUS
  <2>1. RouteTo(r.call, r.call.callee) \in Routes /\ RouteTo(r.call, r.call.caller) \in Routes
    BY <1>3, RouteToType DEF CallInfo
  <2>2. n.kind \in Kinds /\ n.route \in Routes  BY <2>1 DEF NoticesOf, Kinds
  <2> QED  BY <1>3, <2>2, ResolveListed, DeliverType DEF Inv
<1>5. TypeOK'
  <2>1. delivered' \in SUBSET Signals  BY <1>1, <1>4
  <2>2. audit' \in SUBSET AuditRows  BY <1>1, <1>3
  <2>3. finalized' \in [Conns -> SUBSET AuditRows]  BY <1>1 DEF Inv, TypeOK
  <2> QED  BY <1>0, <1>2, <2>1, <2>2, <2>3 DEF Inv, TypeOK, Stages
<1>6. OneCallPerPair' /\ CallsHeldByLiveConns'
  BY <1>0, <1>2, TableUntouched DEF Holding, Stages
<1>7. SessionsAgree'
  BY <1>0, <1>2 DEF Inv, TypeOK, SessionsAgree, Listed
<1>8. ScopesAgree'  BY <1>0, <1>2 DEF Inv, TypeOK, ScopesAgree, Reaches
<1>9. FinalizedAgree'
  BY <1>1, <1>2, <1>s DEF Inv, TypeOK, FinalizedAgree
<1> QED  BY <1>5, <1>6, <1>7, <1>8, <1>9 DEF Inv

LEMMA StutterInv == ASSUME Inv, UNCHANGED vars PROVE Inv'
<1>1. TypeOK'  BY DEF vars, Inv, TypeOK
<1>2. OneCallPerPair'  BY DEF vars, Inv, OneCallPerPair
<1>3. CallsHeldByLiveConns'  BY DEF vars, Inv, CallsHeldByLiveConns, Holding
<1>4. SessionsAgree'  BY DEF vars, Inv, SessionsAgree, Listed
<1>5. ScopesAgree'  BY DEF vars, Inv, ScopesAgree, Reaches
<1>6. FinalizedAgree'  BY DEF vars, Inv, FinalizedAgree
<1> QED  BY <1>1, <1>2, <1>3, <1>4, <1>5, <1>6 DEF Inv

\* A step the relay's tables may take, by itself or driven by a client's frame, or
\* none.
RelayMoves ==
    \/ \E c \in Conns : Register(c) \/ Unregister(c) \/ Proceed(c)
    \/ \E c \in Conns, kind \in Kinds, to \in Users : PlanSignal(c, kind, to) /\ sent' \in Nat
    \/ /\ delivered' = {} /\ audit' = {}
       /\ UNCHANGED <<pc, sessions, scopes, calls, plan, last, finalized, sent>>
    \/ UNCHANGED vars

LEMMA MovesInv == ASSUME Inv, RelayMoves PROVE Inv'
<1>1. ASSUME NEW c \in Conns, Register(c) \/ Unregister(c) \/ Proceed(c) PROVE Inv'
  BY <1>1, RegisterInv, UnregisterInv, RecordCallerScopeInv, CancelRingsInv, GateInv,
     ForwardInv, DropCallerScopeInv, PlanDisconnectInv, FinalizeInv DEF Proceed
<1>2. ASSUME NEW c \in Conns, NEW kind \in Kinds, NEW to \in Users,
             PlanSignal(c, kind, to), sent' \in Nat
      PROVE  Inv'
  BY <1>2, PlanSignalInv
<1>3. CASE /\ delivered' = {} /\ audit' = {}
           /\ UNCHANGED <<pc, sessions, scopes, calls, plan, last, finalized, sent>>
  <2>1. TypeOK'  BY <1>3 DEF Inv, TypeOK
  <2>2. OneCallPerPair' /\ CallsHeldByLiveConns'
    BY <1>3 DEF Inv, OneCallPerPair, CallsHeldByLiveConns, Holding
  <2>3. SessionsAgree' /\ ScopesAgree' /\ FinalizedAgree'
    BY <1>3 DEF Inv, SessionsAgree, ScopesAgree, Reaches, FinalizedAgree, Listed
  <2> QED  BY <2>1, <2>2, <2>3 DEF Inv
<1>4. CASE UNCHANGED vars  BY <1>4, StutterInv
<1> QED  BY <1>1, <1>2, <1>3, <1>4 DEF RelayMoves

LEMMA NextMoves == ASSUME Inv, [Next]_vars PROVE RelayMoves
<1>1. ASSUME NEW c \in Conns, Signal(c) PROVE RelayMoves
  BY <1>1 DEF Signal, RelayMoves, Inv, TypeOK
<1> QED  BY <1>1 DEF Next, RelayMoves

LEMMA NextInv == Inv /\ [Next]_vars => Inv'
BY NextMoves, MovesInv

\* The inductive invariant of the relay: its tables, SESSIONS and CALLER_SCOPES among
\* them, agree with one another and with the stages of the actors.
THEOREM Invariance == Spec => []Inv
<1> QED  BY InitInv, NextInv, PTL DEF Spec

-----------------------------------------------------------------------------
(* The theorems. *)

\* The tables of the relay and the local data of its handlers keep their shape.
THEOREM TypeCorrect == Spec => []TypeOK
<1>1. Inv => TypeOK  BY DEF Inv
<1> QED  BY <1>1, Invariance, PTL

\* However connects, signals and disconnects interleave, a tracked call is held
\* by connections whose plan_disconnect is still to come, so it is always
\* resolved in the end by one of them.
THEOREM CallsHeld == Spec => []CallsHeldByLiveConns
<1>1. Inv => CallsHeldByLiveConns  BY DEF Inv
<1> QED  BY <1>1, Invariance, PTL

\* ACTIVE_CALLS is a function of the unordered pair.
THEOREM PairKeyed == Spec => []OneCallPerPair
<1>1. Inv => OneCallPerPair  BY DEF Inv
<1> QED  BY <1>1, Invariance, PTL

\* Forward is the one step that delivers such signals, and its plan is past the gate.
LEMMA ScopesKept == ASSUME Inv, RelayMoves PROVE [DeliveredInTenant]_vars
<1>1. CASE UNCHANGED vars  BY <1>1
<1>2. ASSUME NEW c \in Conns, Forward(c) PROVE DeliveredInTenant
  <2>1. plan[c].forward \in Routes /\ plan[c].to \in Users
    BY DEF Inv, TypeOK, Plans
  <2>2. PICK e \in Conns : UserOf[e] = plan[c].to /\ CanCallBetween(ScopeOf[c], ScopeOf[e])
    BY <1>2 DEF Inv, ScopesAgree, Reaches, Forward
  <2>3. SameTenant(ScopeOf[c], ScopeOf[e])
    BY <2>2 DEF CanCallBetween, SameTenant
  <2>4. \A d \in Resolve(plan[c].forward) : d \in Conns /\ UserOf[d] = plan[c].to
    <3>1. plan[c].forward.user = plan[c].to  BY DEF Inv, ScopesAgree
    <3> QED  BY <2>1, <3>1, ResolveListed DEF Inv, SessionsAgree
  <2>5. \A m \in delivered' : m.from = UserOf[c] /\ m.conn \in Resolve(plan[c].forward)
    BY <1>2 DEF Forward, Deliver
  <2>6. pc'[c] # pc[c]  BY <1>2 DEF Forward, Inv, TypeOK
  <2>7. ASSUME NEW m \in delivered', OneTenant(UserOf[m.conn])
        PROVE  SameTenant(ScopeOf[c], ScopeOf[m.conn])
    <3>1. m.conn \in Conns /\ UserOf[m.conn] = UserOf[e]  BY <2>2, <2>4, <2>5
    <3>2. SameTenant(ScopeOf[e], ScopeOf[m.conn])  BY <2>7, <3>1 DEF OneTenant
    <3> QED  BY <2>3, <3>2 DEF SameTenant
  <2> QED  BY <2>5, <2>6, <2>7 DEF DeliveredInTenant
<1>3. ASSUME NEW c \in Conns, CancelRings(c) PROVE DeliveredInTenant
  <2>1. \A m \in delivered' : m.kind = "call-cancel"
    BY <1>3 DEF CancelRings, Deliver
  <2> QED  BY <2>1 DEF DeliveredInTenant
<1>4. ASSUME NEW c \in Conns, Finalize(c) PROVE DeliveredInTenant
  <2>1. PICK r : delivered' = UNION {Deliver(n.kind, UserOf[c], Resolve(n.route)) :
                                       n \in NoticesOf(r.call, UserOf[c])}
    BY <1>4 DEF Finalize
  <2>2. \A n \in NoticesOf(r.call, UserOf[c]) : n.kind \in {"call-cancel", "call-reject"}
    BY DEF NoticesOf
  <2>3. \A m \in delivered' : m.kind \in {"call-cancel", "call-reject"}
    BY <2>1, <2>2 DEF Deliver
  <2> QED  BY <2>3 DEF DeliveredInTenant
<1>5. ASSUME delivered' = {} PROVE DeliveredInTenant
  BY <1>5 DEF DeliveredInTenant
<1> QED
  BY <1>1, <1>2, <1>3, <1>4, <1>5
  DEF RelayMoves, Register, PlanSignal, Unregister, Proceed,
      RecordCallerScope, Gate, DropCallerScope, PlanDisconnect

\* No socket is rung, answered or sent media from a socket out of its reach, whatever
\* happened between the plan, the gate and the send.
THEOREM ScopeIsolation == Spec => NoCrossScopeCall
<1>1. Inv /\ [Next]_vars => [DeliveredInTenant]_vars
  BY NextMoves, ScopesKept
<1> QED  BY <1>1, Invariance, PTL DEF Spec, NoCrossScopeCall

\* Outside plan_signal and plan_disconnect the table does not change.
LEMMA TableSteps ==
    ASSUME RelayMoves
    PROVE  \/ calls' = calls
           \/ \E c \in Conns, kind \in Kinds, to \in Users : PlanSignal(c, kind, to)
           \/ \E c \in Conns : PlanDisconnect(c)
BY DEF RelayMoves, vars, Register, Unregister, Proceed, RecordCallerScope,
       CancelRings, Gate, Forward, DropCallerScope, Finalize

\* plan_signal takes an accept only of a call nobody has answered.
LEMMA NoSecondAnswer ==
    ASSUME Inv, RelayMoves, NEW i \in calls, i.connected,
           NEW j \in calls', j.connected, {j.caller, j.callee} = {i.caller, i.callee}
    PROVE  j = i
<1>1. CASE j \in calls  BY <1>1 DEF Inv, OneCallPerPair
<1>2. CASE j \notin calls
  <2>1. PICK c \in Conns, kind \in Kinds, to \in Users : PlanSignal(c, kind, to)
    BY <1>2, TableSteps DEF PlanDisconnect
  <2>2. PICK p, table, rows : GoodPlan(c, to, p, table, rows)
    BY <2>1, SignalPlan DEF Inv
  <2>3. j \in table \ calls  BY <1>2, <2>2 DEF GoodPlan, Planned
  <2>4. i \in Tracked(UserOf[c], to)  BY <2>2, <2>3 DEF GoodPlan, Tracked
  <2> QED  BY <2>2, <2>3, <2>4 DEF GoodPlan, GoodEffect
<1> QED  BY <1>1, <1>2

LEMMA AnswerStays == ASSUME Inv, RelayMoves PROVE AnswerKept
BY NoSecondAnswer DEF AnswerKept

\* An answered call keeps the connection that answered it first.
THEOREM FirstAnswerWins == Spec => AnsweredOnce
<1>1. Inv /\ [Next]_vars => [AnswerKept]_vars  BY NextMoves, AnswerStays
<1> QED  BY <1>1, Invariance, PTL DEF Spec, AnsweredOnce

\* What a step that takes the last call of a pair off the table looks like: a
\* tab of the call ends it, or plan_disconnect runs for a tab that held it or
\* was the last that could be rung.
LEMMA Leaving ==
    ASSUME Inv, RelayMoves, NEW i \in calls, Leaves(i)
    PROVE  /\ i.connected => \E c \in {i.callerConn, i.calleeConn} : pc'[c] # pc[c]
           /\ \E c \in Conns, o \in Outcomes :
                /\ pc'[c] # pc[c] /\ (o = "completed" => i.connected)
                /\ [call |-> i, outcome |-> o] \in Written(c)
                /\ \A q \in Written(c) : q \in AuditRows /\ (q.call = i => q.outcome = o)
<1>1. i \notin calls'  BY DEF Leaves
<1>2. ASSUME NEW c \in Conns, NEW kind \in Kinds, NEW to \in Users,
             PlanSignal(c, kind, to)
      PROVE  /\ i.connected => c \in {i.callerConn, i.calleeConn}
             /\ pc'[c] # pc[c]
             /\ \E o \in Outcomes : /\ Written(c) = {[call |-> i, outcome |-> o]}
                                    /\ (o = "completed" => i.connected)
                                    /\ Written(c) \in SUBSET AuditRows
  <2>1. PICK p, table, rows : GoodPlan(c, to, p, table, rows)
    BY <1>2, SignalPlan DEF Inv
  <2>2. /\ calls' = table /\ audit' = rows /\ rows \in SUBSET AuditRows
        /\ pc'[c] = "planned" /\ pc[c] = "idle" /\ finalized' = finalized
    BY <1>2, <2>1 DEF GoodPlan, Planned, PlanSignal, Inv, TypeOK
  <2>3. i \in calls \ table /\ ~Replaced(i, table)
    BY <1>1, <2>2 DEF Leaves, Replaced
  <2>4. Written(c) = rows  BY <2>2 DEF Written, Inv, FinalizedAgree
  <2> QED  BY <2>1, <2>2, <2>3, <2>4 DEF GoodPlan, GoodEffect
<1>3. ASSUME NEW c \in Conns, PlanDisconnect(c)
      PROVE  /\ i.connected => c \in {i.callerConn, i.calleeConn}
             /\ pc'[c] # pc[c]
             /\ [call |-> i, outcome |-> OutcomeWhenEnded(i)] \in Written(c)
             /\ \A q \in Written(c) : q.call = i => q.outcome = OutcomeWhenEnded(i)
             /\ Written(c) \in SUBSET AuditRows
  <2>1. i \in LeftBy(c, UserOf[c], last[c])  BY <1>1, <1>3 DEF PlanDisconnect
  <2>2. i.connected => c \in {i.callerConn, i.calleeConn}
    BY <2>1 DEF LeftBy, Inv, CallsHeldByLiveConns
  <2>3. pc'[c] # pc[c]  BY <1>3 DEF PlanDisconnect, Inv, TypeOK
  <2>4. Written(c) = {[call |-> j, outcome |-> OutcomeWhenEnded(j)] :
                         j \in LeftBy(c, UserOf[c], last[c])}
    BY <1>3 DEF PlanDisconnect, Written, Inv, TypeOK
  <2>5. Written(c) \in SUBSET AuditRows
    BY <1>3, PlanDisconnectInv DEF Inv, TypeOK, Written
  <2> QED  BY <2>1, <2>2, <2>3, <2>4, <2>5
<1>4. OutcomeWhenEnded(i) \in Outcomes
      /\ (OutcomeWhenEnded(i) = "completed" => i.connected)
  BY DEF OutcomeWhenEnded, Outcomes
<1>5. ASSUME NEW c \in Conns, NEW kind \in Kinds, NEW to \in Users,
             PlanSignal(c, kind, to)
      PROVE  \E d \in Conns, o \in Outcomes :
                /\ pc'[d] # pc[d] /\ (o = "completed" => i.connected)
                /\ [call |-> i, outcome |-> o] \in Written(d)
                /\ \A q \in Written(d) : q \in AuditRows /\ (q.call = i => q.outcome = o)
  <2>1. PICK o \in Outcomes : /\ Written(c) = {[call |-> i, outcome |-> o]}
                              /\ (o = "completed" => i.connected)
                              /\ Written(c) \in SUBSET AuditRows
    BY <1>2, <1>5
  <2>2. pc'[c] # pc[c]  BY <1>2, <1>5
  <2> QED  BY <2>1, <2>2
<1> QED  BY <1>1, <1>2, <1>3, <1>4, <1>5, TableSteps

\* A connected call that is replaced by no ringing one has left the table for good.
LEMMA ItsTabsOnly == ASSUME Inv, RelayMoves PROVE ResolvedByItsTabs
<1>1. ASSUME NEW i \in calls \ calls', i.connected,
             \A j \in calls' : {j.caller, j.callee} = {i.caller, i.callee} => j.connected
      PROVE  \E c \in {i.callerConn, i.calleeConn} : pc'[c] # pc[c]
  <2>1. Leaves(i)  BY <1>1, NoSecondAnswer DEF Leaves
  <2> QED  BY <1>1, <2>1, Leaving
<1> QED  BY <1>1 DEF ResolvedByItsTabs

\* No tab outside a connected call can resolve it or take it over.
THEOREM OutsidersCannotHangUp == Spec => OnlyItsTabsResolveACall
<1>1. Inv /\ [Next]_vars => [ResolvedByItsTabs]_vars  BY NextMoves, ItsTabsOnly
<1> QED  BY <1>1, Invariance, PTL DEF Spec, OnlyItsTabsResolveACall

\* The row is written, or owed, in the step that removes the call.
LEMMA AuditedStep == ASSUME Inv, RelayMoves PROVE AuditedWhenResolved
<1> SUFFICES ASSUME NEW i \in calls, Leaves(i)
             PROVE  \E c \in Conns : \E r \in Written(c) :
                      /\ pc'[c] # pc[c] /\ r.call = i
                      /\ r.outcome = "completed" => i.connected
                      /\ \A q \in Written(c) : q.call = i => q = r
  BY DEF AuditedWhenResolved
<1>1. PICK c \in Conns, o \in Outcomes :
             /\ pc'[c] # pc[c] /\ (o = "completed" => i.connected)
             /\ [call |-> i, outcome |-> o] \in Written(c)
             /\ \A q \in Written(c) : q \in AuditRows /\ (q.call = i => q.outcome = o)
  BY Leaving
<1>2. \A q \in Written(c) : q.call = i => q = [call |-> i, outcome |-> o]
  BY <1>1 DEF AuditRows
<1> DEFINE r == [call |-> i, outcome |-> o]
<1>3. r \in Written(c) /\ r.call = i /\ (r.outcome = "completed" => i.connected)
  BY <1>1
<1>4. \A q \in Written(c) : q.call = i => q = r  BY <1>2
<1> HIDE DEF r
<1> QED  BY <1>1, <1>3, <1>4

\* Unless another call of the pair takes its place, a resolved call is audited
\* once, with an outcome it had.
THEOREM ResolvedAudited == Spec => ResolvedCallAudited
<1>1. Inv /\ [Next]_vars => [AuditedWhenResolved]_vars  BY NextMoves, AuditedStep
<1> QED  BY <1>1, Invariance, PTL DEF Spec, ResolvedCallAudited

-----------------------------------------------------------------------------
(* CallRelay implements CallBook. *)

\* A client calls another user only, so every tracked call is of a pair.
NoSelfCall == \A i \in calls : i.caller # i.callee

\* The four things plan_signal may do, as the book sees them: nothing, place a
\* call of the pair, answer it, or resolve it with its row.
Nothing(table, rows) == table = calls /\ rows = {}

Placed(pair, table, rows) ==
    \E new \in CallInfo :
        /\ PairOf(new) = pair /\ ~new.connected
        /\ table = {i \in calls : PairOf(i) # pair} \cup {new}
        /\ rows = {}

Answered(pair, table, rows) ==
    \E i \in calls, j \in CallInfo :
        /\ PairOf(i) = pair /\ ~i.connected
        /\ PairOf(j) = pair /\ j.connected
        /\ table = (calls \ {i}) \cup {j}
        /\ rows = {}

Resolved(pair, table, rows) ==
    \E i \in calls, o \in Outcomes :
        /\ PairOf(i) = pair
        /\ table = calls \ {i}
        /\ rows = {[call |-> i, outcome |-> o]}
        /\ (o = "completed" => i.connected)
        /\ o = "missed" => ~i.connected

LEMMA OutcomeFits ==
    ASSUME NEW i
    PROVE  /\ OutcomeWhenEnded(i) \in Outcomes
           /\ OutcomeWhenEnded(i) = "completed" => i.connected
           /\ OutcomeWhenEnded(i) = "missed" => ~i.connected
BY DEF OutcomeWhenEnded, Outcomes

\* Every branch of plan_signal is one of the four.
LEMMA SignalEffect ==
    ASSUME Inv, NEW c \in Conns, NEW kind \in Kinds, NEW to \in Users,
           PlanSignal(c, kind, to)
    PROVE  \/ Nothing(calls', audit')
           \/ Placed({UserOf[c], to}, calls', audit')
           \/ Answered({UserOf[c], to}, calls', audit')
           \/ Resolved({UserOf[c], to}, calls', audit')
<1> DEFINE pair == {UserOf[c], to}
<1>1. CASE PlanInvite(c, to)
  <2> DEFINE new == [caller |-> UserOf[c], callee |-> to, callerConn |-> c,
                     calleeConn |-> NoConn, connected |-> FALSE]
  <2>1. calls' = (calls \ Tracked(UserOf[c], to)) \cup {new} /\ audit' = {}
    BY <1>1 DEF PlanInvite, Planned
  <2>2. new \in CallInfo /\ PairOf(new) = pair /\ ~new.connected
    BY UserOfType DEF CallInfo, PairOf
  <2>3. calls \ Tracked(UserOf[c], to) = {i \in calls : PairOf(i) # pair}
    BY DEF Tracked, PairOf
  <2> HIDE DEF new
  <2> QED  BY <2>1, <2>2, <2>3 DEF Placed
<1>2. CASE PlanUntracked(c, kind, to)
  BY <1>2 DEF PlanUntracked, Planned, Nothing
<1>3. ASSUME NEW i \in Tracked(UserOf[c], to), UserOf[c] = i.callee, PlanAccept(c, to, i)
      PROVE  Nothing(calls', audit') \/ Answered(pair, calls', audit')
  <2>1. i \in calls /\ i \in CallInfo /\ PairOf(i) = pair
    BY <1>3 DEF Tracked, PairOf, Inv, TypeOK
  <2>2. CASE i.calleeConn = NoConn
    <3> DEFINE j == [i EXCEPT !.calleeConn = c, !.connected = TRUE]
    <3>1. calls' = (calls \ {i}) \cup {j} /\ audit' = {}
      BY <1>3, <2>2, NoConnAssumption DEF PlanAccept, Planned
    <3>2. j \in CallInfo /\ j.connected /\ PairOf(j) = PairOf(i)
      BY <2>1 DEF CallInfo, PairOf
    <3>3. ~i.connected  BY <2>1, <2>2 DEF Inv, CallsHeldByLiveConns
    <3> HIDE DEF j
    <3> QED  BY <2>1, <3>1, <3>2, <3>3 DEF Answered
  <2>3. CASE i.calleeConn # NoConn
    BY <1>3, <2>3 DEF PlanAccept, Planned, Nothing
  <2> QED  BY <2>2, <2>3
<1>4. ASSUME NEW i \in Tracked(UserOf[c], to), PlanEnding(c, kind, to, i)
      PROVE  Nothing(calls', audit') \/ Resolved(pair, calls', audit')
  <2>1. i \in calls /\ PairOf(i) = pair  BY <1>4 DEF Tracked, PairOf
  <2>2. CASE IsMyConn(i, UserOf[c], c)
    <3> DEFINE o == IF kind = "call-reject" THEN "rejected" ELSE OutcomeWhenEnded(i)
    <3>1. calls' = calls \ {i} /\ audit' = {[call |-> i, outcome |-> o]}
      BY <1>4, <2>2 DEF PlanEnding, Planned
    <3>2. /\ o \in Outcomes
          /\ (o = "completed" => i.connected)
          /\ o = "missed" => ~i.connected
      BY OutcomeFits DEF Outcomes
    <3> HIDE DEF o
    <3> QED  BY <2>1, <3>1, <3>2 DEF Resolved
  <2>3. CASE ~IsMyConn(i, UserOf[c], c)
    BY <1>4, <2>3 DEF PlanEnding, Planned, Nothing
  <2> QED  BY <2>2, <2>3
<1>5. ASSUME NEW i, PlanMedia(c, kind, to, i)
      PROVE  Nothing(calls', audit')
  BY <1>5 DEF PlanMedia, Planned, Nothing
<1> QED  BY <1>1, <1>2, <1>3, <1>4, <1>5 DEF PlanSignal, PlanTracked

\* The state of a pair in a table.
LEMMA StateOfCall ==
    ASSUME NEW table, NEW i \in table, NEW p, PairOf(i) = p,
           \A j \in table : PairOf(j) = p => j = i
    PROVE  /\ i.connected => StateIn(table, p) = "connected"
           /\ ~i.connected => StateIn(table, p) = "ringing"
BY DEF StateIn

LEMMA StateOfNone ==
    ASSUME NEW table, NEW p, \A i \in table : PairOf(i) # p
    PROVE  StateIn(table, p) = "none"
BY DEF StateIn

LEMMA StateKept ==
    ASSUME NEW old, NEW new, NEW p,
           \A i \in old \cup new : PairOf(i) = p => (i \in old <=> i \in new)
    PROVE  StateIn(new, p) = StateIn(old, p)
BY DEF StateIn

LEMMA PairIsPair ==
    ASSUME NEW u \in Users, NEW v \in Users, u # v
    PROVE  {u, v} \in PairsOfUsers
BY DEF PairsOfUsers

\* A step that leaves the table alone, or that answers or resolves calls, does
\* not add a call between a user and itself; a signal is never to its sender.
LEMMA NoSelfCallStep ==
    ASSUME Inv, NoSelfCall, RelayMoves
    PROVE  NoSelfCall'
<1>1. CASE calls' = calls  BY <1>1 DEF NoSelfCall
<1>2. ASSUME NEW c \in Conns, NEW kind \in Kinds, NEW to \in Users,
             PlanSignal(c, kind, to)
      PROVE  NoSelfCall'
  <2>1. PICK p, table, rows : GoodPlan(c, to, p, table, rows)
    BY <1>2, SignalPlan DEF Inv
  <2>2. calls' = table /\ to # UserOf[c]
    BY <1>2, <2>1 DEF GoodPlan, Planned, PlanSignal
  <2>3. \A j \in table \ calls : j.caller # j.callee
    BY <2>1, <2>2 DEF GoodPlan
  <2> QED  BY <2>2, <2>3 DEF NoSelfCall
<1>3. ASSUME NEW c \in Conns, PlanDisconnect(c) PROVE NoSelfCall'
  BY <1>3 DEF PlanDisconnect, NoSelfCall
<1> QED  BY <1>1, <1>2, <1>3, TableSteps

\* The calls of one pair are one call.
LEMMA SamePair ==
    ASSUME OneCallPerPair
    PROVE  \A i, j \in calls : PairOf(i) = PairOf(j) => i = j
BY DEF OneCallPerPair, PairOf

\* An effect of plan_signal on the pair is a step of the book.
LEMMA SignalIsBookStep ==
    ASSUME Inv, NEW pair \in PairsOfUsers,
           \/ Nothing(calls', audit')
           \/ Placed(pair, calls', audit')
           \/ Answered(pair, calls', audit')
           \/ Resolved(pair, calls', audit'),
           UNCHANGED finalized
    PROVE  Book!Next
<1>0. \A i, j \in calls : PairOf(i) = PairOf(j) => i = j
  BY SamePair DEF Inv
<1>d. BookDue' = BookDue  BY DEF BookDue
<1>1. CASE Nothing(calls', audit')
  <2>1. BookState' = BookState /\ BookRows' = {}
    BY <1>1 DEF Nothing, BookState, BookRows, RowsOf
  <2> QED  BY <1>d, <2>1 DEF Book!Next, Book!Resolve, Book!OneRowEach, Book!Ended
<1>2. CASE Placed(pair, calls', audit')
  <2>1. PICK new : /\ PairOf(new) = pair /\ ~new.connected
                   /\ calls' = {i \in calls : PairOf(i) # pair} \cup {new}
                   /\ audit' = {}
    BY <1>2 DEF Placed
  <2>2. StateIn(calls', pair) = "ringing"
    BY <2>1, StateOfCall
  <2>3. \A q \in PairsOfUsers \ {pair} : StateIn(calls', q) = StateIn(calls, q)
    BY <2>1, StateKept
  <2>4. BookState' = [BookState EXCEPT ![pair] = "ringing"]
    BY <2>2, <2>3 DEF BookState
  <2>5. BookRows' = {}  BY <2>1 DEF BookRows, RowsOf
  <2> QED  BY <1>d, <2>4, <2>5 DEF Book!Next, Book!Place
<1>3. CASE Answered(pair, calls', audit')
  <2>1. PICK i \in calls, j \in CallInfo :
               /\ PairOf(i) = pair /\ ~i.connected
               /\ PairOf(j) = pair /\ j.connected
               /\ calls' = (calls \ {i}) \cup {j}
               /\ audit' = {}
    BY <1>3 DEF Answered
  <2>2. StateIn(calls, pair) = "ringing"
    BY <1>0, <2>1, StateOfCall
  <2>3. StateIn(calls', pair) = "connected"
    BY <1>0, <2>1, StateOfCall
  <2>4. \A q \in PairsOfUsers \ {pair} : StateIn(calls', q) = StateIn(calls, q)
    BY <2>1, StateKept
  <2>5. BookState[pair] = "ringing" /\ BookState' = [BookState EXCEPT ![pair] = "connected"]
    BY <2>2, <2>3, <2>4 DEF BookState
  <2>6. BookRows' = {}  BY <2>1 DEF BookRows, RowsOf
  <2> QED  BY <1>d, <2>5, <2>6 DEF Book!Next, Book!Answer
<1>4. CASE Resolved(pair, calls', audit')
  <2>1. PICK i \in calls, o \in Outcomes :
               /\ PairOf(i) = pair
               /\ calls' = calls \ {i}
               /\ audit' = {[call |-> i, outcome |-> o]}
               /\ (o = "completed" => i.connected)
               /\ o = "missed" => ~i.connected
    BY <1>4 DEF Resolved
  <2>2. /\ i.connected => StateIn(calls, pair) = "connected"
        /\ ~i.connected => StateIn(calls, pair) = "ringing"
    BY <1>0, <2>1, StateOfCall
  <2>3. StateIn(calls', pair) = "none"
    BY <1>0, <2>1, StateOfNone
  <2>4. \A q \in PairsOfUsers \ {pair} : StateIn(calls', q) = StateIn(calls, q)
    BY <2>1, StateKept
  <2>5. {p \in PairsOfUsers : BookState'[p] # BookState[p]} = {pair}
    BY <2>2, <2>3, <2>4 DEF BookState
  <2>6. BookState'[pair] = "none"  BY <2>3 DEF BookState
  <2>7. BookRows' = {[pair |-> pair, outcome |-> o]}
    BY <2>1 DEF BookRows, RowsOf
  <2>8. Book!Fits(o, BookState[pair])
    BY <2>1, <2>2 DEF Book!Fits, Book!Outcomes, Outcomes, BookState
  <2>9. Book!Resolve
    BY <1>d, <2>5, <2>6, <2>7, <2>8 DEF Book!Resolve, Book!OneRowEach, Book!Ended
  <2> QED  BY <2>9 DEF Book!Next
<1> QED  BY <1>1, <1>2, <1>3, <1>4

\* A closing tab resolves all the calls it leaves, each with its own row.
LEMMA DisconnectIsBookStep ==
    ASSUME Inv, NoSelfCall, NEW c \in Conns, PlanDisconnect(c)
    PROVE  Book!Next
<1> DEFINE left == LeftBy(c, UserOf[c], last[c])
           records == {[call |-> i, outcome |-> OutcomeWhenEnded(i)] : i \in left}
<1>0. \A i, j \in calls : PairOf(i) = PairOf(j) => i = j
  BY SamePair DEF Inv
<1>1. /\ left \subseteq calls /\ calls' = calls \ left
      /\ finalized' = [finalized EXCEPT ![c] = records] /\ audit' = {}
  BY DEF PlanDisconnect, LeftBy
<1>f. /\ finalized'[c] = records /\ finalized[c] = {}
      /\ \A d \in Conns \ {c} : finalized'[d] = finalized[d]
  BY <1>1 DEF PlanDisconnect, Inv, TypeOK, FinalizedAgree
<1>r. \A a : a \in records
                <=> \E i \in left : a = [call |-> i, outcome |-> OutcomeWhenEnded(i)]
  OBVIOUS
<1> HIDE DEF left, records
<1>2. \A i \in left : PairOf(i) \in PairsOfUsers
  BY <1>1, PairIsPair DEF NoSelfCall, Inv, TypeOK, CallInfo, PairOf
<1>3. \A i \in left : /\ i.connected => StateIn(calls, PairOf(i)) = "connected"
                      /\ ~i.connected => StateIn(calls, PairOf(i)) = "ringing"
                      /\ StateIn(calls', PairOf(i)) = "none"
  <2> SUFFICES ASSUME NEW i \in left
               PROVE  /\ i.connected => StateIn(calls, PairOf(i)) = "connected"
                      /\ ~i.connected => StateIn(calls, PairOf(i)) = "ringing"
                      /\ StateIn(calls', PairOf(i)) = "none"
    OBVIOUS
  <2>1. i \in calls /\ \A j \in calls : PairOf(j) = PairOf(i) => j = i
    BY <1>0, <1>1
  <2>2. \A j \in calls' : PairOf(j) # PairOf(i)
    BY <1>1, <2>1
  <2> QED  BY <2>1, <2>2, StateOfCall, StateOfNone
<1>4. \A p \in PairsOfUsers :
         (\A i \in left : PairOf(i) # p) => StateIn(calls', p) = StateIn(calls, p)
  BY <1>1, StateKept
<1>5. {p \in PairsOfUsers : BookState'[p] # BookState[p]} = {PairOf(i) : i \in left}
  <2>1. \A i \in left : StateIn(calls', PairOf(i)) # StateIn(calls, PairOf(i))
    BY <1>3
  <2>2. \A p \in PairsOfUsers : /\ BookState'[p] = StateIn(calls', p)
                                /\ BookState[p] = StateIn(calls, p)
    BY DEF BookState
  <2> QED  BY <1>2, <1>4, <2>1, <2>2
<1>6. \A i \in left : BookState'[PairOf(i)] = "none"
  BY <1>2, <1>3 DEF BookState
<1> DEFINE owed == RowsOf(records)
           Row(i) == [pair |-> PairOf(i), outcome |-> OutcomeWhenEnded(i)]
<1>7. (\A i \in left : Row(i) \in owed) /\ (\A r \in owed : \E i \in left : r = Row(i))
  <2>1. \A i \in left : [call |-> i, outcome |-> OutcomeWhenEnded(i)] \in records
    BY <1>r
  <2>2. \A r \in records : \E i \in left : r = [call |-> i, outcome |-> OutcomeWhenEnded(i)]
    BY <1>r
  <2>3. \A r : r \in owed <=>
                 \E a \in records : r = [pair |-> PairOf(a.call), outcome |-> a.outcome]
    BY DEF RowsOf
  <2>4. ASSUME NEW i \in left PROVE Row(i) \in owed
    <3> DEFINE a == [call |-> i, outcome |-> OutcomeWhenEnded(i)]
    <3>1. a \in records /\ a.call = i /\ a.outcome = OutcomeWhenEnded(i)
      BY <2>1
    <3> HIDE DEF a
    <3> QED  BY <2>3, <3>1
  <2>5. ASSUME NEW r \in owed PROVE \E i \in left : r = Row(i)
    <3>1. PICK a \in records : r = [pair |-> PairOf(a.call), outcome |-> a.outcome]
      BY <2>3
    <3>2. PICK i \in left : a = [call |-> i, outcome |-> OutcomeWhenEnded(i)]
      BY <2>2
    <3> QED  BY <3>1, <3>2
  <2> QED  BY <2>4, <2>5
<1>8. \A i \in left : Book!Fits(OutcomeWhenEnded(i), BookState[PairOf(i)])
  <2> SUFFICES ASSUME NEW i \in left
               PROVE  Book!Fits(OutcomeWhenEnded(i), BookState[PairOf(i)])
    OBVIOUS
  <2>1. BookState[PairOf(i)] = StateIn(calls, PairOf(i))
    BY <1>2 DEF BookState
  <2> QED  BY <1>3, <2>1, OutcomeFits DEF Book!Fits, Book!Outcomes, Outcomes
<1>9. {r.pair : r \in owed} = {PairOf(i) : i \in left}
  <2>1. \A i \in left : Row(i).pair = PairOf(i)  OBVIOUS
  <2> HIDE DEF Row
  <2> QED  BY <1>7, <2>1
<1>10. \A q, r \in owed : q.pair = r.pair => q = r
  <2> SUFFICES ASSUME NEW q \in owed, NEW r \in owed, q.pair = r.pair
               PROVE  q = r
    OBVIOUS
  <2>1. PICK i \in left : q = Row(i)
    BY <1>7
  <2>2. PICK j \in left : r = Row(j)
    BY <1>7
  <2>3. PairOf(i) = PairOf(j)  BY <2>1, <2>2
  <2>4. i = j  BY <1>0, <1>1, <2>3
  <2> QED  BY <2>1, <2>2, <2>4
<1>11. \A r \in owed : Book!Fits(r.outcome, BookState[r.pair])
  BY <1>7, <1>8
<1> HIDE DEF owed, Row
<1>12. Book!OneRowEach(owed)
  BY <1>5, <1>6, <1>9, <1>10, <1>11 DEF Book!OneRowEach, Book!Ended
<1>13. /\ BookDue[c] = {} /\ BookDue'[c] = owed /\ BookRows' = {}
       /\ \A d \in Conns \ {c} : BookDue'[d] = BookDue[d]
  BY <1>1, <1>f DEF BookDue, BookRows, RowsOf, owed
<1> QED  BY <1>12, <1>13 DEF Book!Next, Book!Close

\* A turn of the loop records one of the rows the closing tab owes.
LEMMA FinalizeIsBookStep ==
    ASSUME Inv, NEW c \in Conns, Finalize(c)
    PROVE  Book!Next
<1>1. PICK r \in finalized[c] : finalized' = [finalized EXCEPT ![c] = @ \ {r}] /\ audit' = {r}
  BY DEF Finalize
<1> DEFINE row == [pair |-> PairOf(r.call), outcome |-> r.outcome]
<1>2. RowsOf(finalized[c] \ {r}) = RowsOf(finalized[c]) \ {row}
  <2>1. \A q \in finalized[c] : PairOf(q.call) = PairOf(r.call) => q = r
    BY DEF Inv, FinalizedAgree
  <2> QED  BY <2>1 DEF RowsOf
<1>3. row \in RowsOf(finalized[c])  BY DEF RowsOf
<1>4. BookRows' = {row}  BY <1>1 DEF BookRows, RowsOf
<1>5. BookState' = BookState  BY DEF Finalize, BookState
<1> HIDE DEF row
<1>6. BookDue' = [BookDue EXCEPT ![c] = @ \ {row}]
  BY <1>1, <1>2 DEF BookDue, Inv, TypeOK
<1>7. row \in BookDue[c]  BY <1>3 DEF BookDue
<1> QED  BY <1>4, <1>5, <1>6, <1>7 DEF Book!Next, Book!Record

\* Every other handler leaves the book as it is, at most forgetting the rows.
LEMMA OtherIsBookStep ==
    ASSUME UNCHANGED <<calls, finalized>>, audit' = {} \/ UNCHANGED audit
    PROVE  [Book!Next]_<<BookState, BookDue, BookRows>>
<1>1. BookState' = BookState /\ BookDue' = BookDue  BY DEF BookState, BookDue
<1>2. CASE audit' = {}
  <2>1. BookRows' = {}  BY <1>2 DEF BookRows, RowsOf
  <2> QED  BY <1>1, <2>1 DEF Book!Next, Book!Resolve, Book!OneRowEach, Book!Ended
<1>3. CASE UNCHANGED audit
  BY <1>1, <1>3 DEF BookRows
<1> QED  BY <1>2, <1>3

LEMMA BookInit == Init => NoSelfCall /\ Book!Init
<1> SUFFICES ASSUME Init PROVE NoSelfCall /\ Book!Init  OBVIOUS
<1>1. BookState = [p \in PairsOfUsers |-> "none"]
  BY StateOfNone DEF Init, BookState
<1>2. BookRows = {} /\ BookDue = [c \in Conns |-> {}]
  BY DEF Init, BookRows, BookDue, RowsOf
<1> QED  BY <1>1, <1>2 DEF Init, NoSelfCall, Book!Init

LEMMA BookStep ==
    ASSUME Inv, NoSelfCall, RelayMoves
    PROVE  [Book!Next]_<<BookState, BookDue, BookRows>>
<1>1. ASSUME NEW c \in Conns, NEW kind \in Kinds, NEW to \in Users,
             PlanSignal(c, kind, to)
      PROVE  Book!Next
  <2>1. {UserOf[c], to} \in PairsOfUsers
    BY <1>1, UserOfType, PairIsPair DEF PlanSignal
  <2>2. UNCHANGED finalized  BY <1>1 DEF PlanSignal
  <2> QED  BY <1>1, <2>1, <2>2, SignalEffect, SignalIsBookStep
<1>2. ASSUME NEW c \in Conns, PlanDisconnect(c) PROVE Book!Next
  BY <1>2, DisconnectIsBookStep
<1>3. ASSUME NEW c \in Conns, Finalize(c) PROVE Book!Next
  BY <1>3, FinalizeIsBookStep
<1>4. CASE UNCHANGED <<calls, finalized>> /\ (audit' = {} \/ UNCHANGED audit)
  BY <1>4, OtherIsBookStep
<1>5. \/ UNCHANGED <<calls, finalized>> /\ (audit' = {} \/ UNCHANGED audit)
      \/ \E c \in Conns, kind \in Kinds, to \in Users : PlanSignal(c, kind, to)
      \/ \E c \in Conns : PlanDisconnect(c) \/ Finalize(c)
  BY DEF RelayMoves, vars, Register, Unregister, Proceed, RecordCallerScope,
     CancelRings, Gate, Forward, DropCallerScope
<1> QED  BY <1>1, <1>2, <1>3, <1>4, <1>5

\* Whatever the sockets do, the relay is a book of calls: one call per pair, that
\* rings, is answered at most once, and is resolved with one fitting audit row.
THEOREM RelayKeepsTheBook == Spec => KeepsTheBook
<1>1. Init => NoSelfCall /\ Book!Init  BY BookInit
<1>2. Inv /\ NoSelfCall /\ [Next]_vars => [Book!Next]_<<BookState, BookDue, BookRows>>
  BY NextMoves, BookStep
<1>3. Inv /\ NoSelfCall /\ [Next]_vars => NoSelfCall'  BY NextMoves, NoSelfCallStep
<1> QED  BY <1>1, <1>2, <1>3, Invariance, PTL DEF Spec, KeepsTheBook, Book!Spec

-----------------------------------------------------------------------------
(* The session: every tab's state keeps its type, over the relay's invariant. *)

Ups == [kind : Kinds, to : Users]
Downs == [kind : Kinds, from : Users]
Screens == {Idle} \cup [kind : {"outgoing", "incoming", "active"}, peer : Users]
Connections == {NoPc} \cup [job : {"accept", "answer"}, peer : Users]

\* The timer runs in a call only.
TimerInCall == \A t \in Tabs : timer[t] # NoUser => ui[t].kind \in {"outgoing", "active"}

\* startCall has no peer connection: it waits for the prompt and nothing else.
PromptFirst == \A t \in Tabs : \A j \in jobs[t] : j.job = "place" => j.stage = "media"

SessionOwn ==
    /\ sock \in [Tabs -> Conns \cup {NoConn}]
    /\ broken \in SUBSET Conns
    /\ up \in [Conns -> Seq(Ups)] /\ down \in [Conns -> Seq(Downs)]
    /\ ui \in [Tabs -> Screens]
    /\ jobs \in [Tabs -> SUBSET Jobs]
    /\ pcRef \in [Tabs -> Connections]
    /\ linked \in [Tabs -> SUBSET Links] /\ timer \in [Tabs -> Users \cup {NoUser}]
    /\ TimerInCall /\ PromptFirst

SessionInv == Inv /\ SessionOwn

LEMMA SessionTypes == SessionInv => SessionTypeOK
BY DEF SessionInv, Inv, SessionOwn, SessionTypeOK, Ups, Downs, Screens, Connections

LEMMA EmptyTypes == <<>> \in Seq(Ups) /\ <<>> \in Seq(Downs)
BY EmptySeq

LEMMA OneFrame == ASSUME NEW S, NEW x \in S PROVE <<x>> \in Seq(S)
<1>1. <<x>> \in [1..1 -> S]  OBVIOUS
<1> QED  BY <1>1, SeqDef

LEMMA HeadOfUp ==
    ASSUME SessionOwn, NEW c \in Conns, up[c] # <<>>
    PROVE  /\ Head(up[c]).kind \in Kinds /\ Head(up[c]).to \in Users
           /\ Tail(up[c]) \in Seq(Ups)
<1>1. up[c] \in Seq(Ups)  BY DEF SessionOwn
<1>2. Head(up[c]) \in Ups /\ Tail(up[c]) \in Seq(Ups)
  BY <1>1, HeadTailProperties
<1> QED  BY <1>2 DEF Ups

LEMMA HeadOfDown ==
    ASSUME SessionOwn, NEW c \in Conns, down[c] # <<>>
    PROVE  /\ Head(down[c]).kind \in Kinds /\ Head(down[c]).from \in Users
           /\ Tail(down[c]) \in Seq(Downs)
<1>1. down[c] \in Seq(Downs)  BY DEF SessionOwn
<1>2. Head(down[c]) \in Downs /\ Tail(down[c]) \in Seq(Downs)
  BY <1>1, HeadTailProperties
<1> QED  BY <1>2 DEF Downs

\* A client's step leaves the relay where it is; a server's is one of the relay's.
LEMMA SessionMoves ==
    ASSUME SessionInv, [SessionNext]_sessionVars
    PROVE  RelayMoves
<1>1. CASE UNCHANGED sessionVars
  BY <1>1 DEF sessionVars, RelayMoves
<1>2. ASSUME NEW t \in Tabs, Connect(t) PROVE RelayMoves
  BY <1>2 DEF Connect, RelayMoves
<1>3. ASSUME NEW t \in Tabs, UserStep(t) \/ ClientStep(t) \/ MediaLost(t) PROVE RelayMoves
  BY <1>3 DEF UserStep, ClientStep, StartCall, AcceptCall, RejectCall, EndCall, CloseTab,
     HandleSignal, RingTimeout, PeerLost, OnClose, Resume, PromptGranted, PromptDenied,
     IceServersReady, MediaReady, MediaFailed, MediaLost, RelayIdle, RelayMoves
<1>4. ASSUME NEW c \in Conns, Receive(c) PROVE RelayMoves
  BY <1>4, HeadOfUp DEF Receive, RelayMoves, SessionInv, Inv, TypeOK
<1>5. ASSUME NEW c \in Conns, Relay(c) \/ Stopped(c) PROVE RelayMoves
  BY <1>5 DEF Relay, Stopped, RelayMoves
<1>6. ASSUME NEW c \in Conns, Break(c) PROVE RelayMoves
  BY <1>6 DEF Break, RelayMoves
<1> QED  BY <1>1, <1>2, <1>3, <1>4, <1>5, <1>6 DEF SessionNext, ServerStep

\* A client's frames to a peer it has.
LEMMA SendType ==
    ASSUME SessionOwn, NEW t \in Tabs, NEW frames \in Seq(Ups), Send(t, frames)
    PROVE  up' \in [Conns -> Seq(Ups)]
<1>1. up \in [Conns -> Seq(Ups)]  BY DEF SessionOwn
<1>2. CASE sock[t] \in Conns \ broken
  <2>1. up[sock[t]] \o frames \in Seq(Ups)
    BY <1>1, <1>2, ConcatProperties
  <2> QED  BY <1>1, <1>2, <2>1 DEF Send
<1>3. CASE sock[t] \notin Conns \ broken
  BY <1>1, <1>3 DEF Send
<1> QED  BY <1>2, <1>3

LEMMA FrameType ==
    ASSUME NEW kind \in Kinds, NEW u \in Users
    PROVE  Frame(kind, u) \in Seq(Ups)
<1>1. [kind |-> kind, to |-> u] \in Ups  BY DEF Ups
<1> QED  BY <1>1, OneFrame DEF Frame

LEMMA MailedType ==
    ASSUME SessionOwn, delivered' \in SUBSET Signals, Mailed
    PROVE  down' \in [Conns -> Seq(Downs)]
<1> SUFFICES ASSUME NEW d \in Conns
             PROVE  (IF d \in broken THEN <<>>
                     ELSE down[d] \o
                          IF \E m \in delivered' : m.conn = d
                          THEN LET m == CHOOSE m \in delivered' : m.conn = d
                               IN  <<[kind |-> m.kind, from |-> m.from]>>
                          ELSE <<>>) \in Seq(Downs)
  BY DEF Mailed
<1>1. down[d] \in Seq(Downs) /\ <<>> \in Seq(Downs)  BY EmptyTypes DEF SessionOwn
<1>2. ASSUME NEW m \in delivered' PROVE <<[kind |-> m.kind, from |-> m.from]>> \in Seq(Downs)
  <2>1. [kind |-> m.kind, from |-> m.from] \in Downs  BY DEF Signals, Downs
  <2> QED  BY <2>1, OneFrame
<1>3. CASE \E m \in delivered' : m.conn = d
  <2> DEFINE m == CHOOSE m \in delivered' : m.conn = d
  <2>1. m \in delivered'  BY <1>3
  <2>2. down[d] \o <<[kind |-> m.kind, from |-> m.from]>> \in Seq(Downs)
    BY <1>1, <1>2, <2>1, ConcatProperties
  <2> QED  BY <1>1, <1>3, <2>2
<1>4. CASE ~\E m \in delivered' : m.conn = d
  <2>1. down[d] \o <<>> \in Seq(Downs)  BY <1>1, ConcatProperties
  <2> QED  BY <1>1, <1>4, <2>1
<1> QED  BY <1>3, <1>4

LEMMA InitSession == SessionInit => SessionInv
<1> SUFFICES ASSUME SessionInit PROVE SessionInv  OBVIOUS
<1>1. Inv  BY InitInv DEF SessionInit
<1>2. /\ up \in [Conns -> Seq(Ups)] /\ down \in [Conns -> Seq(Downs)]
  BY EmptyTypes DEF SessionInit
<1>3. /\ sock \in [Tabs -> Conns \cup {NoConn}] /\ broken \in SUBSET Conns
      /\ ui \in [Tabs -> Screens] /\ jobs \in [Tabs -> SUBSET Jobs]
      /\ pcRef \in [Tabs -> Connections] /\ linked \in [Tabs -> SUBSET Links]
      /\ timer \in [Tabs -> Users \cup {NoUser}]
  BY DEF SessionInit, Screens, Connections
<1>4. TimerInCall /\ PromptFirst  BY DEF SessionInit, TimerInCall, PromptFirst
<1> QED  BY <1>1, <1>2, <1>3, <1>4 DEF SessionInv, SessionOwn

\* The jobs teardownPeer() leaves, some in another stage.
LEMMA PcClosedType ==
    ASSUME SessionOwn, NEW t \in Tabs
    PROVE  /\ WithPcClosed(t) \in SUBSET Jobs
           /\ \A j \in WithPcClosed(t) : j.job = "place" => j.stage = "media"
           /\ \A j \in WithPcClosed(t) : \E k \in jobs[t] :
                j.job = k.job /\ j.peer = k.peer /\ j.stage \in {k.stage, "closed"}
<1> SUFFICES ASSUME NEW j \in WithPcClosed(t)
             PROVE  /\ j \in Jobs
                    /\ j.job = "place" => j.stage = "media"
                    /\ \E k \in jobs[t] : /\ j.job = k.job /\ j.peer = k.peer
                                          /\ j.stage \in {k.stage, "closed"}
  OBVIOUS
<1>1. PICK k \in jobs[t] :
        j = IF k.stage = "media" /\ [job |-> k.job, peer |-> k.peer] = pcRef[t]
            THEN [k EXCEPT !.stage = "closed"] ELSE k
  BY DEF WithPcClosed
<1>2. k \in Jobs /\ (k.job = "place" => k.stage = "media")
  BY DEF SessionOwn, PromptFirst
<1>3. pcRef[t].job # "place"
  <2>1. pcRef[t] \in Connections  BY DEF SessionOwn
  <2> QED  BY <2>1 DEF Connections, NoPc
<1>4. CASE k.stage = "media" /\ [job |-> k.job, peer |-> k.peer] = pcRef[t]
  <2>1. j = [job |-> k.job, peer |-> k.peer, stage |-> "closed"]
    BY <1>1, <1>2, <1>4 DEF Jobs
  <2>2. k.job # "place"  BY <1>3, <1>4
  <2> QED  BY <1>2, <2>1, <2>2 DEF Jobs
<1>5. CASE ~(k.stage = "media" /\ [job |-> k.job, peer |-> k.peer] = pcRef[t])
  BY <1>1, <1>2, <1>5
<1> QED  BY <1>4, <1>5

LEMMA TeardownOwn ==
    ASSUME SessionOwn, NEW t \in Tabs, NEW left \in SUBSET WithPcClosed(t),
           NEW links \in SUBSET linked[t], TeardownTo(t, left, links)
    PROVE  /\ ui' \in [Tabs -> Screens] /\ jobs' \in [Tabs -> SUBSET Jobs]
           /\ pcRef' \in [Tabs -> Connections]
           /\ linked' \in [Tabs -> SUBSET Links] /\ timer' \in [Tabs -> Users \cup {NoUser}]
           /\ TimerInCall' /\ PromptFirst'
<1>1. left \in SUBSET Jobs /\ \A j \in left : j.job = "place" => j.stage = "media"
  BY PcClosedType
<1>2. /\ ui' \in [Tabs -> Screens] /\ jobs' \in [Tabs -> SUBSET Jobs]
      /\ pcRef' \in [Tabs -> Connections]
      /\ linked' \in [Tabs -> SUBSET Links] /\ timer' \in [Tabs -> Users \cup {NoUser}]
  BY <1>1 DEF SessionOwn, TeardownTo, Screens, Connections
<1>3. TimerInCall'  BY DEF SessionOwn, TeardownTo, TimerInCall
<1>4. PromptFirst'  BY <1>1 DEF SessionOwn, TeardownTo, PromptFirst
<1> QED  BY <1>2, <1>3, <1>4

LEMMA AbandonedSome == ASSUME NEW t \in Tabs PROVE Abandoned(t) \subseteq linked[t]
BY DEF Abandoned

\* A tab with something on screen has a user it is about.
LEMMA PeerOnScreen ==
    ASSUME SessionOwn, NEW t \in Tabs, ui[t].kind # "idle"
    PROVE  ui[t].peer \in Users
BY DEF SessionOwn, Screens, Idle

LEMMA CallScreen ==
    ASSUME NEW kind \in {"outgoing", "incoming", "active"}, NEW u \in Users
    PROVE  With(kind, u) \in Screens /\ With(kind, u).kind = kind
BY DEF With, Screens

\* The steps of the network and of the server.
LEMMA NetOwn ==
    ASSUME SessionInv, Inv',
           \/ \E t \in Tabs : Connect(t) \/ OnClose(t)
           \/ \E c \in Conns : ServerStep(c) \/ Break(c)
    PROVE  SessionOwn'
<1> USE DEF SessionInv
<1>1. ASSUME NEW t \in Tabs, Connect(t) \/ OnClose(t) PROVE SessionOwn'
  <2>1. sock' \in [Tabs -> Conns \cup {NoConn}]
    BY <1>1 DEF SessionOwn, Connect, OnClose
  <2>2. UNCHANGED <<broken, up, down, ui, jobs, pcRef, linked, timer>>
    BY <1>1 DEF Connect, OnClose, clientVars
  <2> QED  BY <2>1, <2>2 DEF SessionOwn, TimerInCall, PromptFirst
<1>2. ASSUME NEW c \in Conns, Break(c) PROVE SessionOwn'
  <2>1. UNCHANGED <<sock, ui, jobs, pcRef, linked, timer>>  BY <1>2 DEF Break, clientVars
  <2>2. /\ broken' \in SUBSET Conns
        /\ up' \in [Conns -> Seq(Ups)] /\ down' \in [Conns -> Seq(Downs)]
    BY <1>2, EmptyTypes DEF Break, SessionOwn
  <2> QED  BY <2>1, <2>2 DEF SessionOwn, TimerInCall, PromptFirst
<1>3. ASSUME NEW c \in Conns, Receive(c) \/ Stopped(c) PROVE SessionOwn'
  <2>1. UNCHANGED <<sock, broken, down, ui, jobs, pcRef, linked, timer>>
    BY <1>3 DEF Receive, Stopped, clientVars
  <2>2. up' \in [Conns -> Seq(Ups)]
    BY <1>3, EmptyTypes, HeadOfUp DEF Receive, Stopped, SessionOwn
  <2> QED  BY <2>1, <2>2 DEF SessionOwn, TimerInCall, PromptFirst
<1>4. ASSUME NEW c \in Conns, Relay(c) PROVE SessionOwn'
  <2>1. UNCHANGED <<sock, broken, up, ui, jobs, pcRef, linked, timer>>
    BY <1>4 DEF Relay, clientVars
  <2>2. down' \in [Conns -> Seq(Downs)]
    BY <1>4, MailedType DEF Relay, Inv, TypeOK
  <2> QED  BY <2>1, <2>2 DEF SessionOwn, TimerInCall, PromptFirst
<1> QED  BY <1>1, <1>2, <1>3, <1>4 DEF ServerStep

\* The steps of a tab that send no frame and tear nothing down.
LEMMA QuietOwn ==
    ASSUME SessionOwn, NEW t \in Tabs,
           \/ \E peer \in Users : StartCall(t, peer)
           \/ AcceptCall(t)
           \/ \E j \in jobs[t] : PromptDenied(t, j) \/ IceServersReady(t, j)
    PROVE  SessionOwn'
<1>1. /\ UNCHANGED <<sock, broken, up, down, ui, timer>>
      /\ ui' \in [Tabs -> Screens] /\ timer' \in [Tabs -> Users \cup {NoUser}] /\ TimerInCall'
  BY DEF StartCall, AcceptCall, PromptDenied, IceServersReady, RelayIdle, SessionOwn,
     TimerInCall
<1>2. ASSUME NEW more \in SUBSET Jobs, jobs' = [jobs EXCEPT ![t] = more],
             \A j \in more : j.job = "place" => j.stage = "media"
      PROVE  jobs' \in [Tabs -> SUBSET Jobs] /\ PromptFirst'
  BY <1>2 DEF SessionOwn, PromptFirst
<1>3. ASSUME NEW peer \in Users, StartCall(t, peer) PROVE SessionOwn'
  <2> DEFINE more == jobs[t] \cup {[job |-> "place", peer |-> peer, stage |-> "media"]}
  <2>1. more \in SUBSET Jobs /\ \A j \in more : j.job = "place" => j.stage = "media"
    BY DEF Jobs, SessionOwn, PromptFirst
  <2>2. jobs' = [jobs EXCEPT ![t] = more] /\ UNCHANGED <<pcRef, linked>>
    BY <1>3 DEF StartCall
  <2>3. jobs' \in [Tabs -> SUBSET Jobs] /\ PromptFirst'
    <3> HIDE DEF more
    <3> QED  BY <1>2, <2>1, <2>2
  <2> QED  BY <1>1, <2>2, <2>3 DEF SessionOwn
<1>4. CASE AcceptCall(t)
  <2> DEFINE more == jobs[t] \cup {[job |-> "accept", peer |-> ui[t].peer, stage |-> "ice"]}
  <2>1. ui[t].peer \in Users  BY <1>4, PeerOnScreen DEF AcceptCall
  <2>2. more \in SUBSET Jobs /\ \A j \in more : j.job = "place" => j.stage = "media"
    BY <2>1 DEF Jobs, SessionOwn, PromptFirst
  <2>3. jobs' = [jobs EXCEPT ![t] = more] /\ UNCHANGED <<pcRef, linked>>
    BY <1>4 DEF AcceptCall
  <2>4. jobs' \in [Tabs -> SUBSET Jobs] /\ PromptFirst'
    <3> HIDE DEF more
    <3> QED  BY <1>2, <2>2, <2>3
  <2> QED  BY <1>1, <2>3, <2>4 DEF SessionOwn
<1>5. ASSUME NEW j \in jobs[t], PromptDenied(t, j) PROVE SessionOwn'
  <2>1. jobs' = [jobs EXCEPT ![t] = jobs[t] \ {j}] /\ UNCHANGED <<pcRef, linked>>
    BY <1>5 DEF PromptDenied
  <2>2. jobs' \in [Tabs -> SUBSET Jobs] /\ PromptFirst'
    BY <2>1 DEF SessionOwn, PromptFirst
  <2> QED  BY <1>1, <2>1, <2>2 DEF SessionOwn
<1>6. ASSUME NEW j \in jobs[t], IceServersReady(t, j) PROVE SessionOwn'
  <2> DEFINE more == (jobs[t] \ {j}) \cup {[j EXCEPT !.stage = "media"]}
  <2>1. j \in Jobs /\ j.job # "place"
    BY <1>6 DEF SessionOwn, PromptFirst, IceServersReady
  <2>2. [j EXCEPT !.stage = "media"] = [job |-> j.job, peer |-> j.peer, stage |-> "media"]
    BY <2>1 DEF Jobs
  <2>3. j.job \in {"accept", "answer"} /\ j.peer \in Users  BY <2>1 DEF Jobs
  <2>4. more \in SUBSET Jobs /\ \A k \in more : k.job = "place" => k.stage = "media"
    BY <2>2, <2>3 DEF Jobs, SessionOwn, PromptFirst
  <2>5. jobs' = [jobs EXCEPT ![t] = more]  BY <1>6 DEF IceServersReady
  <2>6. jobs' \in [Tabs -> SUBSET Jobs] /\ PromptFirst'
    <3> HIDE DEF more
    <3> QED  BY <1>2, <2>4, <2>5
  <2>7. pcRef' \in [Tabs -> Connections]
    BY <1>6, <2>3 DEF IceServersReady, SessionOwn, Connections
  <2>8. linked' \in [Tabs -> SUBSET Links]
    <3>1. \A l \in Links : [l EXCEPT !.held = FALSE] \in Links  BY DEF Links
    <3>2. \A l \in linked[t] : [l EXCEPT !.held = FALSE] \in Links
      BY <3>1 DEF SessionOwn
    <3> QED  BY <1>6, <3>2 DEF IceServersReady, SessionOwn
  <2> QED  BY <1>1, <2>6, <2>7, <2>8 DEF SessionOwn
<1> QED  BY <1>3, <1>4, <1>5, <1>6

\* A job is dropped, something is put on screen for its peer, and a frame sent.
LEMMA JobDone ==
    ASSUME SessionOwn, NEW t \in Tabs, NEW j \in jobs[t],
           PromptGranted(t, j) \/ MediaReady(t, j)
    PROVE  SessionOwn'
<1>1. j \in Jobs /\ j.peer \in Users  BY DEF SessionOwn, Jobs
<1>2. UNCHANGED <<sock, broken, down, pcRef, linked>>
  BY DEF PromptGranted, MediaReady, RelayIdle
<1>3. /\ jobs' = [jobs EXCEPT ![t] = jobs[t] \ {j}]
      /\ jobs' \in [Tabs -> SUBSET Jobs] /\ PromptFirst'
  BY DEF PromptGranted, MediaReady, SessionOwn, PromptFirst
<1>4. CASE PromptGranted(t, j)
  <2>1. With("outgoing", j.peer) \in Screens /\ With("outgoing", j.peer).kind = "outgoing"
    BY <1>1, CallScreen
  <2>2. ui' \in [Tabs -> Screens] /\ timer' \in [Tabs -> Users \cup {NoUser}] /\ TimerInCall'
    BY <1>1, <1>4, <2>1 DEF PromptGranted, SessionOwn, TimerInCall
  <2>3. up' \in [Conns -> Seq(Ups)]
    BY <1>1, <1>4, SendType, FrameType DEF PromptGranted, Kinds
  <2> QED  BY <1>2, <1>3, <2>2, <2>3 DEF SessionOwn
<1>5. CASE MediaReady(t, j)
  <2>1. With("active", j.peer) \in Screens /\ With("active", j.peer).kind = "active"
    BY <1>1, CallScreen
  <2>2. ui' \in [Tabs -> Screens] /\ timer' \in [Tabs -> Users \cup {NoUser}] /\ TimerInCall'
    BY <1>5, <2>1 DEF MediaReady, SessionOwn, TimerInCall
  <2>3. up' \in [Conns -> Seq(Ups)]
    BY <1>1, <1>5, SendType, FrameType DEF MediaReady, Kinds
  <2> QED  BY <1>2, <1>3, <2>2, <2>3 DEF SessionOwn
<1> QED  BY <1>4, <1>5

\* The steps that tear the session down, whether or not they tell the peer.
LEMMA EndingOwn ==
    ASSUME SessionOwn, NEW t \in Tabs,
           \/ RingTimeout(t) \/ EndCall(t) \/ PeerLost(t) \/ MediaLost(t)
           \/ \E j \in jobs[t] : MediaFailed(t, j)
    PROVE  SessionOwn'
<1>1. UNCHANGED <<sock, broken, down>>
  BY DEF RingTimeout, EndCall, PeerLost, MediaLost, MediaFailed, RelayIdle, netVars
<1>2. \E left \in SUBSET WithPcClosed(t), links \in SUBSET linked[t] :
        TeardownTo(t, left, links)
  <2>1. CASE RingTimeout(t) \/ EndCall(t)
    BY <2>1, AbandonedSome DEF RingTimeout, EndCall, Teardown
  <2>2. CASE PeerLost(t) \/ MediaLost(t)
    BY <2>2, AbandonedSome DEF PeerLost, MediaLost
  <2>3. ASSUME NEW j \in jobs[t], MediaFailed(t, j)
        PROVE  \E left \in SUBSET WithPcClosed(t), links \in SUBSET linked[t] :
                 TeardownTo(t, left, links)
    BY <2>3, AbandonedSome DEF MediaFailed
  <2> QED  BY <2>1, <2>2, <2>3
<1>3. up' \in [Conns -> Seq(Ups)]
  <2>1. CASE PeerLost(t) \/ MediaLost(t)
    BY <2>1 DEF PeerLost, MediaLost, netVars, SessionOwn
  <2>2. CASE RingTimeout(t)
    <3>1. timer[t] \in Users  BY <2>2 DEF RingTimeout, SessionOwn
    <3> QED  BY <2>2, <3>1, SendType, FrameType DEF RingTimeout, Kinds
  <2>3. CASE EndCall(t)
    <3>1. ui[t].peer \in Users  BY <2>3, PeerOnScreen DEF EndCall
    <3> QED  BY <2>3, <3>1, SendType, FrameType DEF EndCall, Kinds
  <2>4. ASSUME NEW j \in jobs[t], MediaFailed(t, j) PROVE up' \in [Conns -> Seq(Ups)]
    <3>1. j.peer \in Users  BY DEF SessionOwn, Jobs
    <3> QED  BY <2>4, <3>1, SendType, FrameType DEF MediaFailed, Kinds
  <2> QED  BY <2>1, <2>2, <2>3, <2>4
<1> QED  BY <1>1, <1>2, <1>3, TeardownOwn DEF SessionOwn

LEMMA RejectOwn ==
    ASSUME SessionOwn, NEW t \in Tabs, RejectCall(t)
    PROVE  SessionOwn'
<1>1. ui[t].peer \in Users  BY PeerOnScreen DEF RejectCall
<1>2. up' \in [Conns -> Seq(Ups)]  BY <1>1, SendType, FrameType DEF RejectCall, Kinds
<1>3. UNCHANGED <<sock, broken, down, jobs, pcRef, linked, timer>>
  BY DEF RejectCall, RelayIdle
<1>4. ui' \in [Tabs -> Screens]  BY DEF RejectCall, SessionOwn, Screens
<1>5. TimerInCall'  BY <1>3 DEF RejectCall, SessionOwn, TimerInCall
<1> QED  BY <1>2, <1>3, <1>4, <1>5 DEF SessionOwn, PromptFirst

LEMMA CloseOwn ==
    ASSUME SessionOwn, NEW t \in Tabs, CloseTab(t)
    PROVE  SessionOwn'
<1>1. /\ sock' \in [Tabs -> Conns \cup {NoConn}] /\ broken' \in SUBSET Conns
      /\ up' \in [Conns -> Seq(Ups)] /\ down' \in [Conns -> Seq(Downs)]
  BY EmptyTypes DEF CloseTab, SessionOwn
<1>2. /\ ui' \in [Tabs -> Screens] /\ jobs' \in [Tabs -> SUBSET Jobs]
      /\ pcRef' \in [Tabs -> Connections]
      /\ linked' \in [Tabs -> SUBSET Links] /\ timer' \in [Tabs -> Users \cup {NoUser}]
  BY DEF CloseTab, SessionOwn, Screens, Connections
<1>3. TimerInCall' /\ PromptFirst'
  BY DEF CloseTab, SessionOwn, TimerInCall, PromptFirst
<1> QED  BY <1>1, <1>2, <1>3 DEF SessionOwn

\* A frame arrives at a tab.
LEMMA HandleOwn ==
    ASSUME SessionOwn, NEW t \in Tabs, HandleSignal(t)
    PROVE  SessionOwn'
<1> DEFINE d == sock[t]
           m == Head(down[d])
<1>1. d \in Conns /\ down[d] # <<>>  BY DEF HandleSignal, SessionOwn
<1>2. m.kind \in Kinds /\ m.from \in Users /\ Tail(down[d]) \in Seq(Downs)
  BY <1>1, HeadOfDown
<1>3. /\ down' \in [Conns -> Seq(Downs)] /\ UNCHANGED <<sock, broken>>
      /\ OnInvite(t, m) \/ OnAccept(t, m) \/ OnEnding(t, m) \/ OnMedia(t, m)
  BY <1>1, <1>2 DEF HandleSignal, RelayIdle, SessionOwn
<1> HIDE DEF m
<1>4. CASE UNCHANGED clientVars /\ up' \in [Conns -> Seq(Ups)]
  BY <1>3, <1>4 DEF clientVars, SessionOwn, TimerInCall, PromptFirst
<1>5. CASE OnInvite(t, m)
  <2>1. CASE Send(t, Frame("call-reject", m.from)) /\ UNCHANGED clientVars
    BY <1>2, <1>4, <2>1, SendType, FrameType DEF Kinds
  <2>2. CASE /\ ui[t].kind = "idle" /\ ui' = [ui EXCEPT ![t] = With("incoming", m.from)]
             /\ UNCHANGED <<up, jobs, pcRef, linked, timer>>
    <3>1. ui' \in [Tabs -> Screens]  BY <1>2, <2>2, CallScreen DEF SessionOwn
    <3>2. TimerInCall'  BY <2>2 DEF SessionOwn, TimerInCall
    <3> QED  BY <1>3, <2>2, <3>1, <3>2 DEF SessionOwn, PromptFirst
  <2> QED  BY <1>5, <2>1, <2>2 DEF OnInvite
<1>6. CASE OnAccept(t, m)
  <2>1. CASE UNCHANGED <<up, clientVars>>
    BY <1>4, <2>1 DEF SessionOwn
  <2>2. CASE /\ timer' = [timer EXCEPT ![t] = NoUser]
             /\ jobs' = [jobs EXCEPT ![t] = @ \cup
                          {[job |-> "answer", peer |-> m.from, stage |-> "ice"]}]
             /\ UNCHANGED <<up, ui, pcRef, linked>>
    <3>1. [job |-> "answer", peer |-> m.from, stage |-> "ice"] \in Jobs
      BY <1>2 DEF Jobs
    <3>2. jobs' \in [Tabs -> SUBSET Jobs] /\ PromptFirst'
      BY <2>2, <3>1 DEF SessionOwn, PromptFirst
    <3>3. timer' \in [Tabs -> Users \cup {NoUser}] /\ TimerInCall'
      BY <2>2 DEF SessionOwn, TimerInCall
    <3> QED  BY <1>3, <2>2, <3>2, <3>3 DEF SessionOwn
  <2> QED  BY <1>6, <2>1, <2>2 DEF OnAccept
<1>7. CASE OnEnding(t, m)
  <2>1. CASE UNCHANGED <<up, clientVars>>
    BY <1>4, <2>1 DEF SessionOwn
  <2>2. CASE Teardown(t) /\ UNCHANGED up
    BY <1>3, <2>2, AbandonedSome, TeardownOwn DEF Teardown, SessionOwn
  <2> QED  BY <1>7, <2>1, <2>2 DEF OnEnding
<1>8. CASE OnMedia(t, m)
  <2>1. up' \in [Conns -> Seq(Ups)]
    <3>1. Frame("media", m.from) \in Seq(Ups) /\ <<>> \in Seq(Ups)
      BY <1>2, FrameType, EmptyTypes DEF Kinds
    <3>2. CASE pcRef[t].job = "accept"  BY <1>8, <3>1, <3>2, SendType DEF OnMedia
    <3>3. CASE pcRef[t].job # "accept"  BY <1>8, <3>1, <3>3, SendType DEF OnMedia
    <3> QED  BY <3>2, <3>3
  <2>2. linked' \in [Tabs -> SUBSET Links]
    <3>1. pcRef[t] \in Connections  BY DEF SessionOwn
    <3>2. pcRef[t] # NoPc => [held |-> TRUE, peer |-> pcRef[t].peer] \in Links
      BY <3>1 DEF Connections, Links
    <3> QED  BY <1>8, <3>2 DEF OnMedia, SessionOwn
  <2>3. UNCHANGED <<ui, jobs, pcRef, timer>>  BY <1>8 DEF OnMedia
  <2> QED  BY <1>3, <2>1, <2>2, <2>3 DEF SessionOwn, TimerInCall, PromptFirst
<1> QED  BY <1>3, <1>5, <1>6, <1>7, <1>8

LEMMA SessionStep == SessionInv /\ [SessionNext]_sessionVars => SessionInv'
<1> SUFFICES ASSUME SessionInv, [SessionNext]_sessionVars PROVE SessionInv'
  OBVIOUS
<1>1. Inv /\ SessionOwn /\ Inv'  BY SessionMoves, MovesInv DEF SessionInv
<1>2. ASSUME NEW t \in Tabs, UserStep(t) PROVE SessionOwn'
  BY <1>1, <1>2, QuietOwn, EndingOwn, RejectOwn, CloseOwn DEF UserStep
<1>3. ASSUME NEW t \in Tabs, ClientStep(t) \/ MediaLost(t) PROVE SessionOwn'
  <2>1. CASE OnClose(t)  BY <1>1, <2>1, NetOwn DEF SessionInv
  <2>2. CASE Resume(t)  BY <1>1, <2>2, QuietOwn, JobDone, EndingOwn DEF Resume
  <2> QED  BY <1>1, <1>3, <2>1, <2>2, HandleOwn, EndingOwn DEF ClientStep
<1>4. ASSUME NEW t \in Tabs, Connect(t) PROVE SessionOwn'
  BY <1>1, <1>4, NetOwn DEF SessionInv
<1>5. ASSUME NEW c \in Conns, ServerStep(c) \/ Break(c) PROVE SessionOwn'
  BY <1>1, <1>5, NetOwn DEF SessionInv
<1>6. CASE UNCHANGED sessionVars
  <2>1. UNCHANGED <<sock, broken, up, down, ui, jobs, pcRef, linked, timer>>
    BY <1>6 DEF sessionVars, netVars, clientVars
  <2> QED  BY <1>1, <2>1 DEF SessionInv, SessionOwn, TimerInCall, PromptFirst
<1> QED  BY <1>1, <1>2, <1>3, <1>4, <1>5, <1>6 DEF SessionNext, SessionInv

\* The inductive invariant of the composition: the relay's, and the types of the tabs
\* with what timers and prompts go with.
THEOREM SessionInvariance == SessionSpec => []SessionInv
<1> QED  BY InitSession, SessionStep, PTL DEF SessionSpec

\* Every tab's screen, jobs, peer connections and queues of frames keep their shape.
THEOREM SessionTypeCorrect == SessionSpec => []SessionTypeOK
<1> QED  BY SessionTypes, SessionInvariance, PTL

\* With real clients driving the relay, whose sockets drop and come back, no call is
\* pinned to a connection that is gone.
THEOREM SessionCallsHeld == SessionSpec => []CallsHeldByLiveConns
<1>1. SessionInv => CallsHeldByLiveConns  BY DEF SessionInv, Inv
<1> QED  BY <1>1, SessionInvariance, PTL

\* No tab is rung, answered or sent media from a tab out of its reach.
THEOREM SessionScopeIsolation == SessionSpec => NoCrossScopeCall
<1>1. SessionInv /\ [SessionNext]_sessionVars => [DeliveredInTenant]_vars
  BY SessionMoves, ScopesKept DEF SessionInv
<1> QED  BY <1>1, SessionInvariance, PTL DEF SessionSpec, NoCrossScopeCall

\* What tabs may do to each other's calls: the first accept wins, no third tab ends an
\* answered call, and whoever ends one leaves one audit row.
THEOREM SessionCallsAreTheirTabs ==
    SessionSpec => AnsweredOnce /\ OnlyItsTabsResolveACall /\ ResolvedCallAudited
<1>1. SessionInv /\ [SessionNext]_sessionVars
         => /\ [AnswerKept]_vars /\ [ResolvedByItsTabs]_vars
            /\ [AuditedWhenResolved]_vars
  BY SessionMoves, AnswerStays, ItsTabsOnly, AuditedStep DEF SessionInv
<1> QED
  BY <1>1, SessionInvariance, PTL
  DEF SessionSpec, AnsweredOnce, OnlyItsTabsResolveACall, ResolvedCallAudited

\* The session implements the book of calls as the relay does: what the clients add
\* to its steps, crossing frames, dropped sockets and closed tabs, takes none away.
THEOREM SessionKeepsTheBook == SessionSpec => KeepsTheBook
<1>1. SessionInit => NoSelfCall /\ Book!Init  BY BookInit DEF SessionInit
<1>2. SessionInv /\ NoSelfCall /\ [SessionNext]_sessionVars
         => [Book!Next]_<<BookState, BookDue, BookRows>> /\ NoSelfCall'
  BY SessionMoves, BookStep, NoSelfCallStep DEF SessionInv
<1> QED  BY <1>1, <1>2, SessionInvariance, PTL DEF SessionSpec, KeepsTheBook, Book!Spec

-----------------------------------------------------------------------------
(* A single call: an answered call is on screen at both ends.                *)
(*                                                                           *)
(* The call goes through four phases: nobody has been invited, the caller's  *)
(* invite is on its way, the relay tracks the call, it is over.  While it is *)
(* tracked, the one frame that may take it off a screen without taking it    *)
(* off the table is an ending, and the only endings a party hears of go to   *)
(* the tabs of the callee that did not answer.                               *)

Carries(q, kinds) == \E f \in Range(q) : f.kind \in kinds
Planning(c) == pc[c] \in {"planned", "cancelled", "gated"}

\* A connection that was opened and has not been broken is the socket of its tab.
SocketsInUse ==
    /\ \A c \in Conns : pc[c] # "new" /\ c \notin broken => sock[TabOf[c]] = c
    /\ \A t \in Tabs : sock[t] # NoConn => TabOf[sock[t]] = t /\ pc[sock[t]] # "new"
    /\ \A c \in Conns : up[c] # <<>> => pc[c] # "new"

\* The session of a tab with nobody in it, and of one in a call with u, whose async
\* functions have the name job.
Untouched(t) ==
    ui[t] = Idle /\ timer[t] = NoUser /\ jobs[t] = {} /\ pcRef[t] = NoPc /\ linked[t] = {}

InCallWith(t, u, kinds, job) ==
    /\ ui[t] = Idle \/ \E kind \in kinds : ui[t] = With(kind, u)
    /\ \A j \in jobs[t] : /\ j.job = job /\ j.peer = u
                          /\ j.stage = "media" => pcRef[t] = [job |-> job, peer |-> u]
    /\ pcRef[t] = NoPc \/ pcRef[t] = [job |-> job, peer |-> u]
    /\ \A l \in linked[t] : l.peer = u
    /\ timer[t] \in {NoUser, u}

CallerTab(t, v) == InCallWith(t, v, {"outgoing", "active"}, "answer")
CalleeTab(t, u) == InCallWith(t, u, {"incoming", "active"}, "accept") /\ timer[t] = NoUser

\* The call from the connection c to the user v: its tabs and its frames.
TabRoles(c, v) ==
    /\ CallerTab(TabOf[c], v)
    /\ \A t \in Tabs \ {TabOf[c]} :
         IF Me(t) = v THEN CalleeTab(t, UserOf[c]) ELSE Untouched(t)

Traffic(d, peer, unsent, unheard) ==
    /\ \A f \in Range(up[d]) : f.to = peer /\ f.kind # unsent
    /\ \A f \in Range(down[d]) : f.from = peer /\ f.kind # unheard
    /\ Planning(d) => plan[d].to = peer /\ plan[d].kind # unsent

Frames(u, v) ==
    \A d \in Conns :
        /\ UserOf[d] = u => Traffic(d, v, "call-accept", "call-invite")
        /\ UserOf[d] = v => Traffic(d, u, "call-invite", "call-accept")
        /\ UserOf[d] \notin {u, v} => up[d] = <<>> /\ down[d] = <<>> /\ ~Planning(d)
        /\ finalized[d] = {}

\* What the two ends of a call look like until one of them ends it.
Shows(t, u) == ui[t] = With("active", u) /\ pcRef[t].peer = u
Dials(t, u) ==
    \/ ui[t] = With("active", u)
    \/ ui[t] = With("outgoing", u) /\ (timer[t] # NoUser \/ jobs[t] # {})

\* Neither end has broken or sent an ending that the relay is still to receive.
Sound(i) ==
    /\ i.callerConn \notin broken /\ ~Carries(up[i.callerConn], Endings)
    /\ i.connected => i.calleeConn \notin broken /\ ~Carries(up[i.calleeConn], Endings)

\* The caller's offer is on its way to the callee, or has got there.
MediaOut(i) ==
    \/ \E c \in Conns : /\ UserOf[c] = i.caller
                        /\ Carries(up[c], {"media"}) \/ (Planning(c) /\ plan[c].kind = "media")
    \/ \E c \in Conns : UserOf[c] = i.callee /\ Carries(down[c], {"media"})
    \/ \E t \in Tabs : Me(t) = i.callee /\ linked[t] # {}

\* Only the callee's other tabs hear of an ending, once one has answered.
NoStrayEnding(i) ==
    /\ \A d \in Conns : Carries(down[d], Endings) =>
          i.connected /\ UserOf[d] = i.callee /\ d # i.calleeConn
    /\ \A c \in Conns : Planning(c) =>
          /\ plan[c].kind \in Endings => plan[c].forward.type = "Nowhere"
          /\ plan[c].cancelMyOthers => i.connected /\ c = i.calleeConn
          /\ plan[c].cancelMe =>
               i.connected /\ UserOf[c] = i.callee /\ c # i.calleeConn

\* Nobody has answered: the caller has built nothing, and a tab that is about to
\* answer has the call on screen.
StillRinging(i) ==
    ~i.connected =>
        /\ LET t == TabOf[i.callerConn] IN
             jobs[t] = {} /\ pcRef[t] = NoPc /\ linked[t] = {}
        /\ \A c \in Conns :
             /\ ~Carries(down[c], {"call-accept"})
             /\ Planning(c) => plan[c].kind # "call-accept"
             /\ /\ Sound(i) /\ c \notin broken /\ UserOf[c] = i.callee
                /\ Carries(up[c], {"call-accept"})
                => Carries(up[c], Endings) \/ Shows(TabOf[c], i.caller)

Answers(i) ==
    Sound(i) =>
        /\ Dials(TabOf[i.callerConn], i.callee)
        /\ i.connected => Shows(TabOf[i.calleeConn], i.caller)
        /\ MediaOut(i) => pcRef[TabOf[i.callerConn]].peer = i.callee

\* The phases.  No other call is placed once the first prompt has been answered.
Late ==
    /\ placed >= MaxCalls
    /\ \A c \in Conns : ~Carries(up[c], {"call-invite"})
    /\ \A t \in Tabs : \A j \in jobs[t] : j.job # "place"

Calm == \A c \in Conns : ~Planning(c) /\ finalized[c] = {} /\ down[c] = <<>>

BeforeInvite ==
    /\ calls = {} /\ Calm
    /\ \A c \in Conns : up[c] = <<>>
    /\ \A t \in Tabs : ui[t] = Idle /\ timer[t] = NoUser /\ pcRef[t] = NoPc /\ linked[t] = {}
    /\ \A t \in Tabs : \A j \in jobs[t] :
          j.job = "place" /\ j.peer # Me(t) /\ placed >= MaxCalls
    /\ \A t, s \in Tabs : \A j \in jobs[t], k \in jobs[s] : t = s /\ j = k

Inviting(c, v) ==
    /\ calls = {} /\ Calm /\ v # UserOf[c] /\ placed >= MaxCalls
    /\ \A d \in Conns \ {c} : up[d] = <<>>
    /\ up[c] # <<>> /\ Head(up[c]) = [kind |-> "call-invite", to |-> v]
    /\ \A f \in Range(Tail(up[c])) : f.to = v /\ f.kind \in Endings
    /\ \A t \in Tabs \ {TabOf[c]} : Untouched(t)
    /\ LET t == TabOf[c] IN
         /\ ui[t] = Idle \/ ui[t] = With("outgoing", v)
         /\ jobs[t] = {} /\ pcRef[t] = NoPc /\ linked[t] = {} /\ timer[t] \in {NoUser, v}
         /\ c \in broken => ui[t] = Idle
         /\ c \notin broken /\ Tail(up[c]) = <<>> => ui[t] = With("outgoing", v) /\ timer[t] = v

InTable(i) ==
    /\ calls = {i} /\ Late
    /\ i.callee # i.caller
    /\ TabRoles(i.callerConn, i.callee) /\ Frames(i.caller, i.callee)
    /\ NoStrayEnding(i) /\ StillRinging(i) /\ Answers(i)

Over == calls = {} /\ Late

OneCall ==
    \/ BeforeInvite
    \/ \E c \in Conns, v \in Users : Inviting(c, v)
    \/ \E i \in calls : InTable(i)
    \/ Over

Counted == placed \in Nat /\ losses \in Nat

OneCallInv == SocketsInUse /\ Counted /\ (losses = 0 => OneCall)

\* A tab is one user's, whichever of its connections is asked.
LEMMA MyUser == ASSUME NEW c \in Conns PROVE Me(TabOf[c]) = UserOf[c]
BY TabOfUser DEF Me

LEMMA EmptyRange == Range(<<>>) = {}
BY DEF Range

LEMMA EmptyIff ==
    ASSUME NEW S, NEW q \in Seq(S)
    PROVE  q = <<>> <=> Range(q) = {}
<1>1. Range(q) = {q[k] : k \in 1..Len(q)}  BY RangeEquality
<1>2. q # <<>> => Len(q) \in Nat \ {0}  BY LenProperties, EmptySeq
<1>3. q # <<>> => q[1] \in Range(q)  BY <1>1, <1>2
<1> QED  BY <1>3, EmptyRange

LEMMA HeadRange ==
    ASSUME NEW S, NEW q \in Seq(S), q # <<>>
    PROVE  /\ Range(q) = {Head(q)} \cup Range(Tail(q))
           /\ Tail(q) \in Seq(S)
<1>1. /\ Head(q) \in S /\ Tail(q) \in Seq(S) /\ Len(Tail(q)) = Len(q) - 1
      /\ \A k \in 1..Len(Tail(q)) : Tail(q)[k] = q[k + 1]
  BY HeadTailProperties
<1>2. /\ Range(q) = {q[k] : k \in 1..Len(q)}
      /\ Range(Tail(q)) = {Tail(q)[k] : k \in 1..Len(Tail(q))}
  BY <1>1, RangeEquality
<1>3. Len(q) \in Nat \ {0} /\ Head(q) = q[1]  BY LenProperties
<1>4. ASSUME NEW x \in Range(q) PROVE x \in {Head(q)} \cup Range(Tail(q))
  <2>1. PICK k \in 1..Len(q) : x = q[k]  BY <1>2
  <2>2. CASE k = 1  BY <1>3, <2>1, <2>2
  <2>3. CASE k # 1
    <3>1. k - 1 \in 1..Len(Tail(q)) /\ Tail(q)[k - 1] = q[k]  BY <1>1, <1>3, <2>3
    <3> QED  BY <1>2, <2>1, <3>1
  <2> QED  BY <2>2, <2>3
<1>5. ASSUME NEW x \in Range(Tail(q)) PROVE x \in Range(q)
  <2>1. PICK k \in 1..Len(Tail(q)) : x = Tail(q)[k]  BY <1>2
  <2>2. k + 1 \in 1..Len(q) /\ x = q[k + 1]  BY <1>1, <1>3, <2>1
  <2> QED  BY <1>2, <2>2
<1>6. Head(q) \in Range(q)  BY <1>2, <1>3
<1> QED  BY <1>1, <1>4, <1>5, <1>6

LEMMA FrameRange ==
    ASSUME NEW kind, NEW u
    PROVE  Range(Frame(kind, u)) = {[kind |-> kind, to |-> u]}
<1>1. DOMAIN Frame(kind, u) = {1} /\ Frame(kind, u)[1] = [kind |-> kind, to |-> u]
  BY DEF Frame
<1> QED  BY <1>1 DEF Range

\* A step of the tab t appends frames of these kinds, to u, to what it has sent.
Sends(t, kinds, u) ==
    /\ up' \in [Conns -> Seq(Ups)]
    /\ \A d \in Conns :
         Range(up'[d]) = Range(up[d]) \cup
            {[kind |-> k, to |-> u] : k \in {k \in kinds : d = sock[t] /\ d \notin broken}}

LEMMA SendsOne ==
    ASSUME SessionOwn, NEW t \in Tabs, NEW kind \in Kinds, NEW u \in Users,
           Send(t, Frame(kind, u))
    PROVE  Sends(t, {kind}, u)
<1>1. up \in [Conns -> Seq(Ups)] /\ up' \in [Conns -> Seq(Ups)]
  BY SendType, FrameType DEF SessionOwn
<1>2. ASSUME NEW d \in Conns, d = sock[t], d \notin broken
      PROVE  Range(up'[d]) = Range(up[d]) \cup {[kind |-> kind, to |-> u]}
  <2>1. up'[d] = up[d] \o Frame(kind, u)  BY <1>1, <1>2 DEF Send
  <2>2. Range(up'[d]) = Range(up[d]) \cup Range(Frame(kind, u))
    BY <1>1, <2>1, FrameType, RangeConcatenation
  <2> QED  BY <2>2, FrameRange
<1>3. ASSUME NEW d \in Conns, d # sock[t] \/ d \in broken
      PROVE  up'[d] = up[d]
  BY <1>1, <1>3 DEF Send
<1> QED  BY <1>1, <1>2, <1>3 DEF Sends

LEMMA SendsNone ==
    ASSUME SessionOwn, NEW t \in Tabs, NEW u, UNCHANGED up \/ Send(t, <<>>)
    PROVE  Sends(t, {}, u)
<1>1. up \in [Conns -> Seq(Ups)]  BY DEF SessionOwn
<1>2. UNCHANGED up
  <2>1. \A d \in Conns : up[d] \o <<>> = up[d]  BY <1>1, ConcatEmptySeq
  <2> QED  BY <1>1, <2>1 DEF Send
<1> QED  BY <1>1, <1>2 DEF Sends

\* What the sessions of other tabs, and the relay, look like after a tab's step.
TabStep(t) ==
    \/ \E peer \in Users : StartCall(t, peer)
    \/ AcceptCall(t) \/ RejectCall(t) \/ EndCall(t)
    \/ HandleSignal(t) \/ RingTimeout(t) \/ PeerLost(t) \/ Resume(t)

SameTab(s) ==
    /\ ui'[s] = ui[s] /\ jobs'[s] = jobs[s] /\ pcRef'[s] = pcRef[s]
    /\ linked'[s] = linked[s] /\ timer'[s] = timer[s]

LEMMA OnlyThisTab ==
    ASSUME SessionOwn, NEW t \in Tabs, TabStep(t)
    PROVE  /\ RelayIdle
           /\ \A s \in Tabs \ {t} : SameTab(s)
           /\ placed' = placed \/ (placed < MaxCalls /\ placed' = placed + 1)
<1>1. ASSUME NEW peer \in Users, StartCall(t, peer)
      PROVE  /\ RelayIdle /\ \A s \in Tabs \ {t} : SameTab(s)
             /\ placed < MaxCalls /\ placed' = placed + 1
  BY <1>1 DEF StartCall, SameTab, SessionOwn
<1>2. CASE AcceptCall(t) \/ RejectCall(t)
  BY <1>2 DEF AcceptCall, RejectCall, SameTab, SessionOwn
<1>3. CASE EndCall(t) \/ RingTimeout(t) \/ PeerLost(t)
  BY <1>3 DEF EndCall, RingTimeout, PeerLost, Teardown, TeardownTo, SameTab, SessionOwn
<1>4. CASE Resume(t)
  BY <1>4 DEF Resume, PromptGranted, PromptDenied, IceServersReady, MediaReady,
     MediaFailed, TeardownTo, SameTab, SessionOwn
<1>5. CASE HandleSignal(t)
  BY <1>5 DEF HandleSignal, OnInvite, OnAccept, OnEnding, OnMedia, Teardown, TeardownTo,
     clientVars, SameTab, SessionOwn
<1> QED  BY <1>1, <1>2, <1>3, <1>4, <1>5 DEF TabStep

\* A tab hears the frames of its socket in turn, and no others.
LEMMA DownShrinks ==
    ASSUME SessionOwn, NEW t \in Tabs, TabStep(t)
    PROVE  \A d \in Conns : /\ down[d] = <<>> => down'[d] = <<>>
                            /\ Range(down'[d]) \subseteq Range(down[d])
<1>1. down \in [Conns -> Seq(Downs)]  BY DEF SessionOwn
<1>2. CASE UNCHANGED down  BY <1>2
<1>3. CASE HandleSignal(t)
  <2>1. sock[t] \in Conns /\ down[sock[t]] # <<>>
    BY <1>3 DEF HandleSignal, SessionOwn
  <2>2. down' = [down EXCEPT ![sock[t]] = Tail(down[sock[t]])]
    BY <1>3 DEF HandleSignal
  <2>3. Range(Tail(down[sock[t]])) \subseteq Range(down[sock[t]])
    BY <1>1, <2>1, HeadRange
  <2> QED  BY <1>1, <2>1, <2>2, <2>3
<1>4. CASE ~HandleSignal(t)
  BY <1>2, <1>4 DEF TabStep, StartCall, AcceptCall, RejectCall, EndCall, RingTimeout,
     PeerLost, Resume, PromptGranted, PromptDenied, IceServersReady, MediaReady, MediaFailed
<1> QED  BY <1>3, <1>4

LEMMA HeardOne ==
    ASSUME SessionOwn, NEW t \in Tabs, HandleSignal(t)
    PROVE  /\ sock[t] \in Conns /\ down[sock[t]] # <<>>
           /\ Head(down[sock[t]]) \in Range(down[sock[t]])
           /\ Head(down[sock[t]]).kind \in Kinds /\ Head(down[sock[t]]).from \in Users
<1>1. sock[t] \in Conns /\ down[sock[t]] # <<>>
  BY DEF HandleSignal, SessionOwn
<1>2. down[sock[t]] \in Seq(Downs)  BY <1>1 DEF SessionOwn
<1> QED  BY <1>1, <1>2, HeadRange, HeadOfDown

\* teardownPeer() leaves no job at work on the connection it closed.
LEMMA PcClosedMedia ==
    ASSUME SessionOwn, NEW t \in Tabs, NEW j \in WithPcClosed(t), j.stage = "media"
    PROVE  j \in jobs[t] /\ [job |-> j.job, peer |-> j.peer] # pcRef[t]
<1>1. PICK k \in jobs[t] :
        j = IF k.stage = "media" /\ [job |-> k.job, peer |-> k.peer] = pcRef[t]
            THEN [k EXCEPT !.stage = "closed"] ELSE k
  BY DEF WithPcClosed
<1>2. k \in Jobs  BY DEF SessionOwn
<1>3. [k EXCEPT !.stage = "closed"].stage = "closed"  BY <1>2 DEF Jobs
<1> QED  BY <1>1, <1>3

LEMMA TornDown ==
    ASSUME SessionOwn, NEW t \in Tabs, NEW u, NEW kinds, NEW job,
           NEW left \in SUBSET WithPcClosed(t), NEW links \in SUBSET linked[t],
           TeardownTo(t, left, links), InCallWith(t, u, kinds, job)
    PROVE  /\ InCallWith(t, u, kinds, job)'
           /\ ui'[t] = Idle /\ timer'[t] = NoUser /\ pcRef'[t] = NoPc
           /\ jobs[t] = {} => jobs'[t] = {}
           /\ linked'[t] \subseteq linked[t]
<1>1. /\ ui'[t] = Idle /\ jobs'[t] = left /\ pcRef'[t] = NoPc /\ linked'[t] = links
      /\ timer'[t] = NoUser
  BY DEF TeardownTo, SessionOwn
<1>2. ASSUME NEW j \in left PROVE j.job = job /\ j.peer = u /\ j.stage # "media"
  <2>1. PICK k \in jobs[t] : j.job = k.job /\ j.peer = k.peer  BY PcClosedType
  <2>2. j.job = job /\ j.peer = u  BY <2>1 DEF InCallWith
  <2>3. j.stage = "media" => j \in jobs[t] /\ [job |-> job, peer |-> u] # pcRef[t]
    BY <2>2, PcClosedMedia
  <2> QED  BY <2>2, <2>3 DEF InCallWith
<1>3. jobs[t] = {} => WithPcClosed(t) = {}  BY DEF WithPcClosed
<1>4. InCallWith(t, u, kinds, job)'
  BY <1>1, <1>2 DEF InCallWith
<1> QED  BY <1>1, <1>3, <1>4

\* The screens of a party: the peer it shows is the other one.
LEMMA PartyScreen ==
    ASSUME NEW t, NEW u, NEW kinds, NEW job, InCallWith(t, u, kinds, job)
    PROVE  /\ ui[t].kind \in kinds \cup {"idle"}
           /\ ui[t].kind # "idle" => ui[t] = With(ui[t].kind, u) /\ ui[t].peer = u
<1>1. ui[t] = Idle \/ \E kind \in kinds : ui[t] = With(kind, u)  BY DEF InCallWith
<1>2. Idle.kind = "idle" /\ \A kind : With(kind, u).kind = kind /\ With(kind, u).peer = u
  BY DEF Idle, With
<1> QED  BY <1>1, <1>2

Heard(t, kinds) == sock[t] \in Conns /\ Carries(down[sock[t]], kinds)
Bare(t) == jobs[t] = {} /\ pcRef[t] = NoPc /\ linked[t] = {}
Alone(t) == \E l \in linked[t] : Deserted(t, l)

\* A step of the caller's tab: it keeps to the call, sends media over the peer
\* connection it has and, unless it sends or hears an ending or has been deserted,
\* goes on with the call; until it hears the answer it builds nothing.
CallerDoes(t, v, kinds) ==
    /\ Sends(t, kinds, v)
    /\ CallerTab(t, v)'
    /\ "media" \in kinds => pcRef'[t].peer = v
    /\ \/ kinds \cap Endings # {}
       \/ Alone(t) \/ Heard(t, Endings)
       \/ (Dials(t, v) => Dials(t, v)') /\ (pcRef[t].peer = v => pcRef'[t].peer = v)
    /\ Bare(t) /\ ~Heard(t, {"call-accept"}) => Bare(t)'

LEMMA CallerStep ==
    ASSUME SessionOwn, Counted, NEW t \in Tabs, NEW v \in Users, placed >= MaxCalls,
           CallerTab(t, v), TabStep(t),
           sock[t] \in Conns =>
             \A f \in Range(down[sock[t]]) : f.from = v /\ f.kind # "call-invite"
    PROVE  \E kinds \in SUBSET ({"media"} \cup Endings) : CallerDoes(t, v, kinds)
<1>0. /\ InCallWith(t, v, {"outgoing", "active"}, "answer")
      /\ ui[t].kind \in {"outgoing", "active", "idle"}
      /\ ui[t].kind # "idle" => ui[t] = With(ui[t].kind, v) /\ ui[t].peer = v
  BY PartyScreen DEF CallerTab
<1>a. \A j \in jobs[t] : j.job = "answer" /\ j.peer = v  BY <1>0 DEF InCallWith
<1>1. ASSUME NEW peer \in Users, StartCall(t, peer) PROVE FALSE
  BY <1>1, BoundsType DEF StartCall, Counted
<1>2. CASE AcceptCall(t) \/ RejectCall(t)
  BY <1>0, <1>2 DEF AcceptCall, RejectCall
<1>3. ASSUME NEW kind \in Endings, Send(t, Frame(kind, v)),
             NEW left \in SUBSET WithPcClosed(t), TeardownTo(t, left, Abandoned(t))
      PROVE  CallerDoes(t, v, {kind})
  <2>1. Sends(t, {kind}, v)  BY <1>3, SendsOne DEF Endings, Kinds
  <2>2. CallerTab(t, v)' /\ (Bare(t) => Bare(t)')
    BY <1>0, <1>3, TornDown, AbandonedSome DEF CallerTab, Bare
  <2>3. kind # "media" /\ {kind} \cap Endings # {}  BY <1>3 DEF Endings
  <2> QED  BY <2>1, <2>2, <2>3 DEF CallerDoes
<1>4. CASE EndCall(t) \/ RingTimeout(t)
  <2>1. /\ EndCall(t) => ui[t].peer = v
        /\ RingTimeout(t) => timer[t] = v
    BY <1>0 DEF EndCall, RingTimeout, InCallWith
  <2>2. \E kind \in Endings : Send(t, Frame(kind, v))
    BY <1>4, <2>1 DEF EndCall, RingTimeout, Endings
  <2>3. TeardownTo(t, WithPcClosed(t), Abandoned(t))
    BY <1>4 DEF EndCall, RingTimeout, Teardown
  <2> QED  BY <1>3, <2>2, <2>3
<1>5. CASE PeerLost(t)
  <2>1. PICK l \in linked[t] : Deserted(t, l) /\ TeardownTo(t, WithPcClosed(t), Abandoned(t) \ {l})
    BY <1>5 DEF PeerLost
  <2>2. Sends(t, {}, v)  BY <1>5, SendsNone DEF PeerLost
  <2>3. CallerTab(t, v)' /\ (Bare(t) => Bare(t)')
    BY <1>0, <2>1, TornDown, AbandonedSome DEF CallerTab, Bare
  <2>4. CallerDoes(t, v, {})  BY <2>1, <2>2, <2>3 DEF CallerDoes, Alone
  <2> QED  BY <2>4
<1>6. CASE Resume(t)
  <2>1. PICK j \in jobs[t] : IceServersReady(t, j) \/ MediaReady(t, j) \/ MediaFailed(t, j)
    BY <1>a, <1>6 DEF Resume, PromptGranted, PromptDenied
  <2>2. j.job = "answer" /\ j.peer = v /\ j \in Jobs  BY <1>a DEF SessionOwn
  <2>3. ~Bare(t)  BY DEF Bare
  <2>4. CASE IceServersReady(t, j)
    <3>1. Sends(t, {}, v) /\ ui'[t] = ui[t] /\ timer'[t] = timer[t]
      BY <2>4, SendsNone DEF IceServersReady
    <3>2. pcRef'[t] = [job |-> "answer", peer |-> v]
      BY <2>2, <2>4 DEF IceServersReady, SessionOwn
    <3>3. [j EXCEPT !.stage = "media"] = [job |-> "answer", peer |-> v, stage |-> "media"]
      BY <2>2 DEF Jobs
    <3>4. jobs'[t] = (jobs[t] \ {j}) \cup {[job |-> "answer", peer |-> v, stage |-> "media"]}
      BY <2>4, <3>3 DEF IceServersReady, SessionOwn
    <3>5. \A l \in linked'[t] : l.peer = v
      <4>1. linked'[t] = {[l EXCEPT !.held = FALSE] : l \in linked[t]}
        BY <2>4 DEF IceServersReady, SessionOwn
      <4>2. \A l \in Links : [l EXCEPT !.held = FALSE].peer = l.peer  BY DEF Links
      <4>3. \A l \in linked[t] : l \in Links /\ l.peer = v
        BY <1>0 DEF SessionOwn, InCallWith
      <4> QED  BY <4>1, <4>2, <4>3
    <3>6. CallerTab(t, v)'
      BY <1>0, <1>a, <3>1, <3>2, <3>4, <3>5 DEF CallerTab, InCallWith
    <3>7. Dials(t, v) => Dials(t, v)'  BY <3>1, <3>4 DEF Dials
    <3>8. CallerDoes(t, v, {})  BY <2>3, <3>1, <3>2, <3>6, <3>7 DEF CallerDoes
    <3> QED  BY <3>8
  <2>5. CASE MediaReady(t, j)
    <3>1. Sends(t, {"media"}, v)
      BY <2>2, <2>5, SendsOne DEF MediaReady, Kinds
    <3>2. /\ ui'[t] = With("active", v) /\ jobs'[t] = jobs[t] \ {j} /\ timer'[t] = timer[t]
          /\ pcRef'[t] = pcRef[t] /\ linked'[t] = linked[t]
      BY <2>2, <2>5 DEF MediaReady, SessionOwn
    <3>3. pcRef[t] = [job |-> "answer", peer |-> v]
      BY <1>0, <2>5 DEF MediaReady, InCallWith
    <3>4. CallerTab(t, v)'  BY <1>0, <3>2 DEF CallerTab, InCallWith
    <3>5. CallerDoes(t, v, {"media"})
      BY <2>3, <3>1, <3>2, <3>3, <3>4 DEF CallerDoes, Dials
    <3> QED  BY <3>5
  <2>6. CASE MediaFailed(t, j)
    <3>1. Send(t, Frame("call-end", v))  BY <2>2, <2>6 DEF MediaFailed
    <3>2. PICK left \in SUBSET WithPcClosed(t) : TeardownTo(t, left, Abandoned(t))
      BY <2>6 DEF MediaFailed
    <3>3. CallerDoes(t, v, {"call-end"})  BY <1>3, <3>1, <3>2 DEF Endings
    <3> QED  BY <3>3 DEF Endings
  <2> QED  BY <2>1, <2>4, <2>5, <2>6
<1>7. CASE HandleSignal(t)
  <2> DEFINE m == Head(down[sock[t]])
  <2>1. /\ sock[t] \in Conns /\ m \in Range(down[sock[t]]) /\ m.kind \in Kinds
        /\ m.from = v /\ m.kind # "call-invite"
    BY <1>7, HeardOne
  <2>2. OnAccept(t, m) \/ OnEnding(t, m) \/ OnMedia(t, m)
    BY <1>7, <2>1 DEF HandleSignal, OnInvite
  <2> HIDE DEF m
  <2>3. CASE UNCHANGED <<up, clientVars>>
    <3>1. Sends(t, {}, v)  BY <2>3, SendsNone
    <3>2. CallerDoes(t, v, {})
      BY <2>3, <3>1 DEF CallerDoes, clientVars, CallerTab, InCallWith, Dials, Bare
    <3> QED  BY <3>2
  <2>4. CASE OnAccept(t, m) /\ ~UNCHANGED <<up, clientVars>>
    <3>1. Sends(t, {}, v)  BY <2>4, SendsNone DEF OnAccept
    <3>2. /\ ui'[t] = ui[t] /\ pcRef'[t] = pcRef[t] /\ linked'[t] = linked[t]
          /\ jobs'[t] = jobs[t] \cup {[job |-> "answer", peer |-> v, stage |-> "ice"]}
          /\ timer'[t] = NoUser
      BY <2>1, <2>4 DEF OnAccept, SessionOwn
    <3>3. CallerTab(t, v)'  BY <1>0, <1>a, <3>2 DEF CallerTab, InCallWith
    <3>4. Heard(t, {"call-accept"})  BY <2>1, <2>4 DEF Heard, Carries, OnAccept
    <3>5. Dials(t, v) => Dials(t, v)'  BY <3>2 DEF Dials
    <3>6. CallerDoes(t, v, {})  BY <3>1, <3>2, <3>3, <3>4, <3>5 DEF CallerDoes
    <3> QED  BY <3>6
  <2>5. CASE OnEnding(t, m) /\ ~UNCHANGED <<up, clientVars>>
    <3>1. Sends(t, {}, v)  BY <2>5, SendsNone DEF OnEnding
    <3>2. TeardownTo(t, WithPcClosed(t), Abandoned(t))  BY <2>5 DEF OnEnding, Teardown
    <3>3. CallerTab(t, v)' /\ (Bare(t) => Bare(t)')
      BY <1>0, <3>2, TornDown, AbandonedSome DEF CallerTab, Bare
    <3>4. Heard(t, Endings)  BY <2>1, <2>5 DEF Heard, Carries, OnEnding
    <3>5. CallerDoes(t, v, {})  BY <3>1, <3>3, <3>4 DEF CallerDoes
    <3> QED  BY <3>5
  <2>6. CASE OnMedia(t, m)
    <3>1. pcRef[t].job # "accept" /\ (pcRef[t] # NoPc => pcRef[t].peer = v)
      BY <1>0 DEF InCallWith, NoPc
    <3>2. Sends(t, {}, v)  BY <2>6, <3>1, SendsNone DEF OnMedia
    <3>3. /\ ui'[t] = ui[t] /\ jobs'[t] = jobs[t] /\ pcRef'[t] = pcRef[t] /\ timer'[t] = timer[t]
          /\ linked'[t] = linked[t] \cup
               {l \in {[held |-> TRUE, peer |-> pcRef[t].peer]} : pcRef[t] # NoPc}
      BY <2>6 DEF OnMedia, SessionOwn
    <3>4. \A l \in linked'[t] : l.peer = v  BY <1>0, <3>1, <3>3 DEF InCallWith
    <3>5. CallerTab(t, v)'  BY <1>0, <3>3, <3>4 DEF CallerTab, InCallWith
    <3>6. Bare(t) => Bare(t)'  BY <3>3 DEF Bare
    <3>7. Dials(t, v) => Dials(t, v)'  BY <3>3 DEF Dials
    <3>8. CallerDoes(t, v, {})  BY <3>2, <3>3, <3>5, <3>6, <3>7 DEF CallerDoes
    <3> QED  BY <3>8
  <2> QED  BY <2>2, <2>3, <2>4, <2>5, <2>6
<1>8. \/ \E peer \in Users : StartCall(t, peer)
      \/ AcceptCall(t) \/ RejectCall(t) \/ EndCall(t)
      \/ HandleSignal(t) \/ RingTimeout(t) \/ PeerLost(t) \/ Resume(t)
  BY DEF TabStep
<1> QED  BY <1>1, <1>2, <1>4, <1>5, <1>6, <1>7, <1>8

\* A step of a tab of the callee: it keeps to the call, says it accepts once it shows
\* the call, and is sent media before it is linked.
CalleeDoes(t, u, kinds) ==
    /\ Sends(t, kinds, u)
    /\ CalleeTab(t, u)'
    /\ "call-accept" \in kinds => Shows(t, u)'
    /\ \/ kinds \cap Endings # {}
       \/ Alone(t) \/ Heard(t, Endings)
       \/ Shows(t, u) => Shows(t, u)'
    /\ linked'[t] # {} => linked[t] # {} \/ Heard(t, {"media"})

LEMMA CalleeStep ==
    ASSUME SessionOwn, Counted, NEW t \in Tabs, NEW u \in Users, placed >= MaxCalls,
           CalleeTab(t, u), TabStep(t),
           sock[t] \in Conns =>
             \A f \in Range(down[sock[t]]) : f.from = u /\ f.kind # "call-accept"
    PROVE  \E kinds \in SUBSET ({"call-accept", "media"} \cup Endings) : CalleeDoes(t, u, kinds)
<1>0. /\ InCallWith(t, u, {"incoming", "active"}, "accept") /\ timer[t] = NoUser
      /\ ui[t].kind \in {"incoming", "active", "idle"}
      /\ ui[t].kind # "idle" => ui[t] = With(ui[t].kind, u) /\ ui[t].peer = u
  BY PartyScreen DEF CalleeTab
<1>a. \A j \in jobs[t] : j.job = "accept" /\ j.peer = u  BY <1>0 DEF InCallWith
<1>1. ASSUME NEW peer \in Users, StartCall(t, peer) PROVE FALSE
  BY <1>1, BoundsType DEF StartCall, Counted
<1>2. CASE AcceptCall(t)
  <2>1. /\ ui'[t] = ui[t] /\ pcRef'[t] = pcRef[t] /\ linked'[t] = linked[t]
        /\ timer'[t] = timer[t]
        /\ jobs'[t] = jobs[t] \cup {[job |-> "accept", peer |-> u, stage |-> "ice"]}
    BY <1>0, <1>2 DEF AcceptCall, SessionOwn
  <2>2. CalleeTab(t, u)'  BY <1>0, <1>a, <2>1 DEF CalleeTab, InCallWith
  <2>3. Sends(t, {}, u)  BY <1>2, SendsNone DEF AcceptCall
  <2>4. CalleeDoes(t, u, {})  BY <2>1, <2>2, <2>3 DEF CalleeDoes, Shows
  <2> QED  BY <2>4
<1>3. CASE RejectCall(t)
  <2>1. Sends(t, {"call-reject"}, u)
    BY <1>0, <1>3, SendsOne DEF RejectCall, Kinds
  <2>2. /\ ui'[t] = Idle /\ pcRef'[t] = pcRef[t] /\ linked'[t] = linked[t]
        /\ timer'[t] = timer[t] /\ jobs'[t] = jobs[t]
    BY <1>3 DEF RejectCall, SessionOwn
  <2>3. CalleeTab(t, u)'  BY <1>0, <2>2 DEF CalleeTab, InCallWith
  <2>4. CalleeDoes(t, u, {"call-reject"})
    BY <2>1, <2>2, <2>3 DEF CalleeDoes, Endings
  <2> QED  BY <2>4 DEF Endings
<1>4. ASSUME NEW kind \in Endings, Send(t, Frame(kind, u)),
             NEW left \in SUBSET WithPcClosed(t), TeardownTo(t, left, Abandoned(t))
      PROVE  CalleeDoes(t, u, {kind})
  <2>1. Sends(t, {kind}, u)  BY <1>4, SendsOne DEF Endings, Kinds
  <2>2. CalleeTab(t, u)' /\ linked'[t] \subseteq linked[t]
    BY <1>0, <1>4, TornDown, AbandonedSome DEF CalleeTab
  <2>3. kind # "call-accept" /\ {kind} \cap Endings # {}  BY <1>4 DEF Endings
  <2> QED  BY <2>1, <2>2, <2>3 DEF CalleeDoes
<1>5. CASE EndCall(t)
  <2>1. ui[t].peer = u  BY <1>0, <1>5 DEF EndCall
  <2>2. \E kind \in Endings : Send(t, Frame(kind, u))
    BY <1>5, <2>1 DEF EndCall, Endings
  <2>3. TeardownTo(t, WithPcClosed(t), Abandoned(t))  BY <1>5 DEF EndCall, Teardown
  <2> QED  BY <1>4, <2>2, <2>3
<1>6. CASE RingTimeout(t)  BY <1>0, <1>6 DEF RingTimeout
<1>7. CASE PeerLost(t)
  <2>1. PICK l \in linked[t] : Deserted(t, l) /\ TeardownTo(t, WithPcClosed(t), Abandoned(t) \ {l})
    BY <1>7 DEF PeerLost
  <2>2. Sends(t, {}, u)  BY <1>7, SendsNone DEF PeerLost
  <2>3. CalleeTab(t, u)' /\ linked'[t] \subseteq linked[t]
    BY <1>0, <2>1, TornDown, AbandonedSome DEF CalleeTab
  <2>4. CalleeDoes(t, u, {})  BY <2>1, <2>2, <2>3 DEF CalleeDoes, Alone
  <2> QED  BY <2>4
<1>8. CASE Resume(t)
  <2>1. PICK j \in jobs[t] : IceServersReady(t, j) \/ MediaReady(t, j) \/ MediaFailed(t, j)
    BY <1>a, <1>8 DEF Resume, PromptGranted, PromptDenied
  <2>2. j.job = "accept" /\ j.peer = u /\ j \in Jobs  BY <1>a DEF SessionOwn
  <2>3. CASE IceServersReady(t, j)
    <3>1. Sends(t, {}, u) /\ ui'[t] = ui[t] /\ timer'[t] = timer[t]
      BY <2>3, SendsNone DEF IceServersReady
    <3>2. pcRef'[t] = [job |-> "accept", peer |-> u]
      BY <2>2, <2>3 DEF IceServersReady, SessionOwn
    <3>3. [j EXCEPT !.stage = "media"] = [job |-> "accept", peer |-> u, stage |-> "media"]
      BY <2>2 DEF Jobs
    <3>4. jobs'[t] = (jobs[t] \ {j}) \cup {[job |-> "accept", peer |-> u, stage |-> "media"]}
      BY <2>3, <3>3 DEF IceServersReady, SessionOwn
    <3>5. linked'[t] = {[l EXCEPT !.held = FALSE] : l \in linked[t]}
      BY <2>3 DEF IceServersReady, SessionOwn
    <3>6. \A l \in linked'[t] : l.peer = u
      <4>1. \A l \in Links : [l EXCEPT !.held = FALSE].peer = l.peer  BY DEF Links
      <4>2. \A l \in linked[t] : l \in Links /\ l.peer = u
        BY <1>0 DEF SessionOwn, InCallWith
      <4> QED  BY <3>5, <4>1, <4>2
    <3>7. CalleeTab(t, u)'
      BY <1>0, <1>a, <3>1, <3>2, <3>4, <3>6 DEF CalleeTab, InCallWith
    <3>8. linked'[t] # {} => linked[t] # {}  BY <3>5
    <3>9. CalleeDoes(t, u, {})  BY <3>1, <3>2, <3>7, <3>8 DEF CalleeDoes, Shows
    <3> QED  BY <3>9
  <2>4. CASE MediaReady(t, j)
    <3>1. Sends(t, {"call-accept"}, u)
      BY <2>2, <2>4, SendsOne DEF MediaReady, Kinds
    <3>2. /\ ui'[t] = With("active", u) /\ jobs'[t] = jobs[t] \ {j} /\ timer'[t] = timer[t]
          /\ pcRef'[t] = pcRef[t] /\ linked'[t] = linked[t]
      BY <2>2, <2>4 DEF MediaReady, SessionOwn
    <3>3. pcRef[t] = [job |-> "accept", peer |-> u]
      BY <1>0, <2>4 DEF MediaReady, InCallWith
    <3>4. CalleeTab(t, u)'  BY <1>0, <3>2 DEF CalleeTab, InCallWith
    <3>5. CalleeDoes(t, u, {"call-accept"})
      BY <3>1, <3>2, <3>3, <3>4 DEF CalleeDoes, Shows
    <3> QED  BY <3>5
  <2>5. CASE MediaFailed(t, j)
    <3>1. Send(t, Frame("call-reject", u))  BY <2>2, <2>5 DEF MediaFailed
    <3>2. PICK left \in SUBSET WithPcClosed(t) : TeardownTo(t, left, Abandoned(t))
      BY <2>5 DEF MediaFailed
    <3>3. CalleeDoes(t, u, {"call-reject"})  BY <1>4, <3>1, <3>2 DEF Endings
    <3> QED  BY <3>3 DEF Endings
  <2> QED  BY <2>1, <2>3, <2>4, <2>5
<1>9. CASE HandleSignal(t)
  <2> DEFINE m == Head(down[sock[t]])
  <2>1. /\ sock[t] \in Conns /\ m \in Range(down[sock[t]]) /\ m.kind \in Kinds
        /\ m.from = u /\ m.kind # "call-accept"
    BY <1>9, HeardOne
  <2>2. OnInvite(t, m) \/ OnEnding(t, m) \/ OnMedia(t, m)
    BY <1>9, <2>1 DEF HandleSignal, OnAccept
  <2> HIDE DEF m
  <2>3. CASE UNCHANGED <<up, clientVars>>
    <3>1. Sends(t, {}, u)  BY <2>3, SendsNone
    <3>2. CalleeDoes(t, u, {})
      BY <1>0, <2>3, <3>1 DEF CalleeDoes, clientVars, CalleeTab, InCallWith, Shows
    <3> QED  BY <3>2
  <2>4. CASE OnInvite(t, m)
    <3>1. CASE Send(t, Frame("call-reject", u)) /\ UNCHANGED clientVars
      <4>1. Sends(t, {"call-reject"}, u)  BY <3>1, SendsOne DEF Kinds
      <4>2. CalleeDoes(t, u, {"call-reject"})
        BY <1>0, <3>1, <4>1
        DEF CalleeDoes, clientVars, CalleeTab, InCallWith, Shows, Endings
      <4> QED  BY <4>2 DEF Endings
    <3>2. CASE /\ ui[t].kind = "idle" /\ ui' = [ui EXCEPT ![t] = With("incoming", u)]
               /\ UNCHANGED <<up, jobs, pcRef, linked, timer>>
      <4>1. Sends(t, {}, u)  BY <3>2, SendsNone
      <4>2. ~Shows(t, u)  BY <3>2 DEF Shows, With
      <4>3. ui'[t] = With("incoming", u)  BY <3>2 DEF SessionOwn
      <4>4. CalleeTab(t, u)'  BY <1>0, <3>2, <4>3 DEF CalleeTab, InCallWith
      <4>5. CalleeDoes(t, u, {})  BY <3>2, <4>1, <4>2, <4>4 DEF CalleeDoes
      <4> QED  BY <4>5
    <3> QED  BY <2>1, <2>4, <3>1, <3>2 DEF OnInvite
  <2>5. CASE OnEnding(t, m) /\ ~UNCHANGED <<up, clientVars>>
    <3>1. Sends(t, {}, u)  BY <2>5, SendsNone DEF OnEnding
    <3>2. TeardownTo(t, WithPcClosed(t), Abandoned(t))  BY <2>5 DEF OnEnding, Teardown
    <3>3. CalleeTab(t, u)' /\ linked'[t] \subseteq linked[t]
      BY <1>0, <3>2, TornDown, AbandonedSome DEF CalleeTab
    <3>4. Heard(t, Endings)  BY <2>1, <2>5 DEF Heard, Carries, OnEnding
    <3>5. CalleeDoes(t, u, {})  BY <3>1, <3>3, <3>4 DEF CalleeDoes
    <3> QED  BY <3>5
  <2>6. CASE OnMedia(t, m)
    <3>1. pcRef[t] # NoPc => pcRef[t].peer = u  BY <1>0 DEF InCallWith
    <3>2. /\ ui'[t] = ui[t] /\ jobs'[t] = jobs[t] /\ pcRef'[t] = pcRef[t] /\ timer'[t] = timer[t]
          /\ linked'[t] = linked[t] \cup
               {l \in {[held |-> TRUE, peer |-> pcRef[t].peer]} : pcRef[t] # NoPc}
      BY <2>6 DEF OnMedia, SessionOwn
    <3>3. \A l \in linked'[t] : l.peer = u  BY <1>0, <3>1, <3>2 DEF InCallWith
    <3>4. CalleeTab(t, u)'  BY <1>0, <3>2, <3>3 DEF CalleeTab, InCallWith
    <3>5. Heard(t, {"media"})  BY <2>1, <2>6 DEF Heard, Carries, OnMedia
    <3>6. \E kinds \in SUBSET {"media"} : Sends(t, kinds, u)
      <4>1. CASE pcRef[t].job = "accept"
        <5>1. Send(t, Frame("media", u))  BY <2>1, <2>6, <4>1 DEF OnMedia
        <5> QED  BY <5>1, SendsOne DEF Kinds
      <4>2. CASE pcRef[t].job # "accept"
        BY <2>6, <4>2, SendsNone DEF OnMedia
      <4> QED  BY <4>1, <4>2
    <3>7. PICK kinds \in SUBSET {"media"} : Sends(t, kinds, u)  BY <3>6
    <3>8. CalleeDoes(t, u, kinds)
      BY <3>2, <3>4, <3>5, <3>7 DEF CalleeDoes, Shows
    <3> QED  BY <3>8
  <2> QED  BY <2>2, <2>3, <2>4, <2>5, <2>6
<1>10. \/ \E peer \in Users : StartCall(t, peer)
       \/ AcceptCall(t) \/ RejectCall(t) \/ EndCall(t)
       \/ HandleSignal(t) \/ RingTimeout(t) \/ PeerLost(t) \/ Resume(t)
  BY DEF TabStep
<1> QED  BY <1>1, <1>2, <1>3, <1>5, <1>6, <1>7, <1>8, <1>9, <1>10

\* A tab nobody has called from or to does nothing about a frame meant for another.
LEMMA BystanderStep ==
    ASSUME SessionOwn, Counted, NEW t \in Tabs, placed >= MaxCalls, Untouched(t), TabStep(t),
           sock[t] \in Conns => \A f \in Range(down[sock[t]]) : f.kind # "call-invite"
    PROVE  Untouched(t)' /\ up' = up
<1>1. ASSUME NEW peer \in Users, StartCall(t, peer) PROVE FALSE
  BY <1>1, BoundsType DEF StartCall, Counted
<1>2. ui[t].kind = "idle" /\ pcRef[t].job = "none"  BY DEF Untouched, Idle, NoPc
<1>3. HandleSignal(t)
  BY <1>1, <1>2 DEF Untouched, TabStep, AcceptCall, RejectCall, EndCall, RingTimeout,
     PeerLost, Resume
<1> DEFINE m == Head(down[sock[t]])
<1>4. m.kind # "call-invite"  BY <1>3, HeardOne
<1>5. OnAccept(t, m) \/ OnEnding(t, m) \/ OnMedia(t, m)
  BY <1>3, <1>4 DEF HandleSignal, OnInvite
<1> HIDE DEF m
<1>6. CASE OnAccept(t, m) \/ OnEnding(t, m)
  <2>1. ui[t] # With("outgoing", m.from)  BY <1>2 DEF With
  <2>2. UNCHANGED <<up, clientVars>>  BY <1>2, <1>6, <2>1 DEF OnAccept, OnEnding
  <2> QED  BY <2>2 DEF clientVars, Untouched
<1>7. CASE OnMedia(t, m)
  <2>1. up \in [Conns -> Seq(Ups)]  BY DEF SessionOwn
  <2>2. Send(t, <<>>)  BY <1>2, <1>7 DEF OnMedia
  <2>3. up' = up
    <3>1. \A d \in Conns : up[d] \o <<>> = up[d]  BY <2>1, ConcatEmptySeq
    <3> QED  BY <2>1, <2>2, <3>1 DEF Send
  <2>4. linked'[t] = {}  BY <1>7 DEF OnMedia, SessionOwn, Untouched
  <2> QED  BY <1>7, <2>3, <2>4 DEF OnMedia, Untouched
<1> QED  BY <1>5, <1>6, <1>7

\* Which connection a tab's frames go to.
LEMMA TabSends ==
    ASSUME SessionOwn, NEW t \in Tabs, TabStep(t)
    PROVE  \A d \in Conns : up'[d] # up[d] => d = sock[t]
<1>1. UNCHANGED up \/ \E frames : Send(t, frames)
  <2>1. CASE HandleSignal(t)
    BY <2>1 DEF HandleSignal, OnInvite, OnAccept, OnEnding, OnMedia
  <2>2. CASE Resume(t)
    BY <2>2 DEF Resume, PromptGranted, PromptDenied, IceServersReady, MediaReady, MediaFailed
  <2>3. CASE ~HandleSignal(t) /\ ~Resume(t)
    BY <2>3 DEF TabStep, StartCall, AcceptCall, RejectCall, EndCall, RingTimeout, PeerLost
  <2> QED  BY <2>1, <2>2, <2>3
<1> QED  BY <1>1 DEF Send, SessionOwn

\* No actor goes back to where it started.
LEMMA NeverNewAgain ==
    ASSUME TypeOK, NEW c \in Conns, ServerStep(c)
    PROVE  /\ \A d \in Conns : pc'[d] = "new" <=> pc[d] = "new"
           /\ UNCHANGED <<sock, broken>>
<1>1. CASE Receive(c)
  <2>1. pc[c] = "idle" /\ pc' = [pc EXCEPT ![c] = "planned"]
    BY <1>1 DEF Receive, PlanSignal, PlanInvite, PlanUntracked, PlanTracked, PlanAccept,
       PlanEnding, PlanMedia, Planned
  <2> QED  BY <1>1, <2>1 DEF Receive, TypeOK
<1>2. CASE Stopped(c)
  BY <1>2 DEF Stopped, Unregister, TypeOK
<1>3. CASE Relay(c)
  BY <1>3 DEF Relay, Proceed, RecordCallerScope, CancelRings, Gate, Forward, DropCallerScope,
     PlanDisconnect, Finalize, TypeOK
<1> QED  BY <1>1, <1>2, <1>3 DEF ServerStep

\* A step of the server, or of the network, takes frames to the server at most.
LEMMA UpShrinks ==
    ASSUME SessionOwn, NEW c \in Conns, ServerStep(c) \/ Break(c)
    PROVE  \A d \in Conns : /\ up[d] = <<>> => up'[d] = <<>>
                            /\ Range(up'[d]) \subseteq Range(up[d])
<1>1. up \in [Conns -> Seq(Ups)]  BY DEF SessionOwn
<1>2. CASE Receive(c)
  <2>1. up[c] # <<>> /\ up' = [up EXCEPT ![c] = Tail(up[c])]  BY <1>2 DEF Receive
  <2>2. Range(Tail(up[c])) \subseteq Range(up[c])  BY <1>1, <2>1, HeadRange
  <2> QED  BY <1>1, <2>1, <2>2
<1>3. CASE Stopped(c) \/ Break(c)
  BY <1>1, <1>3, EmptyRange DEF Stopped, Break
<1>4. CASE Relay(c)
  BY <1>4 DEF Relay
<1> QED  BY <1>2, <1>3, <1>4 DEF ServerStep

\* The steps of the composition, sorted by who takes them.
LEMMA Steps ==
    ASSUME [SessionNext]_sessionVars
    PROVE  \/ \E t \in Tabs : \/ Connect(t) \/ OnClose(t) \/ CloseTab(t)
                              \/ MediaLost(t) \/ TabStep(t)
           \/ \E c \in Conns : ServerStep(c) \/ Break(c)
           \/ UNCHANGED sessionVars
<1>1. ASSUME NEW t \in Tabs, UserStep(t)
      PROVE  CloseTab(t) \/ TabStep(t)
  BY <1>1 DEF UserStep, TabStep
<1>2. ASSUME NEW t \in Tabs, ClientStep(t)
      PROVE  OnClose(t) \/ TabStep(t)
  BY <1>2 DEF ClientStep, TabStep
<1> QED  BY <1>1, <1>2 DEF SessionNext

LEMMA SocketsStep ==
    ASSUME SessionInv, SocketsInUse, [SessionNext]_sessionVars
    PROVE  SocketsInUse'
<1> USE DEF SessionInv
<1>1. ASSUME NEW t \in Tabs, Connect(t) PROVE SocketsInUse'
  <2>1. PICK c \in Conns : /\ TabOf[c] = t /\ c \notin broken /\ Register(c)
                           /\ sock' = [sock EXCEPT ![t] = c]
    BY <1>1 DEF Connect
  <2>2. /\ sock[t] = NoConn /\ UNCHANGED <<broken, up>>
        /\ pc' = [pc EXCEPT ![c] = "registered"]
    BY <1>1, <2>1 DEF Connect, Register
  <2>3. c # NoConn  BY NoConnAssumption
  <2>4. ASSUME NEW d \in Conns, pc'[d] # "new", d \notin broken PROVE sock'[TabOf[d]] = d
    <3>1. CASE d = c  BY <2>1, <3>1, TabOfType DEF SessionOwn
    <3>2. CASE d # c
      <4>1. sock[TabOf[d]] = d  BY <2>2, <2>4, <3>2 DEF SocketsInUse, Inv, TypeOK
      <4>2. TabOf[d] # t  BY <2>2, <4>1, NoConnAssumption
      <4> QED  BY <2>1, <4>1, <4>2, TabOfType DEF SessionOwn
    <3> QED  BY <3>1, <3>2
  <2>5. ASSUME NEW s \in Tabs, sock'[s] # NoConn
        PROVE  TabOf[sock'[s]] = s /\ pc'[sock'[s]] # "new"
    <3>1. CASE s = t  BY <2>1, <2>2, <3>1 DEF SessionOwn, Inv, TypeOK
    <3>2. CASE s # t
      <4>1. sock'[s] = sock[s] /\ sock[s] \in Conns  BY <2>1, <2>5, <3>2 DEF SessionOwn
      <4> QED  BY <2>2, <2>5, <4>1 DEF SocketsInUse, Inv, TypeOK
    <3> QED  BY <3>1, <3>2
  <2>6. \A d \in Conns : up'[d] # <<>> => pc'[d] # "new"
    BY <2>2 DEF SocketsInUse, Inv, TypeOK
  <2> QED  BY <2>2, <2>4, <2>5, <2>6 DEF SocketsInUse
<1>2. ASSUME NEW t \in Tabs, OnClose(t) \/ CloseTab(t) PROVE SocketsInUse'
  <2>1. /\ pc' = pc /\ up' = up /\ sock' = [sock EXCEPT ![t] = NoConn]
        /\ broken \subseteq broken'
        /\ \A d \in Conns : TabOf[d] = t /\ pc[d] # "new" => d \in broken'
    BY <1>2 DEF OnClose, CloseTab, SocketsInUse
  <2>2. ASSUME NEW d \in Conns, pc'[d] # "new", d \notin broken' PROVE sock'[TabOf[d]] = d
    BY <2>1, <2>2, TabOfType DEF SocketsInUse, SessionOwn
  <2>3. ASSUME NEW s \in Tabs, sock'[s] # NoConn
        PROVE  TabOf[sock'[s]] = s /\ pc'[sock'[s]] # "new"
    BY <2>1, <2>3 DEF SocketsInUse, SessionOwn
  <2> QED  BY <2>1, <2>2, <2>3 DEF SocketsInUse
<1>3. ASSUME NEW t \in Tabs, TabStep(t) PROVE SocketsInUse'
  <2>1. UNCHANGED <<pc, sock, broken>>  BY <1>3, OnlyThisTab DEF RelayIdle
  <2>2. \A d \in Conns : up'[d] # up[d] => d = sock[t]  BY <1>3, TabSends
  <2>3. \A d \in Conns : d = sock[t] => pc[d] # "new"
    BY NoConnAssumption DEF SocketsInUse
  <2> QED  BY <2>1, <2>2, <2>3 DEF SocketsInUse
<1>4. ASSUME NEW t \in Tabs, MediaLost(t) PROVE SocketsInUse'
  BY <1>4 DEF MediaLost, netVars, SocketsInUse
<1>5. ASSUME NEW c \in Conns, ServerStep(c) PROVE SocketsInUse'
  <2>1. /\ \A d \in Conns : pc'[d] = "new" <=> pc[d] = "new"
        /\ UNCHANGED <<sock, broken>>
    BY <1>5, NeverNewAgain DEF Inv
  <2>2. \A d \in Conns : up'[d] # <<>> => up[d] # <<>>  BY <1>5, UpShrinks
  <2>3. \A s \in Tabs : sock[s] # NoConn => sock[s] \in Conns  BY DEF SessionOwn
  <2> QED  BY <2>1, <2>2, <2>3 DEF SocketsInUse
<1>6. ASSUME NEW c \in Conns, Break(c) PROVE SocketsInUse'
  <2>1. UNCHANGED <<pc, sock>> /\ broken \subseteq broken'  BY <1>6 DEF Break
  <2>2. \A d \in Conns : up'[d] # <<>> => up[d] # <<>>  BY <1>6, UpShrinks
  <2> QED  BY <2>1, <2>2 DEF SocketsInUse
<1>7. CASE UNCHANGED sessionVars
  <2>1. UNCHANGED <<pc, sock, broken, up>>  BY <1>7 DEF sessionVars, vars, netVars
  <2> QED  BY <2>1 DEF SocketsInUse
<1> QED  BY <1>1, <1>2, <1>3, <1>4, <1>5, <1>6, <1>7, Steps

\* The counters only grow.
LEMMA CountedStep ==
    ASSUME SessionOwn, Counted, [SessionNext]_sessionVars
    PROVE  /\ Counted' /\ placed' >= placed
           /\ losses' = losses \/ (losses' = losses + 1 /\ \E t \in Tabs : MediaLost(t))
<1>1. ASSUME NEW t \in Tabs, TabStep(t) PROVE losses' = losses /\ placed' \in {placed, placed + 1}
  BY <1>1, OnlyThisTab DEF RelayIdle
<1>2. ASSUME NEW t \in Tabs, Connect(t) \/ OnClose(t) \/ CloseTab(t)
      PROVE  losses' = losses /\ placed' = placed
  BY <1>2 DEF Connect, OnClose, CloseTab
<1>3. ASSUME NEW t \in Tabs, MediaLost(t) PROVE losses' = losses + 1 /\ placed' = placed
  BY <1>3 DEF MediaLost
<1>4. ASSUME NEW c \in Conns, ServerStep(c) \/ Break(c) PROVE losses' = losses /\ placed' = placed
  BY <1>4 DEF ServerStep, Receive, Relay, Stopped, Break
<1>5. CASE UNCHANGED sessionVars  BY <1>5 DEF sessionVars, Counted
<1>6. placed \in Nat /\ losses \in Nat  BY DEF Counted
<1>7. /\ placed' \in {placed, placed + 1}
      /\ losses' = losses \/ (losses' = losses + 1 /\ \E t \in Tabs : MediaLost(t))
  <2>1. CASE UNCHANGED sessionVars  BY <2>1 DEF sessionVars
  <2> QED  BY <1>1, <1>2, <1>3, <1>4, <2>1, Steps
<1> QED  BY <1>6, <1>7 DEF Counted

\* Once the one call is placed and its prompt answered, nobody is invited again.
LEMMA LateStep ==
    ASSUME SessionInv, Counted, Late, [SessionNext]_sessionVars
    PROVE  Late'
<1> USE DEF SessionInv
<1>0. placed' >= MaxCalls  BY CountedStep, BoundsType DEF Counted, Late
<1>1. ASSUME NEW t \in Tabs, TabStep(t) PROVE Late'
  <2>1. \A s \in Tabs \ {t} : jobs'[s] = jobs[s]
    BY <1>1, OnlyThisTab DEF SameTab
  <2>2. \A j \in jobs[t] : j.job # "place"  BY DEF Late
  <2>3. /\ \E kinds \in SUBSET (Kinds \ {"call-invite"}) : \E u : Sends(t, kinds, u)
        /\ \A j \in jobs'[t] : j.job # "place"
    <3>1. ASSUME NEW peer \in Users, StartCall(t, peer) PROVE FALSE
      BY <3>1, BoundsType DEF StartCall, Counted, Late
    <3>2. CASE AcceptCall(t)
      <4>1. jobs'[t] = jobs[t] \cup {[job |-> "accept", peer |-> ui[t].peer, stage |-> "ice"]}
        BY <3>2 DEF AcceptCall, SessionOwn
      <4>2. Sends(t, {}, NoUser)  BY <3>2, SendsNone DEF AcceptCall
      <4> QED  BY <2>2, <4>1, <4>2
    <3>3. ASSUME NEW kind \in Kinds \ {"call-invite"}, NEW u \in Users, Send(t, Frame(kind, u))
          PROVE  \E kinds \in SUBSET (Kinds \ {"call-invite"}) : \E v : Sends(t, kinds, v)
      <4>1. Sends(t, {kind}, u)  BY <3>3, SendsOne
      <4> QED  BY <4>1
    <3>4. ASSUME UNCHANGED up \/ Send(t, <<>>)
          PROVE  \E kinds \in SUBSET (Kinds \ {"call-invite"}) : \E v : Sends(t, kinds, v)
      <4>1. Sends(t, {}, NoUser)  BY <3>4, SendsNone
      <4> QED  BY <4>1
    <3>5. ASSUME NEW left \in SUBSET WithPcClosed(t), NEW links, TeardownTo(t, left, links)
          PROVE  \A j \in jobs'[t] : j.job # "place"
      <4>1. jobs'[t] = left  BY <3>5 DEF TeardownTo, SessionOwn
      <4> QED  BY <2>2, <4>1, PcClosedType
    <3>6. CASE RejectCall(t)
      BY <2>2, <3>3, <3>6, PeerOnScreen DEF RejectCall, Kinds
    <3>7. CASE EndCall(t)
      <4>1. ui[t].peer \in Users  BY <3>7, PeerOnScreen DEF EndCall
      <4>2. \E kind \in Kinds \ {"call-invite"} : Send(t, Frame(kind, ui[t].peer))
        BY <3>7 DEF EndCall, Kinds
      <4>3. TeardownTo(t, WithPcClosed(t), Abandoned(t))  BY <3>7 DEF EndCall, Teardown
      <4> QED  BY <3>3, <3>5, <4>1, <4>2, <4>3
    <3>8. CASE RingTimeout(t)
      <4>1. timer[t] \in Users  BY <3>8 DEF RingTimeout, SessionOwn
      <4>2. TeardownTo(t, WithPcClosed(t), Abandoned(t))  BY <3>8 DEF RingTimeout, Teardown
      <4> QED  BY <3>3, <3>5, <3>8, <4>1, <4>2 DEF RingTimeout, Kinds
    <3>9. CASE PeerLost(t)  BY <3>4, <3>5, <3>9 DEF PeerLost
    <3>10. CASE Resume(t)
      <4>1. PICK j \in jobs[t] : IceServersReady(t, j) \/ MediaReady(t, j) \/ MediaFailed(t, j)
        BY <2>2, <3>10 DEF Resume, PromptGranted, PromptDenied
      <4>2. j \in Jobs /\ j.peer \in Users /\ j.job # "place"  BY <2>2 DEF SessionOwn, Jobs
      <4>3. CASE IceServersReady(t, j)
        <5>1. jobs'[t] = (jobs[t] \ {j}) \cup {[j EXCEPT !.stage = "media"]}
          BY <4>3 DEF IceServersReady, SessionOwn
        <5>2. [j EXCEPT !.stage = "media"].job = j.job  BY <4>2 DEF Jobs
        <5> QED  BY <2>2, <3>4, <4>2, <4>3, <5>1, <5>2 DEF IceServersReady
      <4>4. CASE MediaReady(t, j)
        <5>1. jobs'[t] = jobs[t] \ {j}  BY <4>4 DEF MediaReady, SessionOwn
        <5>2. \E kind \in Kinds \ {"call-invite"} : Send(t, Frame(kind, j.peer))
          BY <4>4 DEF MediaReady, Kinds
        <5> QED  BY <2>2, <3>3, <4>2, <5>1, <5>2
      <4>5. CASE MediaFailed(t, j)
        <5>1. \E kind \in Kinds \ {"call-invite"} : Send(t, Frame(kind, j.peer))
          BY <4>5 DEF MediaFailed, Kinds
        <5>2. PICK left \in SUBSET WithPcClosed(t) : TeardownTo(t, left, Abandoned(t))
          BY <4>5 DEF MediaFailed
        <5> QED  BY <3>3, <3>5, <4>2, <5>1, <5>2
      <4> QED  BY <4>1, <4>3, <4>4, <4>5
    <3>11. CASE HandleSignal(t)
      <4> DEFINE m == Head(down[sock[t]])
      <4>1. m.from \in Users  BY <3>11, HeardOne
      <4>2. OnInvite(t, m) \/ OnAccept(t, m) \/ OnEnding(t, m) \/ OnMedia(t, m)
        BY <3>11 DEF HandleSignal
      <4> HIDE DEF m
      <4>3. CASE OnInvite(t, m)
        BY <2>2, <3>3, <3>4, <4>1, <4>3 DEF OnInvite, clientVars, Kinds
      <4>4. CASE OnAccept(t, m)
        <5>1. jobs'[t] \subseteq jobs[t] \cup {[job |-> "answer", peer |-> m.from, stage |-> "ice"]}
          BY <4>4 DEF OnAccept, clientVars, SessionOwn
        <5> QED  BY <2>2, <3>4, <4>4, <5>1 DEF OnAccept
      <4>5. CASE OnEnding(t, m)
        BY <2>2, <3>4, <3>5, <4>5 DEF OnEnding, clientVars, Teardown
      <4>6. CASE OnMedia(t, m)
        BY <2>2, <3>3, <3>4, <4>1, <4>6 DEF OnMedia, Kinds
      <4> QED  BY <4>2, <4>3, <4>4, <4>5, <4>6
    <3>12. \/ \E peer \in Users : StartCall(t, peer)
           \/ AcceptCall(t) \/ RejectCall(t) \/ EndCall(t)
           \/ HandleSignal(t) \/ RingTimeout(t) \/ PeerLost(t) \/ Resume(t)
      BY <1>1 DEF TabStep
    <3> QED  BY <3>1, <3>2, <3>6, <3>7, <3>8, <3>9, <3>10, <3>11, <3>12
  <2>4. PICK kinds \in SUBSET (Kinds \ {"call-invite"}) : \E u : Sends(t, kinds, u)
    BY <2>3
  <2>5. \A d \in Conns : \A f \in Range(up'[d]) : f.kind # "call-invite"
    BY <2>4 DEF Sends, Late, Carries
  <2> QED  BY <1>0, <2>1, <2>3, <2>5 DEF Late, Carries
<1>2. ASSUME NEW t \in Tabs, Connect(t) \/ OnClose(t) PROVE Late'
  BY <1>0, <1>2 DEF Connect, OnClose, clientVars, Late
<1>3. ASSUME NEW t \in Tabs, CloseTab(t) PROVE Late'
  BY <1>0, <1>3 DEF CloseTab, Late, SessionOwn
<1>4. ASSUME NEW t \in Tabs, MediaLost(t) PROVE Late'
  <2>1. PICK l \in linked[t] : TeardownTo(t, WithPcClosed(t), Abandoned(t) \ {l})
    BY <1>4 DEF MediaLost
  <2>2. jobs' = [jobs EXCEPT ![t] = WithPcClosed(t)]  BY <2>1 DEF TeardownTo
  <2>3. \A j \in WithPcClosed(t) : j.job # "place"  BY PcClosedType DEF Late
  <2> QED  BY <1>0, <1>4, <2>2, <2>3 DEF MediaLost, netVars, Late, SessionOwn
<1>5. ASSUME NEW c \in Conns, ServerStep(c) \/ Break(c) PROVE Late'
  <2>1. jobs' = jobs
    BY <1>5 DEF ServerStep, Receive, Relay, Stopped, Break, clientVars
  <2> QED  BY <1>0, <1>5, <2>1, UpShrinks DEF Late, Carries
<1>6. CASE UNCHANGED sessionVars
  BY <1>0, <1>6 DEF sessionVars, netVars, clientVars, Late
<1> QED  BY <1>1, <1>2, <1>3, <1>4, <1>5, <1>6, Steps

\* Whoever moves, the relay's tables change by a step of the server alone.
LEMMA RelayKept ==
    ASSUME TypeOK, SessionOwn,
           \/ \E t \in Tabs : \/ Connect(t) \/ OnClose(t) \/ CloseTab(t)
                              \/ MediaLost(t) \/ TabStep(t)
           \/ \E c \in Conns : Break(c)
           \/ UNCHANGED sessionVars
    PROVE  /\ UNCHANGED <<calls, plan, finalized>>
           /\ \A d \in Conns : Planning(d)' <=> Planning(d)
<1>1. ASSUME NEW t \in Tabs, Connect(t)
      PROVE  /\ UNCHANGED <<calls, plan, finalized>>
             /\ \A d \in Conns : Planning(d)' <=> Planning(d)
  BY <1>1 DEF Connect, Register, TypeOK, Planning
<1>2. ASSUME NEW t \in Tabs, OnClose(t) \/ CloseTab(t) \/ MediaLost(t)
      PROVE  UNCHANGED <<calls, plan, finalized, pc>>
  BY <1>2 DEF OnClose, CloseTab, MediaLost
<1>3. ASSUME NEW t \in Tabs, TabStep(t) PROVE UNCHANGED <<calls, plan, finalized, pc>>
  BY <1>3, OnlyThisTab DEF RelayIdle
<1>4. ASSUME NEW c \in Conns, Break(c) PROVE UNCHANGED <<calls, plan, finalized, pc>>
  BY <1>4 DEF Break
<1>5. CASE UNCHANGED sessionVars
  BY <1>5 DEF sessionVars, vars, Planning
<1>6. CASE UNCHANGED <<calls, plan, finalized, pc>>  BY <1>6 DEF Planning
<1> QED  BY <1>1, <1>2, <1>3, <1>4, <1>5, <1>6

\* With nothing to tell anybody, the server's actors only come and go.
LEMMA CalmServer ==
    ASSUME SessionInv, calls = {}, Calm, NEW c \in Conns, Relay(c) \/ Stopped(c)
    PROVE  /\ calls' = {} /\ Calm' /\ UNCHANGED <<sock, broken, clientVars, placed>>
           /\ \A d \in Conns : up'[d] = up[d] \/ (c = d /\ c \in broken /\ up'[d] = <<>>)
<1> USE DEF SessionInv
<1>1. CASE Stopped(c)
  BY <1>1 DEF Stopped, Unregister, Calm, Planning, Inv, TypeOK, SessionOwn
<1>2. CASE Relay(c)
  <2>1. ~Planning(c) /\ finalized[c] = {}  BY DEF Calm
  <2>2. RecordCallerScope(c) \/ DropCallerScope(c) \/ PlanDisconnect(c)
    BY <1>2, <2>1 DEF Relay, Proceed, CancelRings, Gate, Forward, Finalize, Planning
  <2>3. delivered' = {} /\ UNCHANGED plan
    BY <2>2 DEF RecordCallerScope, DropCallerScope, PlanDisconnect
  <2>4. calls' = {} /\ \A d \in Conns : finalized'[d] = {} /\ ~Planning(d)'
    <3>1. CASE PlanDisconnect(c)
      <4>1. LeftBy(c, UserOf[c], last[c]) = {}  BY DEF LeftBy
      <4>2. /\ finalized' = [finalized EXCEPT ![c] =
                    {[call |-> i, outcome |-> OutcomeWhenEnded(i)] :
                       i \in LeftBy(c, UserOf[c], last[c])}]
            /\ pc' = [pc EXCEPT ![c] = IF finalized'[c] = {} THEN "closed" ELSE "finalizing"]
            /\ calls' = calls \ LeftBy(c, UserOf[c], last[c])
        BY <3>1 DEF PlanDisconnect
      <4>3. {[call |-> i, outcome |-> OutcomeWhenEnded(i)] :
               i \in LeftBy(c, UserOf[c], last[c])} = {}
        BY <4>1
      <4> QED  BY <4>2, <4>3 DEF Calm, Planning, Inv, TypeOK
    <3>2. CASE RecordCallerScope(c) \/ DropCallerScope(c)
      BY <3>2 DEF RecordCallerScope, DropCallerScope, Calm, Planning, Inv, TypeOK
    <3> QED  BY <2>2, <3>1, <3>2
  <2>5. \A d \in Conns : down'[d] = <<>>
    <3>1. \A d \in Conns : down[d] = <<>> /\ <<>> \o <<>> = <<>>
      BY EmptyTypes, ConcatEmptySeq DEF Calm
    <3> QED  BY <1>2, <2>3, <3>1 DEF Relay, Mailed
  <2> QED  BY <1>2, <2>4, <2>5 DEF Relay, Calm
<1> QED  BY <1>1, <1>2

\* Without an invite to receive, an empty table stays empty.
LEMMA EmptyTable ==
    ASSUME SessionInv, Late, calls = {}, NEW c \in Conns, ServerStep(c)
    PROVE  calls' = {}
<1> USE DEF SessionInv
<1>1. CASE Receive(c)
  <2>1. up[c] \in Seq(Ups) /\ up[c] # <<>>  BY <1>1 DEF Receive, SessionOwn
  <2>2. Head(up[c]) \in Range(up[c])  BY <2>1, HeadRange
  <2>3. Head(up[c]).kind # "call-invite"  BY <2>2 DEF Late, Carries
  <2>4. Tracked(UserOf[c], Head(up[c]).to) = {}  BY DEF Tracked
  <2> QED  BY <1>1, <2>3, <2>4 DEF Receive, PlanSignal, PlanUntracked, Planned
<1>2. CASE Relay(c)
  BY <1>2 DEF Relay, Proceed, RecordCallerScope, CancelRings, Gate, Forward, DropCallerScope,
     PlanDisconnect, Finalize
<1>3. CASE Stopped(c)  BY <1>3 DEF Stopped, Unregister
<1> QED  BY <1>1, <1>2, <1>3 DEF ServerStep

LEMMA OverStep ==
    ASSUME SessionInv, Counted, Over, [SessionNext]_sessionVars
    PROVE  Over'
<1>1. Late'  BY LateStep DEF Over
<1>2. calls' = {}
  <2>1. CASE \E c \in Conns : ServerStep(c)  BY <2>1, EmptyTable DEF Over
  <2>2. CASE ~\E c \in Conns : ServerStep(c)
    BY <2>2, Steps, RelayKept DEF Over, SessionInv, Inv
  <2> QED  BY <2>1, <2>2
<1> QED  BY <1>1, <1>2 DEF Over

\* Frames put behind the first one.
LEMMA Behind ==
    ASSUME NEW S, NEW q \in Seq(S), q # <<>>, NEW x \in S
    PROVE  /\ q \o <<x>> # <<>> /\ Head(q \o <<x>>) = Head(q)
           /\ Tail(q \o <<x>>) # <<>>
           /\ Range(Tail(q \o <<x>>)) = Range(Tail(q)) \cup {x}
<1>1. q \o <<x>> = Append(q, x) /\ Append(q, x) # <<>>
  BY AppendIsConcat, AppendProperties
<1>2. Head(Append(q, x)) = Head(q) /\ Tail(Append(q, x)) = Append(Tail(q), x)
  BY HeadTailAppend
<1>3. Tail(q) \in Seq(S)  BY HeadTailProperties
<1>4. Append(Tail(q), x) = Tail(q) \o <<x>> /\ Append(Tail(q), x) # <<>>
  BY <1>3, AppendIsConcat, AppendProperties
<1>5. Range(Tail(q) \o <<x>>) = Range(Tail(q)) \cup Range(<<x>>)
  <2>1. <<x>> \in Seq(S)  BY OneFrame
  <2> HIDE DEF Range
  <2> QED  BY <1>3, <2>1, RangeConcatenation, Zenon
<1>6. Range(<<x>>) = {x}
  <2>1. DOMAIN <<x>> = {1} /\ <<x>>[1] = x  OBVIOUS
  <2> QED  BY <2>1 DEF Range
<1> QED  BY <1>1, <1>2, <1>4, <1>5, <1>6

\* Before the first invite: a tab asks for the microphone, and nobody else does a thing.
LEMMA BeforeStep ==
    ASSUME SessionInv, SocketsInUse, Counted, BeforeInvite, MaxCalls <= 1,
           [SessionNext]_sessionVars
    PROVE  BeforeInvite' \/ (\E c \in Conns, v \in Users : Inviting(c, v)') \/ Over'
<1> USE DEF SessionInv
<1>0. MaxCalls \in Nat /\ placed \in Nat  BY BoundsType DEF Counted
<1>1. ASSUME NEW t \in Tabs, Connect(t) \/ OnClose(t) PROVE BeforeInvite'
  <2>1. UNCHANGED <<up, down, placed, clientVars>>  BY <1>1 DEF Connect, OnClose
  <2>2. /\ UNCHANGED <<calls, plan, finalized>>
        /\ \A d \in Conns : Planning(d)' <=> Planning(d)
    BY <1>1, RelayKept DEF Inv
  <2> QED  BY <2>1, <2>2 DEF BeforeInvite, Calm, clientVars
<1>2. ASSUME NEW t \in Tabs, CloseTab(t) PROVE BeforeInvite'
  <2>1. /\ UNCHANGED <<calls, plan, finalized, pc, up, placed>>
        /\ \A d \in Conns : down'[d] = <<>>
        /\ ui' = [ui EXCEPT ![t] = Idle] /\ jobs' = [jobs EXCEPT ![t] = {}]
        /\ pcRef' = [pcRef EXCEPT ![t] = NoPc] /\ linked' = [linked EXCEPT ![t] = {}]
        /\ timer' = [timer EXCEPT ![t] = NoUser]
    BY <1>2 DEF CloseTab, BeforeInvite, Calm
  <2>2. \A s \in Tabs : jobs'[s] \subseteq jobs[s]  BY <2>1 DEF SessionOwn
  <2>3. Calm'  BY <2>1 DEF Calm, Planning, BeforeInvite
  <2>4. \A s \in Tabs : ui'[s] = Idle /\ timer'[s] = NoUser /\ pcRef'[s] = NoPc /\ linked'[s] = {}
    BY <2>1 DEF SessionOwn, BeforeInvite
  <2> QED  BY <2>1, <2>2, <2>3, <2>4 DEF BeforeInvite
<1>3. ASSUME NEW t \in Tabs, MediaLost(t) PROVE FALSE
  BY <1>3 DEF MediaLost, BeforeInvite
<1>4. ASSUME NEW t \in Tabs, TabStep(t)
      PROVE  BeforeInvite' \/ (\E c \in Conns, v \in Users : Inviting(c, v)') \/ Over'
  <2>1. /\ UNCHANGED <<calls, plan, finalized, pc, sock, broken>>
        /\ \A s \in Tabs \ {t} : SameTab(s)
    BY <1>4, OnlyThisTab DEF RelayIdle
  <2>2. \A d \in Conns : down'[d] = <<>>
    BY <1>4, DownShrinks DEF BeforeInvite, Calm
  <2>3. calls' = {} /\ Calm'  BY <2>1, <2>2 DEF BeforeInvite, Calm, Planning
  <2>4. /\ ui[t] = Idle /\ Idle.kind = "idle" /\ timer[t] = NoUser /\ pcRef[t] = NoPc /\ linked[t] = {}
        /\ \A j \in jobs[t] : j.job = "place" /\ j.stage = "media"
    BY DEF BeforeInvite, Idle, SessionOwn, PromptFirst
  <2>5. \/ \E peer \in Users : StartCall(t, peer)
        \/ \E j \in jobs[t] : PromptGranted(t, j) \/ PromptDenied(t, j)
    <3>1. ~HandleSignal(t)  BY HeardOne DEF BeforeInvite, Calm
    <3>2. ~AcceptCall(t) /\ ~RejectCall(t) /\ ~EndCall(t) /\ ~RingTimeout(t) /\ ~PeerLost(t)
      BY <2>4 DEF AcceptCall, RejectCall, EndCall, RingTimeout, PeerLost
    <3>3. \A j \in jobs[t] : ~IceServersReady(t, j) /\ ~MediaReady(t, j) /\ ~MediaFailed(t, j)
      BY <2>4 DEF IceServersReady, MediaReady, MediaFailed
    <3> QED  BY <1>4, <3>1, <3>2, <3>3 DEF TabStep, Resume
  <2>6. ASSUME NEW peer \in Users, StartCall(t, peer) PROVE BeforeInvite'
    <3>1. /\ placed < MaxCalls /\ placed' = placed + 1 /\ peer # Me(t)
          /\ jobs' = [jobs EXCEPT ![t] = jobs[t] \cup
                        {[job |-> "place", peer |-> peer, stage |-> "media"]}]
          /\ UNCHANGED <<up, ui, pcRef, linked, timer>>
      BY <2>6 DEF StartCall
    <3>2. \A s \in Tabs : jobs[s] = {}  BY <1>0, <3>1 DEF BeforeInvite
    <3>3. placed' >= MaxCalls  BY <1>0, <3>1
    <3>4. \A s \in Tabs : jobs'[s] = IF s = t THEN {[job |-> "place", peer |-> peer, stage |-> "media"]}
                                     ELSE {}
      BY <3>1, <3>2 DEF SessionOwn
    <3>5. \A s \in Tabs : \A j \in jobs'[s] :
             /\ s = t /\ j = [job |-> "place", peer |-> peer, stage |-> "media"]
             /\ j.job = "place" /\ j.peer # Me(s)
      BY <3>1, <3>4
    <3>6. \A s, r \in Tabs : \A j \in jobs'[s], k \in jobs'[r] : s = r /\ j = k
      BY <3>5
    <3> QED  BY <2>3, <3>1, <3>3, <3>5, <3>6 DEF BeforeInvite
  <2>7. ASSUME NEW j \in jobs[t], PromptDenied(t, j) PROVE BeforeInvite'
    <3>1. UNCHANGED <<up, ui, pcRef, linked, timer, placed>>
          /\ jobs' = [jobs EXCEPT ![t] = jobs[t] \ {j}]
      BY <2>7 DEF PromptDenied
    <3>2. \A s \in Tabs : jobs'[s] \subseteq jobs[s]  BY <3>1 DEF SessionOwn
    <3> QED  BY <2>3, <3>1, <3>2 DEF BeforeInvite
  <2>8. ASSUME NEW j \in jobs[t], PromptGranted(t, j)
        PROVE  (\E c \in Conns, v \in Users : Inviting(c, v)') \/ Over'
    <3>1. /\ j.peer \in Users /\ j.peer # Me(t) /\ placed >= MaxCalls /\ jobs[t] = {j}
          /\ \A s \in Tabs \ {t} : jobs[s] = {}
      BY DEF BeforeInvite, SessionOwn, Jobs
    <3>2. /\ placed' = placed /\ Send(t, Frame("call-invite", j.peer))
          /\ ui'[t] = With("outgoing", j.peer) /\ jobs'[t] = {} /\ timer'[t] = j.peer
          /\ pcRef'[t] = NoPc /\ linked'[t] = {}
      BY <2>4, <2>8, <3>1 DEF PromptGranted, SessionOwn
    <3>3. \A s \in Tabs \ {t} : Untouched(s)'
      BY <2>1, <3>1 DEF SameTab, Untouched, BeforeInvite
    <3>4. CASE sock[t] \in Conns \ broken
      <4>0. PICK c \in Conns : c = sock[t] /\ c \notin broken  BY <3>4
      <4>1. up' = [up EXCEPT ![c] = up[c] \o Frame("call-invite", j.peer)]
        BY <3>2, <4>0 DEF Send
      <4>2. /\ up'[c] = <<[kind |-> "call-invite", to |-> j.peer]>>
            /\ \A d \in Conns \ {c} : up'[d] = <<>>
        <5>1. Frame("call-invite", j.peer) \in Seq(Ups)  BY <3>1, FrameType DEF Kinds
        <5>2. <<>> \o Frame("call-invite", j.peer) = Frame("call-invite", j.peer)
          BY <5>1, ConcatEmptySeq
        <5>3. up \in [Conns -> Seq(Ups)] /\ \A d \in Conns : up[d] = <<>>
          BY DEF SessionOwn, BeforeInvite
        <5> QED  BY <4>0, <4>1, <5>2, <5>3 DEF Frame
      <4>3. TabOf[c] = t /\ UserOf[c] = Me(t)
        BY <4>0, MyUser, NoConnAssumption DEF SocketsInUse
      <4>4. /\ up'[c] # <<>> /\ Head(up'[c]) = [kind |-> "call-invite", to |-> j.peer]
            /\ Tail(up'[c]) = <<>> /\ Range(Tail(up'[c])) = {}
        BY <4>2, EmptyRange
      <4>5. c \notin broken'  BY <2>1, <4>0
      <4>6. Inviting(c, j.peer)'
        BY <2>3, <3>1, <3>2, <3>3, <4>2, <4>3, <4>4, <4>5 DEF Inviting
      <4> QED  BY <3>1, <4>6
    <3>5. CASE sock[t] \notin Conns \ broken
      <4>1. \A d \in Conns : up'[d] = <<>>  BY <3>2, <3>5 DEF Send, BeforeInvite
      <4>2. Late'
        BY <3>1, <3>2, <3>3, <4>1, EmptyRange DEF Late, Carries, Untouched
      <4> QED  BY <2>3, <4>2 DEF Over
    <3> QED  BY <3>4, <3>5
  <2> QED  BY <2>5, <2>6, <2>7, <2>8
<1>5. ASSUME NEW c \in Conns, ServerStep(c) PROVE BeforeInvite'
  <2>1. Relay(c) \/ Stopped(c)  BY <1>5 DEF ServerStep, Receive, BeforeInvite
  <2>2. /\ calls' = {} /\ Calm' /\ UNCHANGED <<clientVars, placed>>
        /\ \A d \in Conns : up'[d] = <<>>
    BY <2>1, CalmServer DEF BeforeInvite
  <2> QED  BY <2>2 DEF BeforeInvite, clientVars
<1>6. ASSUME NEW c \in Conns, Break(c) PROVE BeforeInvite'
  <2>1. /\ UNCHANGED <<calls, plan, finalized, pc, placed, clientVars>>
        /\ \A d \in Conns : up'[d] = <<>> /\ down'[d] = <<>>
    BY <1>6 DEF Break, BeforeInvite, Calm, SessionOwn
  <2> QED  BY <2>1 DEF BeforeInvite, Calm, Planning, clientVars
<1>7. CASE UNCHANGED sessionVars
  BY <1>7 DEF sessionVars, vars, netVars, clientVars, BeforeInvite, Calm, Planning
<1> QED  BY <1>1, <1>2, <1>3, <1>4, <1>5, <1>6, <1>7, Steps

\* What receiving the invite makes of the table.
LEMMA InviteReceived ==
    ASSUME SessionInv, calls = {}, NEW c \in Conns, NEW v \in Users, Receive(c),
           Head(up[c]) = [kind |-> "call-invite", to |-> v]
    PROVE  \E i \in CallInfo :
             /\ i = [caller |-> UserOf[c], callee |-> v, callerConn |-> c,
                     calleeConn |-> NoConn, connected |-> FALSE]
             /\ calls' = {i}
             /\ plan' = [plan EXCEPT ![c] = JustForward("call-invite", v, AllOf(v))]
             /\ pc' = [pc EXCEPT ![c] = "planned"]
             /\ up' = [up EXCEPT ![c] = Tail(up[c])]
             /\ UNCHANGED <<finalized, sock, broken, down, clientVars, placed>>
<1>1. PlanSignal(c, "call-invite", v)  BY DEF Receive
<1>2. PlanInvite(c, v) /\ UNCHANGED finalized  BY <1>1 DEF PlanSignal
<1> DEFINE i == [caller |-> UserOf[c], callee |-> v, callerConn |-> c,
                 calleeConn |-> NoConn, connected |-> FALSE]
<1>3. i \in CallInfo  BY UserOfType DEF CallInfo
<1>4. calls' = {i}  BY <1>2 DEF PlanInvite, Planned
<1> HIDE DEF i
<1>5. /\ plan' = [plan EXCEPT ![c] = JustForward("call-invite", v, AllOf(v))]
      /\ pc' = [pc EXCEPT ![c] = "planned"]
  BY <1>2 DEF PlanInvite, Planned
<1>6. i = [caller |-> UserOf[c], callee |-> v, callerConn |-> c,
           calleeConn |-> NoConn, connected |-> FALSE]
  BY DEF i
<1> QED  BY <1>2, <1>3, <1>4, <1>5, <1>6 DEF Receive

LEMMA InviteArrives ==
    ASSUME SessionInv, NEW c \in Conns, NEW v \in Users, Inviting(c, v), Receive(c)
    PROVE  \E i \in calls' : InTable(i)'
<1> USE DEF SessionInv
<1> DEFINE u == UserOf[c]
           t == TabOf[c]
<1>1. PICK i \in CallInfo :
        /\ i = [caller |-> u, callee |-> v, callerConn |-> c,
                calleeConn |-> NoConn, connected |-> FALSE]
        /\ calls' = {i}
        /\ plan' = [plan EXCEPT ![c] = JustForward("call-invite", v, AllOf(v))]
        /\ pc' = [pc EXCEPT ![c] = "planned"]
        /\ up' = [up EXCEPT ![c] = Tail(up[c])]
        /\ UNCHANGED <<finalized, sock, broken, down, clientVars, placed>>
  BY InviteReceived DEF Inviting
<1>2. /\ i.caller = u /\ i.callee = v /\ i.callerConn = c /\ i.calleeConn = NoConn
      /\ i.connected = FALSE /\ v # u
  BY <1>1 DEF Inviting
<1>3. /\ up[c] \in Seq(Ups) /\ up[c] # <<>> /\ up'[c] = Tail(up[c])
      /\ \A d \in Conns \ {c} : up'[d] = <<>>
      /\ \A f \in Range(up'[c]) : f.to = v /\ f.kind \in Endings
      /\ \A d \in Conns : down'[d] = <<>> /\ finalized'[d] = {}
  BY <1>1 DEF Inviting, Calm, SessionOwn
<1>4. /\ \A d \in Conns \ {c} : ~Planning(d)'
      /\ plan'[c] = JustForward("call-invite", v, AllOf(v))
  BY <1>1 DEF Inviting, Calm, Planning, Inv, TypeOK
<1>5. /\ plan'[c].to = v /\ plan'[c].kind = "call-invite"
      /\ ~plan'[c].cancelMyOthers /\ ~plan'[c].cancelMe
  BY <1>4 DEF JustForward
<1>6. /\ ui' = ui /\ jobs' = jobs /\ pcRef' = pcRef /\ linked' = linked /\ timer' = timer
      /\ placed' = placed /\ broken' = broken
  BY <1>1 DEF clientVars
<1>7. /\ ui[t] = Idle \/ ui[t] = With("outgoing", v)
      /\ jobs[t] = {} /\ pcRef[t] = NoPc /\ linked[t] = {} /\ timer[t] \in {NoUser, v}
      /\ \A s \in Tabs \ {t} : Untouched(s)
      /\ c \notin broken /\ Tail(up[c]) = <<>> => ui[t] = With("outgoing", v) /\ timer[t] = v
  BY DEF Inviting
<1>8. t \in Tabs /\ Me(t) = u /\ u \in Users  BY TabOfType, UserOfType, MyUser
<1>9. Late'
  <2>1. \A d \in Conns : \A f \in Range(up'[d]) : f.kind # "call-invite"
    BY <1>3, EmptyRange DEF Endings
  <2>2. \A s \in Tabs : jobs'[s] = {}  BY <1>6, <1>7 DEF Untouched
  <2> QED  BY <1>6, <2>1, <2>2 DEF Late, Carries, Inviting
<1>10. TabRoles(c, v)'
  <2>1. CallerTab(t, v)'  BY <1>6, <1>7 DEF CallerTab, InCallWith
  <2>2. ASSUME NEW s \in Tabs \ {t} PROVE Untouched(s)' /\ CalleeTab(s, u)'
    BY <1>6, <1>7 DEF Untouched, CalleeTab, InCallWith
  <2> QED  BY <2>1, <2>2 DEF TabRoles
<1>11. Frames(u, v)'
  <2> SUFFICES ASSUME NEW d \in Conns
               PROVE  /\ UserOf[d] = u => Traffic(d, v, "call-accept", "call-invite")'
                      /\ UserOf[d] = v => Traffic(d, u, "call-invite", "call-accept")'
                      /\ UserOf[d] \notin {u, v} => up'[d] = <<>> /\ down'[d] = <<>> /\ ~Planning(d)'
                      /\ finalized'[d] = {}
    BY DEF Frames
  <2>1. CASE d = c
    <3>1. \A f \in Range(up'[c]) : f.to = v /\ f.kind # "call-accept"  BY <1>3 DEF Endings
    <3>2. Range(down'[c]) = {}  BY <1>3, EmptyRange
    <3>3. Traffic(c, v, "call-accept", "call-invite")'
      BY <1>5, <3>1, <3>2 DEF Traffic
    <3> QED  BY <1>2, <1>3, <2>1, <3>3
  <2>2. CASE d # c
    BY <1>3, <1>4, <2>2, EmptyRange DEF Traffic
  <2> QED  BY <2>1, <2>2
<1>12. NoStrayEnding(i)'
  BY <1>3, <1>4, <1>5, EmptyRange DEF NoStrayEnding, Carries, Endings
<1>13. StillRinging(i)'
  <2>1. \A d \in Conns : ~Carries(down'[d], {"call-accept"}) /\ ~Carries(up'[d], {"call-accept"})
    BY <1>3, EmptyRange DEF Carries, Endings
  <2>2. \A d \in Conns : Planning(d)' => plan'[d].kind # "call-accept"  BY <1>4, <1>5
  <2> QED  BY <1>2, <1>6, <1>7, <2>1, <2>2 DEF StillRinging
<1>14. Answers(i)'
  <2> SUFFICES ASSUME Sound(i)'
               PROVE  Dials(t, v)' /\ ~MediaOut(i)'
    BY <1>2 DEF Answers
  <2>1. c \notin broken /\ up'[c] = <<>>
    <3>1. c \notin broken /\ ~Carries(up'[c], Endings)  BY <1>2, <1>6 DEF Sound
    <3>2. Range(up'[c]) = {}  BY <1>3, <3>1 DEF Carries
    <3> QED  BY <1>3, <3>1, <3>2, HeadRange, EmptyIff
  <2>2. Dials(t, v)'  BY <1>3, <1>6, <1>7, <2>1, NoUserAssumption DEF Dials
  <2>3. \A d \in Conns : Range(up'[d]) = {} /\ Range(down'[d]) = {}
    BY <1>3, <2>1, EmptyRange
  <2>4. \A s \in Tabs : linked'[s] = {}  BY <1>6, <1>7 DEF Untouched
  <2>5. \A d \in Conns : Planning(d)' => plan'[d].kind # "media"  BY <1>4, <1>5
  <2> QED  BY <2>2, <2>3, <2>4, <2>5 DEF MediaOut, Carries
<1> QED  BY <1>1, <1>2, <1>9, <1>10, <1>11, <1>12, <1>13, <1>14 DEF InTable

\* While the invite is on its way the caller may give up, and its frames may be lost.
LEMMA InvitingStep ==
    ASSUME SessionInv, SocketsInUse, Counted, NEW c \in Conns, NEW v \in Users,
           Inviting(c, v), [SessionNext]_sessionVars
    PROVE  Inviting(c, v)' \/ (\E i \in calls' : InTable(i)') \/ Over'
<1> USE DEF SessionInv
<1> DEFINE t == TabOf[c]
<1>0. /\ MaxCalls \in Nat /\ placed \in Nat /\ t \in Tabs
      /\ up \in [Conns -> Seq(Ups)]
  BY BoundsType, TabOfType DEF Counted, SessionOwn
<1>a. \A s \in Tabs : /\ ui[s].kind \in {"idle", "outgoing"} /\ jobs[s] = {}
                      /\ pcRef[s] = NoPc /\ linked[s] = {}
                      /\ s # t => Untouched(s)
  BY DEF Inviting, Untouched, Idle, With
\* Nothing of the client's changes but what a closing tab resets.
<1>b. ASSUME calls' = {}, Calm', placed' = placed, \A d \in Conns : up'[d] = up[d],
             broken \subseteq broken', \A s \in Tabs : SameTab(s) \/ Untouched(s)',
             c \in broken' => c \in broken \/ ui'[t] = Idle,
             c \notin broken' => SameTab(t)
      PROVE  Inviting(c, v)'
  <2>1. \A s \in Tabs \ {t} : Untouched(s)'  BY <1>b, <1>a DEF SameTab, Untouched
  <2>2. /\ ui'[t] = Idle \/ ui'[t] = With("outgoing", v)
        /\ jobs'[t] = {} /\ pcRef'[t] = NoPc /\ linked'[t] = {} /\ timer'[t] \in {NoUser, v}
        /\ c \in broken' => ui'[t] = Idle
        /\ c \notin broken' /\ Tail(up'[c]) = <<>> => ui'[t] = With("outgoing", v) /\ timer'[t] = v
    BY <1>0, <1>b DEF SameTab, Untouched, Inviting
  <2> QED  BY <1>b, <2>1, <2>2 DEF Inviting
<1>c. ASSUME calls' = {}, placed' = placed, UNCHANGED jobs, \A d \in Conns : up'[d] = <<>>
      PROVE  Over'
  <2>1. Late'  BY <1>a, <1>c, EmptyRange DEF Late, Carries, Inviting
  <2> QED  BY <1>c, <2>1 DEF Over
<1>1. ASSUME NEW s \in Tabs, Connect(s) \/ OnClose(s) PROVE Inviting(c, v)'
  <2>1. UNCHANGED <<up, down, placed, broken, clientVars>>  BY <1>1 DEF Connect, OnClose
  <2>2. calls' = {} /\ Calm'
    BY <1>1, <2>1, RelayKept DEF Inv, Inviting, Calm
  <2>3. \A r \in Tabs : SameTab(r)  BY <2>1 DEF clientVars, SameTab
  <2> QED  BY <1>0, <1>b, <2>1, <2>2, <2>3
<1>2. ASSUME NEW s \in Tabs, CloseTab(s) PROVE Inviting(c, v)'
  <2>1. /\ UNCHANGED <<up, placed>> /\ broken' = broken \cup {d \in Conns : TabOf[d] = s}
        /\ Untouched(s)' /\ \A r \in Tabs \ {s} : SameTab(r)
    BY <1>2 DEF CloseTab, SessionOwn, Untouched, SameTab
  <2>2. \A d \in Conns : down'[d] = <<>>  BY <1>2 DEF CloseTab, Inviting, Calm
  <2>3. calls' = {} /\ Calm'
    BY <1>2, <2>2, RelayKept DEF Inv, Inviting, Calm
  <2>4. Untouched(s)' => ui'[s] = Idle  BY DEF Untouched
  <2> QED  BY <1>0, <1>b, <2>1, <2>3, <2>4
<1>3. ASSUME NEW s \in Tabs, MediaLost(s) PROVE FALSE
  BY <1>3, <1>a DEF MediaLost
<1>4. ASSUME NEW s \in Tabs, TabStep(s) PROVE Inviting(c, v)'
  <2>1. /\ UNCHANGED <<sock, broken>> /\ \A r \in Tabs \ {s} : SameTab(r)
    BY <1>4, OnlyThisTab DEF RelayIdle
  <2>2. \A d \in Conns : down[d] = <<>> /\ down'[d] = <<>>
    BY <1>4, DownShrinks DEF Inviting, Calm
  <2>3. calls' = {} /\ Calm'
    BY <1>4, <2>2, RelayKept DEF Inv, Inviting, Calm
  <2>4. placed' = placed
    BY <1>0, <1>4, OnlyThisTab DEF Inviting
  <2>5. CASE s # t
    <3>1. Untouched(s)' /\ up' = up
      BY <1>4, <1>a, <2>2, <2>5, BystanderStep, EmptyRange DEF Inviting
    <3>2. \A r \in Tabs : SameTab(r) \/ Untouched(r)'  BY <2>1, <3>1
    <3>3. SameTab(t) /\ broken' = broken /\ \A d \in Conns : up'[d] = up[d]
      BY <1>0, <2>1, <2>5, <3>1
    <3> QED  BY <1>b, <2>3, <2>4, <3>2, <3>3
  <2>6. CASE s = t
    <3>1. EndCall(t) \/ RingTimeout(t)
      <4>1. ~HandleSignal(t)  BY <1>0, <2>2, HeardOne
      <4>2. ~\E peer \in Users : StartCall(t, peer)
        BY <1>0 DEF StartCall, Inviting
      <4>3. ~AcceptCall(t) /\ ~RejectCall(t) /\ ~PeerLost(t) /\ ~Resume(t)
        BY <1>a, <1>0 DEF AcceptCall, RejectCall, PeerLost, Resume
      <4> QED  BY <1>4, <2>6, <4>1, <4>2, <4>3 DEF TabStep
    <3>2. ui[t] = With("outgoing", v) /\ ui[t].kind = "outgoing" /\ ui[t].peer = v
      <4>1. ui[t].kind # "idle"
        BY <3>1, <1>0 DEF EndCall, RingTimeout, SessionOwn, TimerInCall
      <4>2. ui[t] = With("outgoing", v)  BY <4>1 DEF Inviting, Idle
      <4> QED  BY <4>2 DEF With
    <3>3. Send(t, Frame("call-cancel", v)) /\ Teardown(t)
      BY <3>1, <3>2 DEF EndCall, RingTimeout, Inviting
    <3>4. c \notin broken /\ sock[t] = c
      <4>1. ui[t] # Idle  BY <3>2 DEF Idle
      <4>2. c \notin broken  BY <4>1 DEF Inviting
      <4> QED  BY <4>2 DEF SocketsInUse, Inviting
    <3>5. up' = [up EXCEPT ![c] = up[c] \o Frame("call-cancel", v)]
      BY <3>3, <3>4 DEF Send
    <3> DEFINE x == [kind |-> "call-cancel", to |-> v]
    <3>6. x \in Ups /\ up[c] \in Seq(Ups) /\ up[c] # <<>>
      BY <1>0 DEF Ups, Kinds, Inviting
    <3>7. up'[c] = up[c] \o <<x>> /\ \A d \in Conns \ {c} : up'[d] = <<>>
      BY <1>0, <3>5 DEF Frame, Inviting
    <3>8. x.to = v /\ x.kind \in Endings  BY DEF Endings
    <3> HIDE DEF x
    <3>9. /\ up'[c] # <<>> /\ Head(up'[c]) = Head(up[c]) /\ Tail(up'[c]) # <<>>
          /\ Range(Tail(up'[c])) = Range(Tail(up[c])) \cup {x}
      BY <3>6, <3>7, Behind
    <3>10. /\ ui'[t] = Idle /\ jobs'[t] = {} /\ pcRef'[t] = NoPc /\ linked'[t] = {}
           /\ timer'[t] = NoUser
      <4>1. WithPcClosed(t) = {} /\ Abandoned(t) = {}
        BY <1>a, <1>0 DEF WithPcClosed, Abandoned
      <4> QED  BY <1>0, <3>3, <4>1 DEF Teardown, TeardownTo, SessionOwn
    <3>11. \A r \in Tabs \ {t} : Untouched(r)'
      BY <1>a, <2>1, <2>6 DEF SameTab, Untouched
    <3>12. \A f \in Range(Tail(up'[c])) : f.to = v /\ f.kind \in Endings
      BY <3>8, <3>9 DEF Inviting
    <3>13. Head(up'[c]) = [kind |-> "call-invite", to |-> v] /\ v # UserOf[c]
      BY <3>9 DEF Inviting
    <3>14. placed' >= MaxCalls  BY <2>4 DEF Inviting
    <3> QED  BY <2>3, <3>7, <3>9, <3>10, <3>11, <3>12, <3>13, <3>14 DEF Inviting
  <2> QED  BY <2>5, <2>6
<1>5. ASSUME NEW d \in Conns, Relay(d) \/ Stopped(d) PROVE Inviting(c, v)' \/ Over'
  <2>1. /\ calls' = {} /\ Calm' /\ UNCHANGED <<sock, broken, clientVars, placed>>
        /\ \A e \in Conns : up'[e] = up[e] \/ (d = e /\ d \in broken /\ up'[e] = <<>>)
    BY <1>5, CalmServer DEF Inviting
  <2>2. CASE up'[c] = up[c]
    <3>1. \A e \in Conns : up'[e] = up[e]  BY <2>1, <2>2 DEF Inviting
    <3>2. \A r \in Tabs : SameTab(r)  BY <2>1 DEF clientVars, SameTab
    <3> QED  BY <1>0, <1>b, <2>1, <3>1, <3>2
  <2>3. CASE up'[c] # up[c]
    <3>1. \A e \in Conns : up'[e] = <<>>  BY <2>1, <2>3 DEF Inviting
    <3> QED  BY <1>c, <2>1, <3>1 DEF clientVars
  <2> QED  BY <2>2, <2>3
<1>6. ASSUME NEW d \in Conns, Receive(d) PROVE \E i \in calls' : InTable(i)'
  <2>1. d = c  BY <1>6 DEF Receive, Inviting
  <2> QED  BY <1>6, <2>1, InviteArrives
<1>7. ASSUME NEW d \in Conns, Break(d) PROVE Inviting(c, v)' \/ Over'
  <2>1. /\ UNCHANGED <<calls, plan, finalized, pc, placed, clientVars>>
        /\ broken' = broken \cup {d}
        /\ up' = [up EXCEPT ![d] = <<>>] /\ \A e \in Conns : down'[e] = <<>>
    BY <1>7 DEF Break, Inviting, Calm, SessionOwn
  <2>2. calls' = {} /\ Calm'  BY <2>1 DEF Inviting, Calm, Planning
  <2>3. CASE d = c
    <3>1. \A e \in Conns : up'[e] = <<>>  BY <1>0, <2>1, <2>3 DEF Inviting
    <3> QED  BY <1>c, <2>1, <2>2, <3>1 DEF clientVars
  <2>4. CASE d # c
    <3>1. \A e \in Conns : up'[e] = up[e]  BY <1>0, <2>1, <2>4 DEF Inviting
    <3>2. \A r \in Tabs : SameTab(r)  BY <2>1 DEF clientVars, SameTab
    <3> QED  BY <1>0, <1>b, <2>1, <2>2, <2>4, <3>1, <3>2
  <2> QED  BY <2>3, <2>4
<1>8. CASE UNCHANGED sessionVars
  BY <1>8 DEF sessionVars, vars, netVars, clientVars, Inviting, Calm, Planning, Untouched
<1> QED  BY <1>1, <1>2, <1>3, <1>4, <1>5, <1>6, <1>7, <1>8, Steps DEF ServerStep

\* Who the parties of the call are.
LEMMA Parties ==
    ASSUME SessionInv, SocketsInUse, NEW i, InTable(i)
    PROVE  /\ i \in calls /\ i \in CallInfo /\ i.caller # i.callee
           /\ i.callerConn \in Conns /\ UserOf[i.callerConn] = i.caller
           /\ TabOf[i.callerConn] \in Tabs /\ Me(TabOf[i.callerConn]) = i.caller
           /\ i.callerConn \notin broken => sock[TabOf[i.callerConn]] = i.callerConn
           /\ i.connected <=> i.calleeConn # NoConn
           /\ i.connected =>
                /\ i.calleeConn \in Conns /\ UserOf[i.calleeConn] = i.callee
                /\ TabOf[i.calleeConn] \in Tabs /\ Me(TabOf[i.calleeConn]) = i.callee
                /\ i.calleeConn \notin broken => sock[TabOf[i.calleeConn]] = i.calleeConn
<1>1. i \in calls /\ i.caller # i.callee  BY DEF InTable
<1>2. i \in CallInfo  BY <1>1 DEF SessionInv, Inv, TypeOK
<1>3. /\ UserOf[i.callerConn] = i.caller /\ Holding(i.callerConn)
      /\ i.connected <=> i.calleeConn # NoConn
      /\ i.connected => UserOf[i.calleeConn] = i.callee /\ Holding(i.calleeConn)
  BY <1>1 DEF SessionInv, Inv, CallsHeldByLiveConns
<1>4. /\ i.callerConn \in Conns
      /\ i.connected => i.calleeConn \in Conns
  BY <1>2, <1>3 DEF CallInfo
<1>5. /\ pc[i.callerConn] # "new"
      /\ i.connected => pc[i.calleeConn] # "new"
  BY <1>3 DEF Holding
<1> QED  BY <1>1, <1>2, <1>3, <1>4, <1>5, TabOfType, MyUser DEF SocketsInUse

\* The frames a tab is to hear are those of its user.
LEMMA SocketUser ==
    ASSUME SocketsInUse, SessionOwn, NEW t \in Tabs, sock[t] \in Conns
    PROVE  UserOf[sock[t]] = Me(t) /\ TabOf[sock[t]] = t
<1>1. TabOf[sock[t]] = t  BY NoConnAssumption DEF SocketsInUse
<1> QED  BY <1>1, MyUser

\* A tab of the callee that is linked to the caller has not been deserted.
LEMMA NotAlone ==
    ASSUME SessionInv, SocketsInUse, NEW i, InTable(i), Sound(i), NEW t \in Tabs,
           \/ t = TabOf[i.callerConn]
           \/ Me(t) = i.callee
    PROVE  ~Alone(t)
<1> DEFINE u == i.caller
           v == i.callee
           ta == TabOf[i.callerConn]
<1>1. /\ ta \in Tabs /\ Me(ta) = u /\ u # v
      /\ i.connected => /\ TabOf[i.calleeConn] \in Tabs /\ Me(TabOf[i.calleeConn]) = v
  BY Parties
<1>2. /\ Dials(ta, v) /\ (i.connected => Shows(TabOf[i.calleeConn], u))
      /\ MediaOut(i) => pcRef[ta].peer = v
  BY DEF InTable, Answers
<1>3. TabRoles(i.callerConn, v) /\ StillRinging(i)  BY DEF InTable
<1>3a. u = UserOf[i.callerConn]  BY Parties
<1>4. CASE t = ta
  <2>1. ~i.connected => linked[t] = {}  BY <1>3, <1>4 DEF StillRinging
  <2>2. \A l \in linked[t] : l.peer = v  BY <1>3, <1>4 DEF TabRoles, CallerTab, InCallWith
  <2>3. ASSUME NEW l \in linked[t], Deserted(t, l) PROVE FALSE
    <3>1. i.connected  BY <2>1, <2>3
    <3>2. pcRef[TabOf[i.calleeConn]].peer = u  BY <1>2, <3>1 DEF Shows
    <3> QED  BY <1>1, <1>4, <2>2, <2>3, <3>1, <3>2 DEF Deserted
  <2> QED  BY <2>3 DEF Alone
<1>5. CASE Me(t) = v
  <2>1. t # ta  BY <1>1, <1>5
  <2>2. \A l \in linked[t] : l.peer = u
    BY <1>3, <1>3a, <1>5, <2>1 DEF TabRoles, CalleeTab, InCallWith
  <2>3. ASSUME NEW l \in linked[t], Deserted(t, l) PROVE FALSE
    <3>1. MediaOut(i)  BY <1>5, <2>3 DEF MediaOut
    <3>2. pcRef[ta].peer = v  BY <1>2, <3>1
    <3> QED  BY <1>1, <1>5, <2>2, <2>3, <3>2 DEF Deserted
  <2> QED  BY <2>3 DEF Alone
<1> QED  BY <1>4, <1>5

\* What a step of any tab amounts to while the relay tracks the call.
TabEffect(t, i, kinds) ==
    /\ Sends(t, kinds, IF Me(t) = i.callee THEN i.caller ELSE i.callee)
    /\ t = TabOf[i.callerConn] => CallerDoes(t, i.callee, kinds) /\ "call-accept" \notin kinds
    /\ Me(t) = i.callee => CalleeDoes(t, i.caller, kinds)
    /\ t # TabOf[i.callerConn] /\ Me(t) # i.callee => Untouched(t)' /\ kinds = {}

LEMMA TabEffects ==
    ASSUME SessionInv, SocketsInUse, Counted, NEW i, InTable(i), NEW t \in Tabs, TabStep(t)
    PROVE  \E kinds \in SUBSET ({"call-accept", "media"} \cup Endings) : TabEffect(t, i, kinds)
<1> USE DEF SessionInv
<1> DEFINE u == i.caller
           v == i.callee
           ta == TabOf[i.callerConn]
<1>1. /\ ta \in Tabs /\ Me(ta) = u /\ u # v /\ u \in Users /\ v \in Users
      /\ UserOf[i.callerConn] = u
  BY Parties DEF CallInfo
<1>2. placed >= MaxCalls /\ Frames(u, v) /\ TabRoles(i.callerConn, v)
  BY DEF InTable, Late
<1>3. sock[t] \in Conns => UserOf[sock[t]] = Me(t)  BY SocketUser
<1>4. CASE t = ta
  <2>1. CallerTab(t, v)  BY <1>2, <1>4 DEF TabRoles
  <2>2. sock[t] \in Conns =>
          \A f \in Range(down[sock[t]]) : f.from = v /\ f.kind # "call-invite"
    BY <1>1, <1>2, <1>3, <1>4 DEF Frames, Traffic
  <2>3. PICK kinds \in SUBSET ({"media"} \cup Endings) : CallerDoes(t, v, kinds)
    BY <1>1, <1>2, <2>1, <2>2, CallerStep
  <2>4. "call-accept" \notin kinds  BY DEF Endings
  <2>5. Sends(t, kinds, v)  BY <2>3 DEF CallerDoes
  <2>6. TabEffect(t, i, kinds)
    BY <1>1, <1>4, <2>3, <2>4, <2>5 DEF TabEffect
  <2> QED  BY <2>6
<1>5. CASE Me(t) = v
  <2>1. t # ta /\ CalleeTab(t, u)  BY <1>1, <1>2, <1>5 DEF TabRoles
  <2>2. sock[t] \in Conns =>
          \A f \in Range(down[sock[t]]) : f.from = u /\ f.kind # "call-accept"
    BY <1>2, <1>3, <1>5 DEF Frames, Traffic
  <2>3. PICK kinds \in SUBSET ({"call-accept", "media"} \cup Endings) : CalleeDoes(t, u, kinds)
    BY <1>1, <1>2, <2>1, <2>2, CalleeStep
  <2>4. Sends(t, kinds, u)  BY <2>3 DEF CalleeDoes
  <2>5. TabEffect(t, i, kinds)  BY <1>5, <2>1, <2>3, <2>4 DEF TabEffect
  <2> QED  BY <2>5
<1>6. CASE t # ta /\ Me(t) # v
  <2>1. Untouched(t)  BY <1>2, <1>6 DEF TabRoles
  <2>2. sock[t] \in Conns => \A f \in Range(down[sock[t]]) : f.kind # "call-invite"
    <3>1. sock[t] \in Conns /\ Me(t) # u => down[sock[t]] = <<>>
      BY <1>2, <1>3, <1>6 DEF Frames
    <3>2. sock[t] \in Conns /\ Me(t) = u =>
            \A f \in Range(down[sock[t]]) : f.kind # "call-invite"
      BY <1>2, <1>3 DEF Frames, Traffic
    <3> QED  BY <3>1, <3>2, EmptyRange
  <2>3. Untouched(t)' /\ up' = up  BY <1>2, <2>1, <2>2, BystanderStep
  <2>4. Sends(t, {}, v)  BY <2>3, SendsNone
  <2>5. TabEffect(t, i, {})  BY <1>6, <2>3, <2>4 DEF TabEffect
  <2> QED  BY <2>5
<1> QED  BY <1>4, <1>5, <1>6

\* What a connection carries, after a step of the tab t.
LEMMA TabUps ==
    ASSUME SessionInv, SocketsInUse, NEW i, InTable(i), NEW t \in Tabs, NEW kinds,
           TabEffect(t, i, kinds), NEW d \in Conns, NEW f \in Range(up'[d])
    PROVE  \/ f \in Range(up[d])
           \/ /\ d = sock[t] /\ TabOf[d] = t /\ UserOf[d] = Me(t)
              /\ f.kind \in kinds
              /\ f.to = IF Me(t) = i.callee THEN i.caller ELSE i.callee
<1> DEFINE peer == IF Me(t) = i.callee THEN i.caller ELSE i.callee
<1>1. Range(up'[d]) = Range(up[d]) \cup
        {[kind |-> k, to |-> peer] : k \in {k \in kinds : d = sock[t] /\ d \notin broken}}
  BY DEF TabEffect, Sends
<1>2. CASE f \notin Range(up[d])
  <2>1. PICK k \in kinds : f = [kind |-> k, to |-> peer] /\ d = sock[t]  BY <1>1, <1>2
  <2>2. f.kind = k /\ f.to = peer  BY <2>1
  <2>3. UserOf[d] = Me(t) /\ TabOf[d] = t  BY <2>1, SocketUser DEF SessionInv
  <2> QED  BY <2>1, <2>2, <2>3
<1> QED  BY <1>2

LEMMA TabTraffic ==
    ASSUME SessionInv, SocketsInUse, NEW i, InTable(i), NEW t \in Tabs, TabStep(t),
           NEW kinds \in SUBSET ({"call-accept", "media"} \cup Endings),
           TabEffect(t, i, kinds)
    PROVE  Frames(i.caller, i.callee)' /\ NoStrayEnding(i)'
<1> DEFINE u == i.caller
           v == i.callee
           ta == TabOf[i.callerConn]
<1>1. u # v /\ Me(ta) = u  BY Parties
<1>2. Frames(u, v) /\ NoStrayEnding(i) /\ TabRoles(i.callerConn, v)  BY DEF InTable
<1>3. /\ UNCHANGED <<plan, finalized>> /\ \A d \in Conns : Planning(d)' <=> Planning(d)
  BY RelayKept DEF SessionInv, Inv
<1>4. \A d \in Conns : /\ down[d] = <<>> => down'[d] = <<>>
                       /\ Range(down'[d]) \subseteq Range(down[d])
  BY DownShrinks DEF SessionInv
<1>5. up' \in [Conns -> Seq(Ups)]  BY DEF TabEffect, Sends
<1>6. kinds # {} => t = ta \/ Me(t) = v  BY DEF TabEffect
<1>7. "call-invite" \notin kinds /\ (t = ta => "call-accept" \notin kinds)
  BY DEF TabEffect, Endings
<1>8. Frames(u, v)'
  <2> SUFFICES ASSUME NEW d \in Conns
               PROVE  /\ UserOf[d] = u => Traffic(d, v, "call-accept", "call-invite")'
                      /\ UserOf[d] = v => Traffic(d, u, "call-invite", "call-accept")'
                      /\ UserOf[d] \notin {u, v} => up'[d] = <<>> /\ down'[d] = <<>> /\ ~Planning(d)'
                      /\ finalized'[d] = {}
    BY DEF Frames
  <2>1. ASSUME UserOf[d] = u
        PROVE  \A f \in Range(up'[d]) : f.to = v /\ f.kind # "call-accept"
    <3>1. SUFFICES ASSUME NEW f \in Range(up'[d]), f \notin Range(up[d])
                   PROVE  f.to = v /\ f.kind # "call-accept"
      BY <1>2, <2>1 DEF Frames, Traffic
    <3>2. /\ UserOf[d] = Me(t) /\ f.kind \in kinds
          /\ f.to = IF Me(t) = v THEN u ELSE v
      BY <3>1, TabUps
    <3>3. Me(t) # v /\ t = ta  BY <1>1, <1>6, <2>1, <3>2
    <3> QED  BY <1>7, <3>2, <3>3
  <2>2. ASSUME UserOf[d] = v
        PROVE  \A f \in Range(up'[d]) : f.to = u /\ f.kind # "call-invite"
    <3>1. SUFFICES ASSUME NEW f \in Range(up'[d]), f \notin Range(up[d])
                   PROVE  f.to = u /\ f.kind # "call-invite"
      BY <1>2, <2>2 DEF Frames, Traffic
    <3>2. /\ UserOf[d] = Me(t) /\ f.kind \in kinds
          /\ f.to = IF Me(t) = v THEN u ELSE v
      BY <3>1, TabUps
    <3> QED  BY <1>7, <2>2, <3>2
  <2>3. ASSUME UserOf[d] \notin {u, v} PROVE up'[d] = <<>>
    <3>1. Range(up[d]) = {}  BY <1>2, <2>3, EmptyRange DEF Frames
    <3>2. ASSUME NEW f \in Range(up'[d]) PROVE FALSE
      <4>1. UserOf[d] = Me(t) /\ f.kind \in kinds  BY <3>1, <3>2, TabUps
      <4> QED  BY <1>1, <1>6, <2>3, <4>1
    <3> QED  BY <1>5, <3>2, EmptyIff
  <2> QED  BY <1>2, <1>3, <1>4, <2>1, <2>2, <2>3 DEF Frames, Traffic
<1>9. NoStrayEnding(i)'
  BY <1>2, <1>3, <1>4 DEF NoStrayEnding, Carries
<1> QED  BY <1>8, <1>9

LEMMA TabRolesKept ==
    ASSUME SessionInv, SocketsInUse, NEW i, InTable(i), NEW t \in Tabs, TabStep(t),
           NEW kinds, TabEffect(t, i, kinds)
    PROVE  TabRoles(i.callerConn, i.callee)'
<1> DEFINE u == i.caller
           v == i.callee
           ta == TabOf[i.callerConn]
<1>1. u # v /\ Me(ta) = u /\ ta \in Tabs /\ UserOf[i.callerConn] = u  BY Parties
<1>2. TabRoles(i.callerConn, v)  BY DEF InTable
<1>3. \A s \in Tabs \ {t} : SameTab(s)  BY OnlyThisTab DEF SessionInv
<1>4. CallerTab(ta, v)'
  <2>1. CASE t = ta  BY <2>1 DEF TabEffect, CallerDoes
  <2>2. CASE t # ta
    BY <1>1, <1>2, <1>3, <2>2 DEF TabRoles, CallerTab, InCallWith, SameTab
  <2> QED  BY <2>1, <2>2
<1>5. ASSUME NEW s \in Tabs \ {ta}
      PROVE  IF Me(s) = v THEN CalleeTab(s, u)' ELSE Untouched(s)'
  <2>1. CASE s = t  BY <1>5, <2>1 DEF TabEffect, CalleeDoes
  <2>2. CASE s # t
    BY <1>1, <1>2, <1>3, <2>2 DEF TabRoles, CalleeTab, Untouched, InCallWith, SameTab
  <2> QED  BY <2>1, <2>2
<1> QED  BY <1>1, <1>4, <1>5 DEF TabRoles

\* A party that is still sound after the step has neither sent nor heard an ending.
LEMMA TabSound ==
    ASSUME SessionInv, SocketsInUse, NEW i, InTable(i), NEW t \in Tabs, TabStep(t),
           NEW kinds, TabEffect(t, i, kinds), Sound(i)'
    PROVE  /\ Sound(i)
           /\ t = TabOf[i.callerConn] => kinds \cap Endings = {} /\ ~Heard(t, Endings)
           /\ i.connected /\ t = TabOf[i.calleeConn]
                => kinds \cap Endings = {} /\ ~Heard(t, Endings)
<1> DEFINE u == i.caller
           v == i.callee
           peer == IF Me(t) = v THEN u ELSE v
<1>1. /\ u # v /\ i.callerConn \in Conns /\ UserOf[i.callerConn] = u
      /\ i.callerConn \notin broken => sock[TabOf[i.callerConn]] = i.callerConn
      /\ i.connected => /\ i.calleeConn \in Conns /\ UserOf[i.calleeConn] = v
                        /\ i.calleeConn \notin broken => sock[TabOf[i.calleeConn]] = i.calleeConn
  BY Parties
<1>2. broken' = broken  BY OnlyThisTab DEF SessionInv, RelayIdle
<1>3. \A d \in Conns :
        Range(up'[d]) = Range(up[d]) \cup
          {[kind |-> k, to |-> peer] : k \in {k \in kinds : d = sock[t] /\ d \notin broken}}
  BY DEF TabEffect, Sends
<1>4. \A d \in Conns : d = sock[t] /\ d \notin broken /\ kinds \cap Endings # {}
        => Carries(up'[d], Endings)
  <2> SUFFICES ASSUME NEW d \in Conns, d = sock[t], d \notin broken,
                      NEW k \in kinds, k \in Endings
               PROVE  Carries(up'[d], Endings)
    OBVIOUS
  <2>1. [kind |-> k, to |-> peer] \in Range(up'[d])  BY <1>3
  <2> QED  BY <2>1 DEF Carries
<1>5. \A d \in Conns : ~Carries(up'[d], Endings) => ~Carries(up[d], Endings)
  BY <1>3 DEF Carries
<1>6. Sound(i)  BY <1>1, <1>2, <1>5 DEF Sound
<1>7. NoStrayEnding(i)  BY DEF InTable
<1>8. ASSUME t = TabOf[i.callerConn] PROVE kinds \cap Endings = {} /\ ~Heard(t, Endings)
  <2>1. sock[t] = i.callerConn /\ i.callerConn \notin broken
    BY <1>1, <1>2, <1>8 DEF Sound
  <2>2. kinds \cap Endings = {}  BY <1>1, <1>4, <2>1 DEF Sound
  <2>3. ~Heard(t, Endings)  BY <1>1, <1>7, <2>1 DEF Heard, NoStrayEnding
  <2> QED  BY <2>2, <2>3
<1>9. ASSUME i.connected, t = TabOf[i.calleeConn]
      PROVE  kinds \cap Endings = {} /\ ~Heard(t, Endings)
  <2>1. sock[t] = i.calleeConn /\ i.calleeConn \notin broken
    BY <1>1, <1>2, <1>9 DEF Sound
  <2>2. kinds \cap Endings = {}  BY <1>1, <1>4, <1>9, <2>1 DEF Sound
  <2>3. ~Heard(t, Endings)  BY <1>1, <1>7, <2>1 DEF Heard, NoStrayEnding
  <2> QED  BY <2>2, <2>3
<1> QED  BY <1>6, <1>8, <1>9

LEMMA TabStillRinging ==
    ASSUME SessionInv, SocketsInUse, NEW i, InTable(i), NEW t \in Tabs, TabStep(t),
           NEW kinds, TabEffect(t, i, kinds)
    PROVE  StillRinging(i)'
<1> SUFFICES ASSUME ~i.connected PROVE StillRinging(i)'
  BY DEF StillRinging
<1> DEFINE u == i.caller
           v == i.callee
           ta == TabOf[i.callerConn]
<1>1. /\ u # v /\ Me(ta) = u /\ ta \in Tabs /\ UserOf[i.callerConn] = u
      /\ i.callerConn \notin broken => sock[ta] = i.callerConn
  BY Parties
<1>2. StillRinging(i) /\ NoStrayEnding(i) /\ Answers(i) /\ Frames(u, v)  BY DEF InTable
<1>3. /\ \A s \in Tabs \ {t} : SameTab(s)
      /\ UNCHANGED <<plan, broken>> /\ \A d \in Conns : Planning(d)' <=> Planning(d)
  BY OnlyThisTab, RelayKept DEF SessionInv, Inv, RelayIdle
<1>4. \A d \in Conns : Range(down'[d]) \subseteq Range(down[d])
  BY DownShrinks DEF SessionInv
<1>5. Bare(ta)'
  <2>1. Bare(ta)  BY <1>2 DEF StillRinging, Bare
  <2>2. CASE t = ta
    <3>1. ~Heard(t, {"call-accept"})
      BY <1>2 DEF StillRinging, Heard
    <3> QED  BY <2>1, <2>2, <3>1 DEF TabEffect, CallerDoes
  <2>3. CASE t # ta  BY <1>1, <1>3, <2>1, <2>3 DEF SameTab, Bare
  <2> QED  BY <2>2, <2>3
<1>6. ASSUME NEW d \in Conns
      PROVE  /\ ~Carries(down'[d], {"call-accept"})
             /\ Planning(d)' => plan'[d].kind # "call-accept"
  BY <1>2, <1>3, <1>4 DEF StillRinging, Carries
<1>7. ASSUME Sound(i)', NEW d \in Conns, d \notin broken', UserOf[d] = v,
             Carries(up'[d], {"call-accept"}), ~Carries(up'[d], Endings)
      PROVE  Shows(TabOf[d], u)'
  <2>0. Sound(i)  BY <1>7, TabSound
  <2>1. d \notin broken /\ TabOf[d] \in Tabs /\ Me(TabOf[d]) = v
    BY <1>3, <1>7, TabOfType, MyUser
  <2>2. \A f \in Range(up[d]) : f \in Range(up'[d])  BY DEF TabEffect, Sends
  <2>3. ~Carries(up[d], Endings)  BY <1>7, <2>2 DEF Carries
  <2>4. CASE Carries(up[d], {"call-accept"})
    <3>1. Shows(TabOf[d], u)  BY <1>2, <1>7, <2>0, <2>1, <2>3, <2>4 DEF StillRinging
    <3>2. CASE TabOf[d] # t  BY <1>3, <2>1, <3>1, <3>2 DEF SameTab, Shows
    <3>3. CASE TabOf[d] = t
      <4>1. CalleeDoes(t, u, kinds)  BY <2>1, <3>3 DEF TabEffect
      <4>2. ~Alone(t)  BY <2>0, <2>1, <3>3, NotAlone
      <4>3. ~Heard(t, Endings)  BY <1>2 DEF NoStrayEnding, Heard
      <4>4. sock[t] = d
        <5>1. up[d] # <<>>  BY <2>4, EmptyRange DEF Carries
        <5> QED  BY <2>1, <3>3, <5>1 DEF SocketsInUse
      <4>5. kinds \cap Endings = {}
        <5>1. \A k \in kinds : [kind |-> k, to |-> u] \in Range(up'[d])
          BY <2>1, <3>3, <4>4 DEF TabEffect, Sends
        <5> QED  BY <1>7, <5>1 DEF Carries
      <4> QED  BY <3>1, <3>3, <4>1, <4>2, <4>3, <4>5 DEF CalleeDoes
    <3> QED  BY <3>2, <3>3
  <2>5. CASE ~Carries(up[d], {"call-accept"})
    <3>1. PICK f \in Range(up'[d]) : f.kind = "call-accept" /\ f \notin Range(up[d])
      BY <1>7, <2>5 DEF Carries
    <3>2. TabOf[d] = t /\ "call-accept" \in kinds  BY <3>1, TabUps
    <3>3. CalleeDoes(t, u, kinds)  BY <2>1, <3>2 DEF TabEffect
    <3> QED  BY <3>2, <3>3 DEF CalleeDoes
  <2> QED  BY <2>4, <2>5
<1> QED  BY <1>5, <1>6, <1>7 DEF StillRinging, Bare

LEMMA TabAnswers ==
    ASSUME SessionInv, SocketsInUse, NEW i, InTable(i), NEW t \in Tabs, TabStep(t),
           NEW kinds, TabEffect(t, i, kinds)
    PROVE  Answers(i)'
<1> SUFFICES ASSUME Sound(i)'
             PROVE  /\ Dials(TabOf[i.callerConn], i.callee)'
                    /\ i.connected => Shows(TabOf[i.calleeConn], i.caller)'
                    /\ MediaOut(i)' => pcRef'[TabOf[i.callerConn]].peer = i.callee
  BY DEF Answers
<1> DEFINE u == i.caller
           v == i.callee
           ta == TabOf[i.callerConn]
<1>1. /\ u # v /\ Me(ta) = u /\ ta \in Tabs
      /\ i.connected => TabOf[i.calleeConn] \in Tabs /\ Me(TabOf[i.calleeConn]) = v
  BY Parties
<1>2. /\ Sound(i)
      /\ t = ta => kinds \cap Endings = {} /\ ~Heard(t, Endings)
      /\ i.connected /\ t = TabOf[i.calleeConn]
           => kinds \cap Endings = {} /\ ~Heard(t, Endings)
  BY TabSound
<1>3. t = ta \/ Me(t) = v => ~Alone(t)  BY <1>2, NotAlone
<1>4. /\ Dials(ta, v) /\ (i.connected => Shows(TabOf[i.calleeConn], u))
      /\ MediaOut(i) => pcRef[ta].peer = v
  BY <1>2 DEF InTable, Answers
<1>5. /\ \A s \in Tabs \ {t} : SameTab(s)
      /\ UNCHANGED plan /\ \A d \in Conns : Planning(d)' <=> Planning(d)
  BY OnlyThisTab, RelayKept DEF SessionInv, Inv
<1>6. \A d \in Conns : Range(down'[d]) \subseteq Range(down[d])
  BY DownShrinks DEF SessionInv
<1>7. Dials(ta, v)' /\ (pcRef[ta].peer = v => pcRef'[ta].peer = v)
  <2>1. CASE t = ta
    BY <1>2, <1>3, <1>4, <2>1 DEF TabEffect, CallerDoes
  <2>2. CASE t # ta
    BY <1>1, <1>4, <1>5, <2>2 DEF SameTab, Dials
  <2> QED  BY <2>1, <2>2
<1>8. ASSUME i.connected PROVE Shows(TabOf[i.calleeConn], u)'
  <2>1. CASE t = TabOf[i.calleeConn]
    BY <1>1, <1>2, <1>3, <1>4, <1>8, <2>1 DEF TabEffect, CalleeDoes
  <2>2. CASE t # TabOf[i.calleeConn]
    BY <1>1, <1>4, <1>5, <1>8, <2>2 DEF SameTab, Shows
  <2> QED  BY <2>1, <2>2
<1>9. ASSUME MediaOut(i)' PROVE pcRef'[ta].peer = v
  <2>1. CASE MediaOut(i)  BY <1>4, <1>7, <2>1
  <2>2. CASE ~MediaOut(i)
    <3>1. \A d \in Conns : UserOf[d] = v => ~Carries(down'[d], {"media"})
      BY <1>6, <2>2 DEF MediaOut, Carries
    <3>2. ASSUME NEW s \in Tabs, Me(s) = v, linked'[s] # {} PROVE FALSE
      <4>1. linked[s] = {}  BY <2>2, <3>2 DEF MediaOut
      <4>2. s = t  BY <1>5, <3>2, <4>1 DEF SameTab
      <4>3. Heard(t, {"media"})  BY <3>2, <4>1, <4>2 DEF TabEffect, CalleeDoes
      <4>4. UserOf[sock[t]] = v
        BY <3>2, <4>2, <4>3, SocketUser DEF Heard, SessionInv
      <4> QED  BY <2>2, <4>3, <4>4 DEF Heard, MediaOut
    <3>3. PICK d \in Conns : UserOf[d] = u /\ Carries(up'[d], {"media"}) /\ ~Carries(up[d], {"media"})
      BY <1>5, <1>9, <2>2, <3>1, <3>2 DEF MediaOut
    <3>4. PICK f \in Range(up'[d]) : f.kind = "media" /\ f \notin Range(up[d])
      BY <3>3 DEF Carries
    <3>5. Me(t) = u /\ "media" \in kinds  BY <3>3, <3>4, TabUps
    <3>6. t = ta  BY <1>1, <3>5 DEF TabEffect
    <3> QED  BY <3>5, <3>6 DEF TabEffect, CallerDoes
  <2> QED  BY <2>1, <2>2
<1> QED  BY <1>7, <1>8, <1>9

\* What the tabs do by themselves keeps to the call.
LEMMA TabKeepsCall ==
    ASSUME SessionInv, SocketsInUse, Counted, NEW i, InTable(i), NEW t \in Tabs, TabStep(t)
    PROVE  InTable(i)'
<1>1. PICK kinds \in SUBSET ({"call-accept", "media"} \cup Endings) : TabEffect(t, i, kinds)
  BY TabEffects
<1>2. calls' = calls  BY RelayKept DEF SessionInv, Inv
<1>3. Late'
  <2>1. [SessionNext]_sessionVars  BY DEF TabStep, SessionNext, UserStep, ClientStep
  <2> QED  BY <2>1, LateStep DEF InTable
<1> QED  BY <1>1, <1>2, <1>3, TabTraffic, TabRolesKept, TabStillRinging, TabAnswers DEF InTable

\* A frame that may be on its way to the connection d while the relay tracks the call.
Fitting(i, d, f) ==
    /\ \/ UserOf[d] = i.caller /\ f.from = i.callee /\ f.kind # "call-invite"
       \/ UserOf[d] = i.callee /\ f.from = i.caller /\ f.kind # "call-accept"
    /\ f.kind \in Endings => i.connected /\ UserOf[d] = i.callee /\ d # i.calleeConn
    /\ f.kind = "call-accept" => i.connected
    /\ f.kind = "media" /\ UserOf[d] = i.callee => MediaOut(i)

\* A step that puts such frames in mailboxes at most, loses others, closes a tab or
\* gets on with a plan leaves the call as it is.
QuietStep(i) ==
    /\ calls' = calls /\ Late' /\ broken \subseteq broken'
    /\ \A d \in Conns :
         /\ finalized'[d] = {}
         /\ Planning(d)' => Planning(d) /\ plan'[d] = plan[d]
         /\ up'[d] = up[d] \/ (up'[d] = <<>> /\ d \in broken')
         /\ UserOf[d] \notin {i.caller, i.callee} => down'[d] = <<>>
         /\ \A f \in Range(down'[d]) : f \in Range(down[d]) \/ Fitting(i, d, f)
    /\ \A s \in Tabs :
         SameTab(s) \/ (Untouched(s)' /\ \A d \in Conns : TabOf[d] = s => d \in broken')

LEMMA QuietKeepsCall ==
    ASSUME SessionInv, SocketsInUse, NEW i, InTable(i), QuietStep(i)
    PROVE  InTable(i)'
<1> DEFINE u == i.caller
           v == i.callee
           c == i.callerConn
           ta == TabOf[c]
<1>1. /\ u # v /\ Me(ta) = u /\ ta \in Tabs /\ c \in Conns /\ UserOf[c] = u
      /\ i.connected => /\ i.calleeConn \in Conns /\ UserOf[i.calleeConn] = v
                        /\ TabOf[i.calleeConn] \in Tabs
  BY Parties
<1>2. /\ TabRoles(c, v) /\ Frames(u, v) /\ NoStrayEnding(i) /\ StillRinging(i)
      /\ Answers(i) /\ calls = {i}
  BY DEF InTable
<1>3. \A s \in Tabs :
        SameTab(s) \/ (Untouched(s)' /\ \A d \in Conns : TabOf[d] = s => d \in broken')
  BY DEF QuietStep
<1>4. \A d \in Conns : /\ Range(up'[d]) \subseteq Range(up[d])
                       /\ d \notin broken' => up'[d] = up[d] /\ SameTab(TabOf[d]) /\ d \notin broken
  <2>1. \A d \in Conns : /\ up'[d] = up[d] \/ (up'[d] = <<>> /\ d \in broken')
                         /\ d \in broken => d \in broken'
    BY DEF QuietStep
  <2> QED  BY <1>3, <2>1, EmptyRange, TabOfType
<1>5. \A d \in Conns :
        /\ finalized'[d] = {}
        /\ Planning(d)' => Planning(d) /\ plan'[d] = plan[d]
        /\ UserOf[d] \notin {u, v} => down'[d] = <<>>
        /\ \A f \in Range(down'[d]) : f \in Range(down[d]) \/ Fitting(i, d, f)
  BY DEF QuietStep
<1>6. Sound(i)' => /\ Sound(i) /\ SameTab(ta)
                   /\ i.connected => SameTab(TabOf[i.calleeConn])
  BY <1>1, <1>4 DEF Sound
<1>7. TabRoles(c, v)'
  <2>1. CallerTab(ta, v)'
    BY <1>1, <1>2, <1>3 DEF TabRoles, CallerTab, InCallWith, SameTab, Untouched
  <2>2. ASSUME NEW s \in Tabs \ {ta}
        PROVE  IF Me(s) = v THEN CalleeTab(s, u)' ELSE Untouched(s)'
    <3>1. IF Me(s) = v THEN CalleeTab(s, u) ELSE Untouched(s)
      BY <1>1, <1>2 DEF TabRoles
    <3> QED  BY <1>3, <3>1 DEF CalleeTab, InCallWith, SameTab, Untouched
  <2> QED  BY <1>1, <2>1, <2>2 DEF TabRoles
<1>8. Frames(u, v)'
  <2> SUFFICES ASSUME NEW d \in Conns
               PROVE  /\ UserOf[d] = u => Traffic(d, v, "call-accept", "call-invite")'
                      /\ UserOf[d] = v => Traffic(d, u, "call-invite", "call-accept")'
                      /\ UserOf[d] \notin {u, v} => up'[d] = <<>> /\ down'[d] = <<>> /\ ~Planning(d)'
                      /\ finalized'[d] = {}
    BY DEF Frames
  <2>1. UserOf[d] \notin {u, v} => up'[d] = <<>>
    BY <1>2 DEF Frames, QuietStep
  <2>2. ASSUME UserOf[d] = u
        PROVE  \A f \in Range(down'[d]) : f.from = v /\ f.kind # "call-invite"
    BY <1>1, <1>2, <1>5, <2>2 DEF Frames, Traffic, Fitting
  <2>3. ASSUME UserOf[d] = v
        PROVE  \A f \in Range(down'[d]) : f.from = u /\ f.kind # "call-accept"
    BY <1>1, <1>2, <1>5, <2>3 DEF Frames, Traffic, Fitting
  <2> QED  BY <1>2, <1>4, <1>5, <2>1, <2>2, <2>3 DEF Frames, Traffic
<1>9. NoStrayEnding(i)'
  BY <1>2, <1>5 DEF NoStrayEnding, Carries, Fitting
<1>10. StillRinging(i)'
  <2> SUFFICES ASSUME ~i.connected PROVE StillRinging(i)'
    BY DEF StillRinging
  <2>1. jobs'[ta] = {} /\ pcRef'[ta] = NoPc /\ linked'[ta] = {}
    BY <1>1, <1>2, <1>3 DEF StillRinging, SameTab, Untouched
  <2>2. ASSUME NEW d \in Conns
        PROVE  /\ ~Carries(down'[d], {"call-accept"})
               /\ Planning(d)' => plan'[d].kind # "call-accept"
    BY <1>2, <1>5 DEF StillRinging, Carries, Fitting
  <2>3. ASSUME Sound(i)', NEW d \in Conns, d \notin broken', UserOf[d] = v,
               Carries(up'[d], {"call-accept"})
        PROVE  Carries(up'[d], Endings) \/ Shows(TabOf[d], u)'
    <3>1. up'[d] = up[d] /\ SameTab(TabOf[d]) /\ d \notin broken  BY <1>4, <2>3
    <3>2. Carries(up[d], Endings) \/ Shows(TabOf[d], u)
      BY <1>2, <1>6, <2>3, <3>1 DEF StillRinging
    <3> QED  BY <3>1, <3>2 DEF SameTab, Shows
  <2> QED  BY <2>1, <2>2, <2>3 DEF StillRinging
<1>11. Answers(i)'
  <2> SUFFICES ASSUME Sound(i)'
               PROVE  /\ Dials(ta, v)' /\ (i.connected => Shows(TabOf[i.calleeConn], u)')
                      /\ MediaOut(i)' => pcRef'[ta].peer = v
    BY DEF Answers
  <2>1. /\ Dials(ta, v) /\ (i.connected => Shows(TabOf[i.calleeConn], u))
        /\ MediaOut(i) => pcRef[ta].peer = v
    BY <1>2, <1>6 DEF Answers
  <2>2. MediaOut(i)' => MediaOut(i)
    <3>1. ASSUME NEW d \in Conns, UserOf[d] = u,
                 Carries(up'[d], {"media"}) \/ (Planning(d)' /\ plan'[d].kind = "media")
          PROVE  MediaOut(i)
      BY <1>4, <1>5, <3>1 DEF MediaOut, Carries
    <3>2. ASSUME NEW d \in Conns, UserOf[d] = v, Carries(down'[d], {"media"})
          PROVE  MediaOut(i)
      <4>1. PICK f \in Range(down'[d]) : f.kind = "media"  BY <3>2 DEF Carries
      <4>2. CASE f \in Range(down[d])  BY <3>2, <4>1, <4>2 DEF MediaOut, Carries
      <4>3. CASE Fitting(i, d, f)  BY <3>2, <4>1, <4>3 DEF Fitting
      <4> QED  BY <1>5, <4>2, <4>3
    <3>3. ASSUME NEW s \in Tabs, Me(s) = v, linked'[s] # {} PROVE MediaOut(i)
      <4>1. linked[s] # {}  BY <1>3, <3>3 DEF SameTab, Untouched
      <4> QED  BY <3>3, <4>1 DEF MediaOut
    <3> QED  BY <3>1, <3>2, <3>3 DEF MediaOut
  <2>3. Dials(ta, v)'  BY <1>6, <2>1 DEF SameTab, Dials
  <2>4. i.connected => Shows(TabOf[i.calleeConn], u)'  BY <1>6, <2>1 DEF SameTab, Shows
  <2>5. pcRef'[ta] = pcRef[ta]  BY <1>6 DEF SameTab
  <2> QED  BY <2>1, <2>2, <2>3, <2>4, <2>5
<1> QED  BY <1>2, <1>7, <1>8, <1>9, <1>10, <1>11 DEF InTable, QuietStep

\* What happens to sockets and tabs from outside keeps to the call.
LEMMA OutsideKeepsCall ==
    ASSUME SessionInv, SocketsInUse, NEW i, InTable(i), Late',
           \/ \E t \in Tabs : Connect(t) \/ OnClose(t) \/ CloseTab(t)
           \/ \E c \in Conns : Break(c)
           \/ UNCHANGED sessionVars
    PROVE  InTable(i)'
<1> USE DEF SessionInv
<1>1. Frames(i.caller, i.callee)  BY DEF InTable
<1>2. /\ UNCHANGED <<calls, plan, finalized>>
      /\ \A d \in Conns : Planning(d)' <=> Planning(d)
  BY RelayKept DEF Inv
<1>3. ASSUME broken \subseteq broken',
             \A d \in Conns : /\ up'[d] = up[d] \/ (up'[d] = <<>> /\ d \in broken')
                              /\ down'[d] = down[d] \/ down'[d] = <<>>,
             \A s \in Tabs : SameTab(s) \/
                (Untouched(s)' /\ \A d \in Conns : TabOf[d] = s => d \in broken')
      PROVE  InTable(i)'
  BY <1>1, <1>2, <1>3, EmptyRange, QuietKeepsCall DEF QuietStep, Frames
<1>4. ASSUME UNCHANGED <<broken, up, down, clientVars>> PROVE InTable(i)'
  <2>1. \A s \in Tabs : SameTab(s)  BY <1>4 DEF clientVars, SameTab
  <2> QED  BY <1>3, <1>4, <2>1
<1>5. ASSUME NEW t \in Tabs, CloseTab(t) PROVE InTable(i)'
  <2>1. /\ UNCHANGED up /\ broken' = broken \cup {d \in Conns : TabOf[d] = t}
        /\ Untouched(t)' /\ \A s \in Tabs \ {t} : SameTab(s)
        /\ \A d \in Conns : down'[d] = down[d] \/ down'[d] = <<>>
    BY <1>5 DEF CloseTab, SessionOwn, Untouched, SameTab
  <2> QED  BY <1>3, <2>1
<1>6. ASSUME NEW c \in Conns, Break(c) PROVE InTable(i)'
  <2>1. /\ broken' = broken \cup {c} /\ UNCHANGED clientVars
        /\ \A d \in Conns : /\ up'[d] = up[d] \/ (up'[d] = <<>> /\ d \in broken')
                            /\ down'[d] = down[d] \/ down'[d] = <<>>
    BY <1>6 DEF Break, SessionOwn
  <2>2. \A s \in Tabs : SameTab(s)  BY <2>1 DEF clientVars, SameTab
  <2> QED  BY <1>3, <2>1, <2>2
<1>7. (\E t \in Tabs : Connect(t) \/ OnClose(t)) \/ UNCHANGED sessionVars
        => UNCHANGED <<broken, up, down, clientVars>>
  BY DEF Connect, OnClose, sessionVars, netVars, clientVars
<1> QED  BY <1>4, <1>5, <1>6, <1>7

\* What the head of a queue says while the relay tracks the call.
LEMMA CallHead ==
    ASSUME SessionInv, NEW i, InTable(i), NEW c \in Conns, up[c] # <<>>
    PROVE  LET f == Head(up[c]) IN
             /\ f \in Range(up[c]) /\ f.kind \in Kinds \ {"call-invite"} /\ f.to \in Users
             /\ \/ UserOf[c] = i.caller /\ f.to = i.callee /\ f.kind # "call-accept"
                \/ UserOf[c] = i.callee /\ f.to = i.caller
             /\ Tracked(UserOf[c], f.to) = {i}
             /\ Range(up[c]) = {f} \cup Range(Tail(up[c]))
<1> DEFINE f == Head(up[c])
<1>1. up[c] \in Seq(Ups)  BY DEF SessionInv, SessionOwn
<1>2. Range(up[c]) = {f} \cup Range(Tail(up[c]))  BY <1>1, HeadRange
<1>3. f.kind \in Kinds /\ f.to \in Users  BY HeadOfUp DEF SessionInv
<1> HIDE DEF f
<1>4. f.kind # "call-invite"  BY <1>2 DEF InTable, Late, Carries
<1>5. \/ UserOf[c] = i.caller /\ f.to = i.callee /\ f.kind # "call-accept"
      \/ UserOf[c] = i.callee /\ f.to = i.caller
  BY <1>2 DEF InTable, Frames, Traffic
<1>6. Tracked(UserOf[c], f.to) = {i}
  BY <1>5 DEF InTable, Tracked
<1> QED  BY <1>2, <1>3, <1>4, <1>5, <1>6 DEF f

\* What plan_signal makes of it, unless it resolves the call: it leaves the call as it
\* is, or takes the first accept.
Unmoved(i, c, kind, p) ==
    /\ ~p.cancelMyOthers
    /\ p.cancelMe => i.connected /\ UserOf[c] = i.callee /\ c # i.calleeConn
    /\ kind \in Endings => p.forward.type = "Nowhere" /\ ~IsMyConn(i, UserOf[c], c)
    /\ kind = "call-accept" => i.connected

Taken(i, c, kind, p, j) ==
    /\ kind = "call-accept" /\ UserOf[c] = i.callee /\ ~i.connected
    /\ j.caller = i.caller /\ j.callee = i.callee /\ j.callerConn = i.callerConn
    /\ j.calleeConn = c /\ j.connected /\ ~p.cancelMe

LEMMA SignalOutcome ==
    ASSUME SessionInv, SocketsInUse, NEW i, InTable(i), NEW c \in Conns, Receive(c), calls' # {}
    PROVE  LET f == Head(up[c]) IN
             \E j, p :
               /\ calls' = {j} /\ pc' = [pc EXCEPT ![c] = "planned"]
               /\ plan' = [plan EXCEPT ![c] = p] /\ p.kind = f.kind /\ p.to = f.to
               /\ (j = i /\ Unmoved(i, c, f.kind, p)) \/ Taken(i, c, f.kind, p, j)
<1> DEFINE kind == Head(up[c]).kind
           to == Head(up[c]).to
<1>1. up[c] # <<>> /\ PlanSignal(c, kind, to)  BY DEF Receive
<1>2. /\ kind \in Kinds \ {"call-invite"} /\ to \in Users /\ Tracked(UserOf[c], to) = {i}
      /\ \/ UserOf[c] = i.caller /\ to = i.callee /\ kind # "call-accept"
         \/ UserOf[c] = i.callee /\ to = i.caller
  BY <1>1, CallHead
<1>3. /\ calls = {i} /\ i \in CallInfo /\ (i.connected <=> i.calleeConn # NoConn)
      /\ i.caller # i.callee
  BY Parties DEF InTable
<1> HIDE DEF kind, to
<1>4. PlanTracked(c, kind, to, i)  BY <1>1, <1>2 DEF PlanSignal, PlanUntracked
<1>5. ASSUME NEW p, Planned(c, p, calls, {}), p.kind = kind, p.to = to, Unmoved(i, c, kind, p)
      PROVE  /\ calls' = {i} /\ pc' = [pc EXCEPT ![c] = "planned"]
             /\ plan' = [plan EXCEPT ![c] = p]
  BY <1>3, <1>5 DEF Planned
<1>6. CASE kind = "call-accept"
  <2>1. UserOf[c] = i.callee /\ PlanAccept(c, to, i)
    BY <1>2, <1>4, <1>6 DEF PlanTracked, Endings
  <2>2. CASE i.calleeConn = NoConn
    <3> DEFINE p == [JustForward("call-accept", to, RouteTo(i, to))
                       EXCEPT !.cancelMyOthers = TRUE]
               j == [i EXCEPT !.calleeConn = c, !.connected = TRUE]
    <3>1. Planned(c, p, (calls \ {i}) \cup {j}, {})
      BY <2>1, <2>2, NoConnAssumption DEF PlanAccept
    <3>2. p.kind = kind /\ p.to = to /\ ~p.cancelMe  BY <1>6 DEF JustForward
    <3>3. Taken(i, c, kind, p, j)
      BY <1>3, <1>6, <2>1, <2>2, <3>2 DEF Taken, CallInfo
    <3> HIDE DEF p, j
    <3>4. /\ calls' = {j} /\ pc' = [pc EXCEPT ![c] = "planned"]
          /\ plan' = [plan EXCEPT ![c] = p]
      BY <1>3, <3>1 DEF Planned
    <3> QED  BY <3>2, <3>3, <3>4 DEF kind, to
  <2>3. CASE i.calleeConn = c
    <3> DEFINE p == JustForward("call-accept", to, RouteTo(i, to))
    <3>1. Planned(c, p, calls, {})  BY <2>1, <2>3, NoConnAssumption DEF PlanAccept
    <3>2. p.kind = kind /\ p.to = to /\ ~p.cancelMe /\ ~p.cancelMyOthers
      BY <1>6 DEF JustForward
    <3>3. Unmoved(i, c, kind, p)
      BY <1>3, <1>6, <2>3, <3>2, NoConnAssumption DEF Unmoved, Endings
    <3> HIDE DEF p
    <3> QED  BY <1>5, <3>1, <3>2, <3>3 DEF kind, to
  <2>4. CASE i.calleeConn \notin {NoConn, c}
    <3> DEFINE p == [JustForward("call-accept", to, Nowhere(to)) EXCEPT !.cancelMe = TRUE]
    <3>1. Planned(c, p, calls, {})  BY <2>1, <2>4 DEF PlanAccept
    <3>2. p.kind = kind /\ p.to = to /\ ~p.cancelMyOthers
      BY <1>6 DEF JustForward
    <3>3. Unmoved(i, c, kind, p)
      BY <1>3, <1>6, <2>1, <2>4, <3>2 DEF Unmoved, Endings
    <3> HIDE DEF p
    <3> QED  BY <1>5, <3>1, <3>2, <3>3 DEF kind, to
  <2> QED  BY <2>2, <2>3, <2>4
<1>7. CASE kind \in Endings
  <2>1. PlanEnding(c, kind, to, i)  BY <1>4, <1>7 DEF PlanTracked, Endings
  <2>2. ~IsMyConn(i, UserOf[c], c)
    BY <1>3, <2>1 DEF PlanEnding, Planned
  <2> DEFINE p == JustForward(kind, to, Nowhere(to))
  <2>3. Planned(c, p, calls, {})  BY <2>1, <2>2 DEF PlanEnding
  <2>4. /\ p.kind = kind /\ p.to = to /\ ~p.cancelMe /\ ~p.cancelMyOthers
        /\ p.forward.type = "Nowhere"
    BY DEF JustForward, Nowhere
  <2>5. Unmoved(i, c, kind, p)  BY <1>7, <2>2, <2>4 DEF Unmoved, Endings
  <2> HIDE DEF p
  <2> QED  BY <1>5, <2>3, <2>4, <2>5 DEF kind, to
<1>8. CASE kind = "media"
  <2>1. PlanMedia(c, kind, to, i)  BY <1>4, <1>8 DEF PlanTracked, Endings
  <2> DEFINE p == JustForward(kind, to, IF IsMyConn(i, UserOf[c], c)
                                        THEN RouteTo(i, to) ELSE Nowhere(to))
  <2>2. Planned(c, p, calls, {})  BY <2>1 DEF PlanMedia
  <2>3. p.kind = kind /\ p.to = to /\ ~p.cancelMe /\ ~p.cancelMyOthers
    BY DEF JustForward
  <2>4. Unmoved(i, c, kind, p)  BY <1>8, <2>3 DEF Unmoved, Endings
  <2> HIDE DEF p
  <2> QED  BY <1>5, <2>2, <2>3, <2>4 DEF kind, to
<1> QED  BY <1>2, <1>6, <1>7, <1>8 DEF Kinds, Endings

\* Receiving a frame keeps to the call, answers it or resolves it.
LEMMA ReceiveKeepsCall ==
    ASSUME SessionInv, SocketsInUse, NEW i, InTable(i), Late', NEW c \in Conns, Receive(c),
           calls' # {}
    PROVE  \E j \in calls' : InTable(j)'
<1> USE DEF SessionInv
<1> DEFINE f == Head(up[c])
           u == i.caller
           v == i.callee
           ca == i.callerConn
<1>1. PICK j, p :
        /\ calls' = {j} /\ pc' = [pc EXCEPT ![c] = "planned"]
        /\ plan' = [plan EXCEPT ![c] = p] /\ p.kind = f.kind /\ p.to = f.to
        /\ (j = i /\ Unmoved(i, c, f.kind, p)) \/ Taken(i, c, f.kind, p, j)
  BY SignalOutcome
<1>2. /\ up[c] # <<>> /\ up' = [up EXCEPT ![c] = Tail(up[c])]
      /\ UNCHANGED <<finalized, sock, broken, down, clientVars>>
  BY DEF Receive, PlanSignal
<1>3. /\ f \in Range(up[c]) /\ f.kind \in Kinds \ {"call-invite"}
      /\ \/ UserOf[c] = u /\ f.to = v /\ f.kind # "call-accept"
         \/ UserOf[c] = v /\ f.to = u
      /\ Range(up[c]) = {f} \cup Range(Tail(up[c]))
  BY <1>2, CallHead
<1> HIDE DEF f
<1>4. /\ u # v /\ ca \in Conns /\ UserOf[ca] = u
      /\ i.connected <=> i.calleeConn # NoConn
      /\ i.connected => i.calleeConn \in Conns /\ UserOf[i.calleeConn] = v
  BY Parties
<1>5. /\ TabRoles(ca, v) /\ Frames(u, v) /\ NoStrayEnding(i) /\ StillRinging(i)
      /\ Answers(i)
  BY DEF InTable
<1>6. j.caller = u /\ j.callee = v /\ j.callerConn = ca
  BY <1>1 DEF Taken
<1>7. /\ \A d \in Conns : Range(up'[d]) \subseteq Range(up[d])
      /\ \A d \in Conns \ {c} : up'[d] = up[d] /\ plan'[d] = plan[d] /\ (Planning(d)' <=> Planning(d))
      /\ Range(up[c]) = {f} \cup Range(up'[c]) /\ plan'[c] = p /\ down' = down /\ broken' = broken
      /\ up[c] = <<>> => up'[c] = <<>>
  BY <1>1, <1>2, <1>3 DEF SessionOwn, Inv, TypeOK, Planning
<1>8. /\ ui' = ui /\ jobs' = jobs /\ pcRef' = pcRef /\ linked' = linked /\ timer' = timer
      /\ \A s \in Tabs : \A x : Shows(s, x)' = Shows(s, x) /\ Dials(s, x)' = Dials(s, x)
  BY <1>2 DEF clientVars, Shows, Dials
<1>9. TabRoles(ca, v)'
  BY <1>5, <1>8 DEF TabRoles, CallerTab, CalleeTab, InCallWith, Untouched
<1>10. Frames(u, v)'
  <2> SUFFICES ASSUME NEW d \in Conns
               PROVE  /\ UserOf[d] = u => Traffic(d, v, "call-accept", "call-invite")'
                      /\ UserOf[d] = v => Traffic(d, u, "call-invite", "call-accept")'
                      /\ UserOf[d] \notin {u, v} => up'[d] = <<>> /\ down'[d] = <<>> /\ ~Planning(d)'
                      /\ finalized'[d] = {}
    BY DEF Frames
  <2>1. CASE d = c
    BY <1>1, <1>2, <1>3, <1>4, <1>5, <1>7, <2>1 DEF Frames, Traffic
  <2>2. CASE d # c
    BY <1>2, <1>5, <1>7, <2>2 DEF Frames, Traffic
  <2> QED  BY <2>1, <2>2
\* The media that is out was out before.
<1>11. MediaOut(j)' => MediaOut(i)
  <2>1. ASSUME NEW d \in Conns, UserOf[d] = u,
               Carries(up'[d], {"media"}) \/ (Planning(d)' /\ plan'[d].kind = "media")
        PROVE  MediaOut(i)
    <3>1. CASE Carries(up'[d], {"media"})  BY <1>7, <2>1, <3>1 DEF MediaOut, Carries
    <3>2. CASE d = c /\ plan'[d].kind = "media"
      BY <1>1, <1>3, <1>7, <2>1, <3>2 DEF MediaOut, Carries
    <3>3. CASE d # c /\ Planning(d)' /\ plan'[d].kind = "media"
      BY <1>7, <2>1, <3>3 DEF MediaOut
    <3> QED  BY <2>1, <3>1, <3>2, <3>3
  <2> QED  BY <1>6, <1>7, <1>8, <2>1 DEF MediaOut
<1>12. CASE j = i /\ Unmoved(i, c, f.kind, p)
  <2>1. NoStrayEnding(i)'
    <3>1. \A d \in Conns : Carries(down'[d], Endings) =>
            i.connected /\ UserOf[d] = v /\ d # i.calleeConn
      BY <1>5, <1>7 DEF NoStrayEnding
    <3>2. ASSUME NEW d \in Conns, Planning(d)'
          PROVE  /\ plan'[d].kind \in Endings => plan'[d].forward.type = "Nowhere"
                 /\ plan'[d].cancelMyOthers => i.connected /\ d = i.calleeConn
                 /\ plan'[d].cancelMe => i.connected /\ UserOf[d] = v /\ d # i.calleeConn
      <4>1. CASE d = c  BY <1>1, <1>7, <1>12, <4>1 DEF Unmoved
      <4>2. CASE d # c  BY <1>5, <1>7, <3>2, <4>2 DEF NoStrayEnding
      <4> QED  BY <4>1, <4>2
    <3> QED  BY <3>1, <3>2 DEF NoStrayEnding
\* An ending of one of the two connections would have resolved the call.
  <2>2. \A d \in Conns : /\ d = ca \/ (i.connected /\ d = i.calleeConn)
                              \/ (~i.connected /\ UserOf[d] = v)
                         /\ Carries(up[d], Endings)
                         => Carries(up'[d], Endings)
    <3> SUFFICES ASSUME NEW d \in Conns,
                        d = ca \/ (i.connected /\ d = i.calleeConn)
                          \/ (~i.connected /\ UserOf[d] = v),
                        Carries(up[d], Endings)
                 PROVE  Carries(up'[d], Endings)
      OBVIOUS
    <3>1. CASE d # c  BY <1>7, <3>1
    <3>2. CASE d = c
      <4>1. IsMyConn(i, UserOf[c], c)  BY <1>4, <3>2 DEF IsMyConn
      <4>2. f.kind \notin Endings  BY <1>12, <4>1 DEF Unmoved
      <4> QED  BY <1>7, <3>2, <4>2 DEF Carries
    <3> QED  BY <3>1, <3>2
  <2>3. Sound(i)' => Sound(i)  BY <1>4, <1>7, <2>2 DEF Sound
  <2>4. StillRinging(i)'
    <3> SUFFICES ASSUME ~i.connected PROVE StillRinging(i)'
      BY DEF StillRinging
    <3>1. jobs'[TabOf[ca]] = {} /\ pcRef'[TabOf[ca]] = NoPc /\ linked'[TabOf[ca]] = {}
      BY <1>5, <1>8 DEF StillRinging
    <3>2. ASSUME NEW d \in Conns
          PROVE  /\ ~Carries(down'[d], {"call-accept"})
                 /\ Planning(d)' => plan'[d].kind # "call-accept"
      <4>1. CASE d = c  BY <1>1, <1>5, <1>7, <1>12, <4>1 DEF StillRinging, Unmoved
      <4>2. CASE d # c  BY <1>5, <1>7, <4>2 DEF StillRinging
      <4> QED  BY <4>1, <4>2
    <3>3. ASSUME Sound(i)', NEW d \in Conns, d \notin broken', UserOf[d] = v,
                 Carries(up'[d], {"call-accept"})
          PROVE  Carries(up'[d], Endings) \/ Shows(TabOf[d], u)'
      <4>1. Carries(up[d], {"call-accept"})  BY <1>7, <3>3 DEF Carries
      <4>2. Carries(up[d], Endings) \/ Shows(TabOf[d], u)
        BY <1>5, <1>7, <2>3, <3>3, <4>1 DEF StillRinging
      <4> QED  BY <1>8, <2>2, <3>3, <4>2, TabOfType
    <3> QED  BY <3>1, <3>2, <3>3 DEF StillRinging
  <2>5. Answers(i)'
    BY <1>4, <1>5, <1>8, <1>11, <1>12, <2>3, TabOfType DEF Answers
  <2> QED  BY <1>1, <1>4, <1>9, <1>10, <1>12, <2>1, <2>4, <2>5 DEF InTable
<1>13. CASE Taken(i, c, f.kind, p, j)
  <2>1. /\ f.kind = "call-accept" /\ UserOf[c] = v /\ ~i.connected /\ j.calleeConn = c
        /\ j.connected /\ ~p.cancelMe
    BY <1>13 DEF Taken
  <2>2. c # ca  BY <1>4, <2>1
  <2>3. NoStrayEnding(j)'
    <3>1. \A d \in Conns : ~Carries(down'[d], Endings)
      BY <1>5, <1>7, <2>1 DEF NoStrayEnding
    <3>2. ASSUME NEW d \in Conns, Planning(d)'
          PROVE  /\ plan'[d].kind \in Endings => plan'[d].forward.type = "Nowhere"
                 /\ plan'[d].cancelMyOthers => d = c
                 /\ ~plan'[d].cancelMe
      <4>1. CASE d = c  BY <1>1, <1>7, <2>1, <4>1 DEF Endings
      <4>2. CASE d # c  BY <1>5, <1>7, <2>1, <3>2, <4>2 DEF NoStrayEnding
      <4> QED  BY <4>1, <4>2
    <3> QED  BY <2>1, <3>1, <3>2 DEF NoStrayEnding
  <2>4. StillRinging(j)'  BY <2>1 DEF StillRinging
  <2>5. Answers(j)'
    <3> SUFFICES ASSUME Sound(j)'
                 PROVE  /\ Dials(TabOf[ca], v) /\ Shows(TabOf[c], u)
                        /\ MediaOut(j)' => pcRef[TabOf[ca]].peer = v
      BY <1>4, <1>6, <1>8, <2>1, TabOfType DEF Answers
    <3>1. /\ ca \notin broken /\ ~Carries(up[ca], Endings)
          /\ c \notin broken /\ ~Carries(up'[c], Endings)
      BY <1>4, <1>6, <1>7, <2>1, <2>2 DEF Sound
    <3>2. Sound(i)  BY <2>1, <3>1 DEF Sound
    <3>3. Carries(up[c], {"call-accept"}) /\ ~Carries(up[c], Endings)
      BY <1>7, <2>1, <3>1 DEF Carries, Endings
    <3>4. Shows(TabOf[c], u)  BY <1>5, <2>1, <3>1, <3>2, <3>3 DEF StillRinging
    <3> QED  BY <1>5, <1>11, <3>2, <3>4 DEF Answers
  <2> QED  BY <1>1, <1>4, <1>6, <1>9, <1>10, <2>3, <2>4, <2>5 DEF InTable
<1> QED  BY <1>1, <1>12, <1>13

\* A mailbox gets the frames the step delivers to it, and no others.
LEMMA MailedFrames ==
    ASSUME SessionOwn, delivered' \in SUBSET Signals, Mailed, NEW d \in Conns
    PROVE  /\ \A f \in Range(down'[d]) :
                 \/ f \in Range(down[d])
                 \/ \E m \in delivered' : m.conn = d /\ f.kind = m.kind /\ f.from = m.from
           /\ (~\E m \in delivered' : m.conn = d) /\ down[d] = <<>> => down'[d] = <<>>
<1>1. down[d] \in Seq(Downs) /\ down[d] \o <<>> = down[d]
  BY ConcatEmptySeq DEF SessionOwn
<1>2. CASE d \in broken
  BY <1>2, EmptyRange DEF Mailed
<1>3. CASE d \notin broken /\ ~\E m \in delivered' : m.conn = d
  BY <1>1, <1>3 DEF Mailed
<1>4. CASE d \notin broken /\ \E m \in delivered' : m.conn = d
  <2> DEFINE m == CHOOSE m \in delivered' : m.conn = d
             x == [kind |-> m.kind, from |-> m.from]
  <2>1. m \in delivered' /\ m.conn = d  BY <1>4
  <2>2. down'[d] = down[d] \o <<x>>  BY <1>4 DEF Mailed
  <2>3. x \in Downs /\ x.kind = m.kind /\ x.from = m.from  BY <2>1 DEF Signals, Downs
  <2> HIDE DEF x, m
  <2>4. <<x>> \in Seq(Downs) /\ Range(<<x>>) = {x}
    <3>1. <<x>> \in Seq(Downs)  BY <2>3, OneFrame
    <3>2. DOMAIN <<x>> = {1} /\ <<x>>[1] = x  OBVIOUS
    <3> QED  BY <3>1, <3>2 DEF Range
  <2>5. Range(down'[d]) = Range(down[d]) \cup {x}
    <3> DEFINE s == <<x>>
    <3>1. s \in Seq(Downs) /\ down[d] \in Seq(Downs)  BY <1>1, <2>4
    <3> HIDE DEF s
    <3>2. Range(down[d] \o s) = Range(down[d]) \cup Range(s)
      BY <3>1, RangeConcatenation
    <3> QED  BY <2>2, <2>4, <3>2 DEF s
  <2> QED  BY <1>4, <2>1, <2>3, <2>5
<1> QED  BY <1>2, <1>3, <1>4

\* What the actors do with their plans keeps to the call, unless one of them resolves it.
LEMMA RelayKeepsCall ==
    ASSUME SessionInv, SocketsInUse, NEW i, InTable(i), Late', NEW c \in Conns,
           Relay(c) \/ Stopped(c), calls' # {}
    PROVE  InTable(i)'
<1> USE DEF SessionInv
<1> DEFINE u == i.caller
           v == i.callee
<1>1. /\ u # v
      /\ i.connected => i.calleeConn \in Conns /\ UserOf[i.calleeConn] = v
  BY Parties
<1>2. Frames(u, v) /\ NoStrayEnding(i) /\ StillRinging(i) /\ calls = {i}  BY DEF InTable
<1>3. UNCHANGED <<broken, clientVars>>  BY DEF Relay, Stopped
<1>4. \A s \in Tabs : SameTab(s)  BY <1>3 DEF clientVars, SameTab
<1>5. ASSUME UNCHANGED <<calls, finalized>>,
             \A d \in Conns : Planning(d)' => Planning(d) /\ plan'[d] = plan[d],
             \A d \in Conns : up'[d] = up[d] \/ (up'[d] = <<>> /\ d \in broken'),
             \A d \in Conns : /\ UserOf[d] \notin {u, v} => down'[d] = <<>>
                              /\ \A f \in Range(down'[d]) : f \in Range(down[d]) \/ Fitting(i, d, f)
      PROVE  InTable(i)'
  BY <1>2, <1>3, <1>4, <1>5, QuietKeepsCall DEF QuietStep, Frames
<1>6. CASE Stopped(c)
  <2>1. /\ UNCHANGED <<calls, finalized, plan, down>> /\ pc[c] = "idle" /\ c \in broken
        /\ up' = [up EXCEPT ![c] = <<>>] /\ \A d \in Conns \ {c} : pc'[d] = pc[d]
        /\ pc'[c] \in {"unregistered", "unscoped"}
    BY <1>6 DEF Stopped, Unregister, Inv, TypeOK
  <2>2. \A d \in Conns : Planning(d)' => Planning(d) /\ plan'[d] = plan[d]
    BY <2>1 DEF Planning
  <2>3. \A d \in Conns : up'[d] = up[d] \/ (up'[d] = <<>> /\ d \in broken')
    BY <1>3, <2>1 DEF SessionOwn
  <2> QED  BY <1>2, <1>5, <2>1, <2>2, <2>3 DEF Frames
<1>7. CASE Relay(c)
  <2>1. Proceed(c) /\ Mailed /\ up' = up  BY <1>7 DEF Relay
  <2>2. delivered' \in SUBSET Signals
    BY <2>1, MovesInv DEF RelayMoves, Inv, TypeOK
\* It is left to see where the delivered signals go.
  <2>3. ASSUME UNCHANGED <<calls, finalized>>,
               \A d \in Conns : Planning(d)' => Planning(d) /\ plan'[d] = plan[d],
               \A m \in delivered' : Fitting(i, m.conn, [kind |-> m.kind, from |-> m.from])
        PROVE  InTable(i)'
    <3>1. ASSUME NEW d \in Conns
          PROVE  /\ UserOf[d] \notin {u, v} => down'[d] = <<>>
                 /\ \A f \in Range(down'[d]) : f \in Range(down[d]) \/ Fitting(i, d, f)
      <4>1. /\ \A f \in Range(down'[d]) :
                 \/ f \in Range(down[d])
                 \/ \E m \in delivered' : m.conn = d /\ f.kind = m.kind /\ f.from = m.from
            /\ (~\E m \in delivered' : m.conn = d) /\ down[d] = <<>> => down'[d] = <<>>
        BY <2>1, <2>2, MailedFrames
      <4>2. \A m \in delivered' : m.conn = d => UserOf[d] \in {u, v}
        BY <2>3 DEF Fitting
      <4>3. UserOf[d] \notin {u, v} => down'[d] = <<>>
        BY <1>2, <4>1, <4>2 DEF Frames
      <4>4. \A f \in Range(down'[d]) : f \in Range(down[d]) \/ Fitting(i, d, f)
        BY <2>3, <4>1 DEF Fitting
      <4> QED  BY <4>3, <4>4
    <3> QED  BY <1>5, <2>1, <2>3, <3>1
  <2>4. CASE RecordCallerScope(c) \/ DropCallerScope(c)
    <3>1. UNCHANGED <<calls, finalized, plan>> /\ delivered' = {}
      BY <2>4 DEF RecordCallerScope, DropCallerScope
    <3>2. \A d \in Conns : Planning(d)' => Planning(d)
      BY <2>4 DEF RecordCallerScope, DropCallerScope, Planning, Inv, TypeOK
    <3> QED  BY <2>3, <3>1, <3>2
  <2>5. CASE CancelRings(c)
    <3>1. /\ UNCHANGED <<calls, finalized, plan>> /\ Planning(c)
          /\ pc' = [pc EXCEPT ![c] = "cancelled"]
      BY <2>5 DEF CancelRings, Planning
    <3>2. \A d \in Conns : Planning(d)' => Planning(d)
      BY <3>1 DEF Planning, Inv, TypeOK
    <3>3. ASSUME NEW m \in delivered'
          PROVE  Fitting(i, m.conn, [kind |-> m.kind, from |-> m.from])
      <4>1. /\ m.kind = "call-cancel" /\ m.from = plan[c].to
            /\ \/ m.conn \in sessions[UserOf[c]] \ {c} /\ plan[c].cancelMyOthers
               \/ m.conn = c /\ plan[c].cancelMe
        BY <2>5, <3>3 DEF CancelRings, Deliver
      <4>2. m.conn \in Conns  BY <2>2 DEF Signals
      <4>3. i.connected /\ UserOf[c] = v /\ (plan[c].cancelMyOthers => c = i.calleeConn)
            /\ (plan[c].cancelMe => c # i.calleeConn)
        BY <1>1, <1>2, <3>1, <4>1 DEF NoStrayEnding
      <4>4. UserOf[m.conn] = v /\ m.conn # i.calleeConn
        BY <4>1, <4>2, <4>3, UserOfType DEF Inv, SessionsAgree
      <4>5. plan[c].to = u  BY <1>2, <3>1, <4>3 DEF Frames, Traffic
      <4> QED  BY <4>1, <4>3, <4>4, <4>5 DEF Fitting
    <3> QED  BY <2>3, <3>1, <3>2, <3>3
  <2>6. CASE Gate(c)
    <3>1. /\ UNCHANGED <<calls, finalized>> /\ delivered' = {} /\ pc[c] = "cancelled"
          /\ \/ pc' = [pc EXCEPT ![c] = "gated"] /\ plan' = plan
             \/ pc' = [pc EXCEPT ![c] = "idle"] /\ plan' = [plan EXCEPT ![c] = NoPlan]
      BY <2>6 DEF Gate
    <3>2. \A d \in Conns : Planning(d)' => Planning(d) /\ plan'[d] = plan[d]
      BY <3>1 DEF Planning, Inv, TypeOK
    <3> QED  BY <2>3, <3>1, <3>2
  <2>7. CASE Forward(c)
    <3>1. /\ UNCHANGED <<calls, finalized>> /\ Planning(c)
          /\ pc' = [pc EXCEPT ![c] = "idle"] /\ plan' = [plan EXCEPT ![c] = NoPlan]
          /\ delivered' = Deliver(plan[c].kind, UserOf[c], Resolve(plan[c].forward))
      BY <2>7 DEF Forward, Planning
    <3>2. \A d \in Conns : Planning(d)' => Planning(d) /\ plan'[d] = plan[d]
      BY <3>1 DEF Planning, Inv, TypeOK
    <3>3. ASSUME NEW m \in delivered'
          PROVE  Fitting(i, m.conn, [kind |-> m.kind, from |-> m.from])
      <4>1. /\ m.kind = plan[c].kind /\ m.from = UserOf[c]
            /\ m.conn \in Resolve(plan[c].forward)
        BY <3>1, <3>3 DEF Deliver
      <4>2. /\ plan[c].forward \in Routes /\ plan[c].to \in Users
            /\ plan[c].forward.user = plan[c].to
        BY <3>1 DEF Inv, TypeOK, Plans, ScopesAgree, GoodPlan
      <4>3. m.conn \in Conns /\ UserOf[m.conn] = plan[c].to
        BY <4>1, <4>2, ResolveListed DEF Inv, SessionsAgree
      <4>4. plan[c].kind \notin Endings
        BY <1>2, <3>1, <4>1 DEF NoStrayEnding, Resolve
      <4>5. CASE UserOf[c] = u
        <5>1. plan[c].to = v /\ plan[c].kind # "call-accept"
          BY <1>2, <3>1, <4>5 DEF Frames, Traffic
        <5>2. plan[c].kind = "media" => MediaOut(i)  BY <3>1, <4>5 DEF MediaOut
        <5> QED  BY <4>1, <4>3, <4>4, <4>5, <5>1, <5>2 DEF Fitting
      <4>6. CASE UserOf[c] = v
        <5>1. plan[c].to = u /\ plan[c].kind # "call-invite"
          BY <1>2, <3>1, <4>6 DEF Frames, Traffic
        <5>2. plan[c].kind = "call-accept" => i.connected
          BY <1>2, <3>1 DEF StillRinging
        <5> QED  BY <1>1, <4>1, <4>3, <4>4, <4>6, <5>1, <5>2 DEF Fitting
      <4> QED  BY <1>2, <3>1, <4>5, <4>6 DEF Frames
    <3> QED  BY <2>3, <3>1, <3>2, <3>3
  <2>8. CASE PlanDisconnect(c)
    <3> DEFINE left == LeftBy(c, UserOf[c], last[c])
    <3>1. /\ calls' = calls \ left /\ delivered' = {} /\ plan' = plan
          /\ finalized' = [finalized EXCEPT ![c] =
                             {[call |-> k, outcome |-> OutcomeWhenEnded(k)] : k \in left}]
          /\ pc' = [pc EXCEPT ![c] = IF finalized'[c] = {} THEN "closed" ELSE "finalizing"]
      BY <2>8 DEF PlanDisconnect
    <3>2. left \subseteq calls  BY DEF LeftBy
    <3> HIDE DEF left
    <3>3. left = {} /\ calls' = calls  BY <1>2, <3>1, <3>2
    <3>4. finalized' = finalized
      <4>1. {[call |-> k, outcome |-> OutcomeWhenEnded(k)] : k \in left} = {}  BY <3>3
      <4>2. finalized[c] = {}  BY <1>2 DEF Frames
      <4> QED  BY <3>1, <4>1, <4>2 DEF Inv, TypeOK
    <3>5. \A d \in Conns : Planning(d)' => Planning(d)
      BY <3>1 DEF Planning, Inv, TypeOK
    <3> QED  BY <2>3, <3>1, <3>3, <3>4, <3>5
  <2>9. ~Finalize(c)  BY <1>2 DEF Finalize, Frames
  <2> QED  BY <2>1, <2>4, <2>5, <2>6, <2>7, <2>8, <2>9 DEF Proceed
<1> QED  BY <1>6, <1>7

\* Whoever moves, a tracked call goes on, is answered or is over.
LEMMA InTableStep ==
    ASSUME SessionInv, SocketsInUse, Counted, NEW i, InTable(i), [SessionNext]_sessionVars,
           ~\E t \in Tabs : MediaLost(t)
    PROVE  (\E j \in calls' : InTable(j)') \/ Over'
<1>1. Late'  BY LateStep DEF InTable
<1>2. ASSUME InTable(i)' PROVE \E j \in calls' : InTable(j)'
  BY <1>2 DEF InTable
<1>3. CASE calls' = {}  BY <1>1, <1>3 DEF Over
<1>4. CASE calls' # {}
  <2>1. ASSUME NEW t \in Tabs, Connect(t) \/ OnClose(t) \/ CloseTab(t) PROVE InTable(i)'
    BY <1>1, <2>1, OutsideKeepsCall
  <2>2. ASSUME NEW t \in Tabs, TabStep(t) PROVE InTable(i)'
    BY <2>2, TabKeepsCall
  <2>3. ASSUME NEW c \in Conns, Break(c) PROVE InTable(i)'
    BY <1>1, <2>3, OutsideKeepsCall
  <2>4. ASSUME NEW c \in Conns, Receive(c) PROVE \E j \in calls' : InTable(j)'
    BY <1>1, <1>4, <2>4, ReceiveKeepsCall
  <2>5. ASSUME NEW c \in Conns, Relay(c) \/ Stopped(c) PROVE InTable(i)'
    BY <1>1, <1>4, <2>5, RelayKeepsCall
  <2>6. ASSUME UNCHANGED sessionVars PROVE InTable(i)'
    BY <1>1, <2>6, OutsideKeepsCall
  <2> QED  BY <1>2, <2>1, <2>2, <2>3, <2>4, <2>5, <2>6, Steps DEF ServerStep
<1> QED  BY <1>3, <1>4

LEMMA OneCallInit == SessionInit => OneCallInv
<1> SUFFICES ASSUME SessionInit PROVE OneCallInv  OBVIOUS
<1>1. SocketsInUse  BY DEF SessionInit, Init, SocketsInUse
<1>2. Counted  BY DEF SessionInit, Counted
<1>3. BeforeInvite
  BY DEF SessionInit, Init, BeforeInvite, Calm, Planning
<1> QED  BY <1>1, <1>2, <1>3 DEF OneCallInv, OneCall

LEMMA OneCallStep ==
    ASSUME MaxCalls <= 1, SessionInv, OneCallInv, [SessionNext]_sessionVars
    PROVE  OneCallInv'
<1>1. SocketsInUse'  BY SocketsStep DEF OneCallInv
<1>2. Counted'  BY CountedStep DEF OneCallInv, SessionInv
<1>3. ASSUME losses' = 0 PROVE OneCall'
  <2>1. losses = 0 /\ ~\E t \in Tabs : MediaLost(t)
    <3>1. losses \in Nat /\ losses' \in Nat  BY <1>2 DEF OneCallInv, Counted
    <3>2. losses = 0
      BY <1>3, <3>1, CountedStep DEF OneCallInv, SessionInv
    <3>3. ~\E t \in Tabs : MediaLost(t)  BY <1>3, <3>1 DEF MediaLost
    <3> QED  BY <3>2, <3>3
  <2>2. OneCall /\ SocketsInUse /\ Counted  BY <2>1 DEF OneCallInv
  <2>3. CASE BeforeInvite
    <3>1. BeforeInvite' \/ (\E c \in Conns, v \in Users : Inviting(c, v)') \/ Over'
      BY <2>2, <2>3, BeforeStep
    <3> QED  BY <3>1 DEF OneCall
  <2>4. ASSUME NEW c \in Conns, NEW v \in Users, Inviting(c, v) PROVE OneCall'
    <3>1. Inviting(c, v)' \/ (\E i \in calls' : InTable(i)') \/ Over'
      BY <2>2, <2>4, InvitingStep
    <3> QED  BY <3>1 DEF OneCall
  <2>5. ASSUME NEW i \in calls, InTable(i) PROVE OneCall'
    <3>1. (\E j \in calls' : InTable(j)') \/ Over'
      BY <2>1, <2>2, <2>5, InTableStep
    <3> QED  BY <3>1 DEF OneCall
  <2>6. CASE Over  BY <2>2, <2>6, OverStep DEF OneCall
  <2> QED  BY <2>2, <2>3, <2>4, <2>5, <2>6 DEF OneCall
<1> QED  BY <1>1, <1>2, <1>3 DEF OneCallInv

LEMMA OneCallShows ==
    ASSUME SessionInv, OneCallInv PROVE AnsweredIsShown
<1> SUFFICES ASSUME Quiet, losses = 0, NEW i \in calls, i.connected
             PROVE  /\ ui[TabOf[i.callerConn]] = With("active", i.callee)
                    /\ ui[TabOf[i.calleeConn]] = With("active", i.caller)
  BY DEF AnsweredIsShown
<1>1. InTable(i)
  <2>1. \E j \in calls : InTable(j)
    BY DEF OneCallInv, OneCall, BeforeInvite, Inviting, Over
  <2> QED  BY <2>1 DEF InTable
<1>2. /\ i.callerConn \in Conns /\ i.calleeConn \in Conns
      /\ TabOf[i.callerConn] \in Tabs /\ TabOf[i.calleeConn] \in Tabs
  BY <1>1, Parties DEF OneCallInv
<1>3. Holding(i.callerConn) /\ Holding(i.calleeConn)
  BY DEF SessionInv, Inv, CallsHeldByLiveConns
<1>4. \A c \in Conns : Holding(c) => c \notin broken /\ ~Carries(up[c], Endings)
  BY EmptyRange DEF Quiet, Holding, Carries
<1>5. Sound(i)  BY <1>2, <1>3, <1>4 DEF Sound
<1>6. Dials(TabOf[i.callerConn], i.callee) /\ Shows(TabOf[i.calleeConn], i.caller)
  BY <1>1, <1>5 DEF InTable, Answers
<1> QED  BY <1>2, <1>6 DEF Quiet, Dials, Shows

\* Among any number of users, tabs and connections, sockets that drop and come back
\* and tabs that close, a single call that the relay has as answered is on screen at
\* both its ends once everything has settled: a user who hangs up, times out or goes
\* away untracks the call too.  With a second call it is not so: an ending is matched
\* by its peer and not by its call, so it may take a later call off a screen.
THEOREM AnsweredCallShown ==
    ASSUME MaxCalls <= 1
    PROVE  SessionSpec => []AnsweredIsShown
<1>1. SessionInit => OneCallInv  BY OneCallInit
<1>2. SessionInv /\ OneCallInv /\ [SessionNext]_sessionVars => OneCallInv'
  BY OneCallStep
<1>3. SessionInv /\ OneCallInv => AnsweredIsShown  BY OneCallShows
<1> QED  BY <1>1, <1>2, <1>3, SessionInvariance, PTL DEF SessionSpec
=============================================================================
