---------------------------- MODULE CallSession ----------------------------
(***************************************************************************)
(* The client half of a call, useCallSession.ts, composed with the relay   *)
(* of CallRelay.                                                           *)
(*                                                                         *)
(* A browser tab runs one session: a UI state, at most one current         *)
(* RTCPeerConnection (pcRef), a ring timer, and a socket that is replaced  *)
(* when it drops.  Event handlers run one at a time within a tab, but      *)
(* startCall, acceptCall and the handling of call-accept are async: a job  *)
(* is one of them suspended at an await, and anything may happen to the    *)
(* tab before it resumes.                                                  *)
(***************************************************************************)
EXTENDS CallRelay, Sequences

CONSTANTS
    Tabs,         \* browser tabs that run a call session
    TabOf,        \* the tab each connection id is, in turn, the socket of
    NoUser,       \* no peer
    MaxCalls,     \* bound on the calls placed
    MaxBreaks,    \* bound on the sockets that break
    MaxCloses,    \* bound on the tabs that are closed
    MaxLosses     \* bound on the media paths that are lost

ASSUME TabOfType == TabOf \in [Conns -> Tabs]
ASSUME TabOfUser ==
    \A c, d \in Conns : TabOf[c] = TabOf[d] => UserOf[c] = UserOf[d]
ASSUME NoUserAssumption == NoUser \notin Users
ASSUME BoundsType ==
    {MaxCalls, MaxBreaks, MaxCloses, MaxLosses} \subseteq Nat

VARIABLES
    sock,      \* wsRef: the connection a tab holds open
    broken,    \* connections over which nothing arrives any more
    up,        \* frames from a client to its actor, per connection
    down,      \* frames and mailbox from an actor to its client
    ui,        \* callState of a tab: [kind, peer]
    jobs,      \* the suspended async functions of a tab: [job, peer, stage]
    pcRef,     \* the current peer connection of a tab: [job, peer]
    linked,    \* the negotiated peer connections of a tab that have not been
               \* closed: the one in pcRef, and any that a second Accept has
               \* replaced in it, whose handlers stay in place
    timer,     \* ringTimerRef: whom the armed timer will cancel the call to, or NoUser
    placed,    \* calls placed so far, compared with MaxCalls
    breaks,    \* sockets broken so far, compared with MaxBreaks
    closes,    \* tabs closed so far, compared with MaxCloses
    losses     \* media paths lost so far, compared with MaxLosses

clientVars == <<ui, jobs, pcRef, linked, timer>>
netVars == <<sock, broken, up, down>>
sessionVars == <<vars, netVars, clientVars, placed, breaks, closes, losses>>

Idle == [kind |-> "idle", peer |-> NoUser]
With(kind, u) == [kind |-> kind, peer |-> u]
NoPc == [job |-> "none", peer |-> NoUser]
Links == [held : BOOLEAN, peer : Users]
Jobs == [job : {"place", "accept", "answer"}, peer : Users,
         stage : {"ice", "media", "closed"}]

\* Every connection id of a tab is one of the same user's.
Me(t) == UserOf[CHOOSE c \in Conns : TabOf[c] = t]

-----------------------------------------------------------------------------
(* Frames *)

\* sendSignal: dropped unless the socket is open, lost if it is only seemingly.
Send(t, frames) ==
    up' = IF sock[t] \in Conns \ broken
          THEN [up EXCEPT ![sock[t]] = @ \o frames] ELSE up

Frame(kind, u) == <<[kind |-> kind, to |-> u]>>

\* The actors' mailboxes and sockets, after a step of the relay.
Mailed ==
    down' = [d \in Conns |->
               IF d \in broken THEN <<>>
               ELSE down[d] \o
                    IF \E m \in delivered' : m.conn = d
                    THEN LET m == CHOOSE m \in delivered' : m.conn = d
                         IN  <<[kind |-> m.kind, from |-> m.from]>>
                    ELSE <<>>]

-----------------------------------------------------------------------------
(* The socket of a tab *)

Connect(t) ==
    /\ sock[t] = NoConn
    /\ \E c \in Conns :
         /\ TabOf[c] = t /\ c \notin broken
         /\ Register(c)
         /\ sock' = [sock EXCEPT ![t] = c]
    /\ UNCHANGED <<broken, up, down, clientVars, placed, breaks, closes, losses>>

\* A network change, laptop sleep or a silent client: whatever is under way on
\* the connection is lost.  Each end finds out in its own time.
Break(c) ==
    /\ breaks < MaxBreaks /\ c \notin broken /\ sock[TabOf[c]] = c
    /\ broken' = broken \cup {c}
    /\ up' = [up EXCEPT ![c] = <<>>] /\ down' = [down EXCEPT ![c] = <<>>]
    /\ breaks' = breaks + 1
    /\ delivered' = {} /\ audit' = {}
    /\ UNCHANGED <<pc, sessions, scopes, calls, plan, last, finalized, sent, sock,
                   clientVars, placed, closes, losses>>

\* ws.onclose; the call on screen stays.
OnClose(t) ==
    /\ sock[t] \in broken
    /\ sock' = [sock EXCEPT ![t] = NoConn]
    /\ delivered' = {} /\ audit' = {}
    /\ UNCHANGED <<pc, sessions, scopes, calls, plan, last, finalized, sent,
                   broken, up, down, clientVars, placed, breaks, closes, losses>>

\* The tab, and the page in it, is closed for good: all its ids are used up.
CloseTab(t) ==
    /\ closes < MaxCloses /\ sock[t] # NoConn
    /\ closes' = closes + 1
    /\ broken' = broken \cup {c \in Conns : TabOf[c] = t}
    /\ sock' = [sock EXCEPT ![t] = NoConn]
    /\ down' = [c \in Conns |-> IF TabOf[c] = t THEN <<>> ELSE down[c]]
    /\ ui' = [ui EXCEPT ![t] = Idle] /\ jobs' = [jobs EXCEPT ![t] = {}]
    /\ pcRef' = [pcRef EXCEPT ![t] = NoPc]
    /\ linked' = [linked EXCEPT ![t] = {}]
    /\ timer' = [timer EXCEPT ![t] = NoUser]
    /\ delivered' = {} /\ audit' = {}
    /\ UNCHANGED <<pc, sessions, scopes, calls, plan, last, finalized, sent, up,
                   placed, breaks, losses>>

\* The server sees the socket is gone, after none, some or all of its frames.
Stopped(c) ==
    /\ c \in broken
    /\ Unregister(c)
    /\ up' = [up EXCEPT ![c] = <<>>]
    /\ UNCHANGED <<sock, broken, down, clientVars, placed, breaks, closes, losses>>

Receive(c) ==
    /\ up[c] # <<>>
    /\ PlanSignal(c, Head(up[c]).kind, Head(up[c]).to)
    /\ up' = [up EXCEPT ![c] = Tail(@)]
    /\ UNCHANGED <<sent, sock, broken, down, clientVars, placed, breaks, closes, losses>>

Relay(c) ==
    /\ Proceed(c)
    /\ Mailed
    /\ UNCHANGED <<sock, broken, up, clientVars, placed, breaks, closes, losses>>

-----------------------------------------------------------------------------
(* The session *)

\* A client step takes no step of the relay.
RelayIdle ==
    /\ delivered' = {} /\ audit' = {}
    /\ UNCHANGED <<pc, sessions, scopes, calls, plan, last, finalized, sent, sock,
                   broken, breaks, closes, losses>>

\* The jobs of tab t once its current peer connection is closed.
WithPcClosed(t) ==
    {IF j.stage = "media" /\ [job |-> j.job, peer |-> j.peer] = pcRef[t]
     THEN [j EXCEPT !.stage = "closed"] ELSE j : j \in jobs[t]}

\* The negotiated connections of tab t that pcRef does not hold.
Abandoned(t) == {l \in linked[t] : ~l.held}

\* teardownPeer() and setCallState({kind: "idle"}), leaving the given jobs and
\* peer connections.
TeardownTo(t, left, links) ==
    /\ ui' = [ui EXCEPT ![t] = Idle]
    /\ jobs' = [jobs EXCEPT ![t] = left]
    /\ pcRef' = [pcRef EXCEPT ![t] = NoPc]
    /\ linked' = [linked EXCEPT ![t] = links]
    /\ timer' = [timer EXCEPT ![t] = NoUser]

Teardown(t) == TeardownTo(t, WithPcClosed(t), Abandoned(t))

\* startingRef: startCall waits on the permission prompt.
Starting(t) == \E j \in jobs[t] : j.job = "place"

StartCall(t, peer) ==
    /\ placed < MaxCalls /\ placed' = placed + 1
    /\ ui[t].kind = "idle" /\ ~Starting(t) /\ sock[t] # NoConn
    /\ peer # Me(t)
    /\ jobs' = [jobs EXCEPT ![t] =
                  @ \cup {[job |-> "place", peer |-> peer, stage |-> "media"]}]
    /\ RelayIdle
    /\ UNCHANGED <<up, down, ui, pcRef, linked, timer>>

\* Seeded fault: the ring timer is not armed.
PromptGrantedUntimed(t, j) ==
    /\ j.job = "place"
    /\ jobs' = [jobs EXCEPT ![t] = @ \ {j}]
    /\ ui' = [ui EXCEPT ![t] = With("outgoing", j.peer)]
    /\ Send(t, Frame("call-invite", j.peer))
    /\ RelayIdle
    /\ UNCHANGED <<down, pcRef, linked, timer, placed>>

\* The prompt of startCall is answered.
PromptGranted(t, j) ==
    /\ j.job = "place"
    /\ jobs' = [jobs EXCEPT ![t] = @ \ {j}]
    /\ ui' = [ui EXCEPT ![t] = With("outgoing", j.peer)]
    /\ timer' = [timer EXCEPT ![t] = j.peer]
    /\ Send(t, Frame("call-invite", j.peer))
    /\ RelayIdle
    /\ UNCHANGED <<down, pcRef, linked, placed>>

PromptDenied(t, j) ==
    /\ j.job = "place"
    /\ jobs' = [jobs EXCEPT ![t] = @ \ {j}]
    /\ RelayIdle
    /\ UNCHANGED <<up, down, ui, pcRef, linked, timer, placed>>

\* Seeded fault: the timeout does not tell the callee.
RingTimeoutUnsent(t) ==
    /\ timer[t] # NoUser
    /\ Teardown(t)
    /\ RelayIdle
    /\ UNCHANGED <<up, down, placed>>

RingTimeout(t) ==
    /\ timer[t] # NoUser
    /\ Send(t, Frame("call-cancel", timer[t]))
    /\ Teardown(t)
    /\ RelayIdle
    /\ UNCHANGED <<down, placed>>

AcceptCall(t) ==
    /\ ui[t].kind = "incoming"
    /\ jobs' = [jobs EXCEPT ![t] =
                  @ \cup {[job |-> "accept", peer |-> ui[t].peer, stage |-> "ice"]}]
    /\ RelayIdle
    /\ UNCHANGED <<up, down, ui, pcRef, linked, timer, placed>>

\* Seeded fault: the peer of a rejected call is kept.
RejectCallKeepsPeer(t) ==
    /\ ui[t].kind = "incoming"
    /\ Send(t, Frame("call-reject", ui[t].peer))
    /\ ui' = [ui EXCEPT ![t].kind = "idle"]
    /\ RelayIdle
    /\ UNCHANGED <<down, jobs, pcRef, linked, timer, placed>>

RejectCall(t) ==
    /\ ui[t].kind = "incoming"
    /\ Send(t, Frame("call-reject", ui[t].peer))
    /\ ui' = [ui EXCEPT ![t] = Idle]
    /\ RelayIdle
    /\ UNCHANGED <<down, jobs, pcRef, linked, timer, placed>>

\* Seeded fault: hanging up an active call does not send call-end.
EndCallUnsent(t) ==
    /\ ui[t].kind \in {"outgoing", "active"}
    /\ Send(t, IF ui[t].kind = "outgoing" THEN Frame("call-cancel", ui[t].peer)
               ELSE <<>>)
    /\ Teardown(t)
    /\ RelayIdle
    /\ UNCHANGED <<down, placed>>

\* The hang-up button, shown for outgoing and active calls.
EndCall(t) ==
    /\ ui[t].kind \in {"outgoing", "active"}
    /\ Send(t, Frame(IF ui[t].kind = "outgoing" THEN "call-cancel" ELSE "call-end",
                     ui[t].peer))
    /\ Teardown(t)
    /\ RelayIdle
    /\ UNCHANGED <<down, placed>>

\* buildPeerConnection resumes from getIceServers and sets pcRef.
IceServersReady(t, j) ==
    /\ j.stage = "ice"
    /\ jobs' = [jobs EXCEPT ![t] =
                  (@ \ {j}) \cup {[j EXCEPT !.stage = "media"]}]
    /\ pcRef' = [pcRef EXCEPT ![t] = [job |-> j.job, peer |-> j.peer]]
    /\ linked' = [linked EXCEPT ![t] = {[l EXCEPT !.held = FALSE] : l \in @}]
    /\ RelayIdle
    /\ UNCHANGED <<up, down, ui, timer, placed>>

\* The last await resolves with the peer connection still open: the callee
\* accepts, the caller makes its offer, and the call is on screen as active.
\* Nothing looks at the call state again before that.
MediaReady(t, j) ==
    /\ j.job \in {"accept", "answer"} /\ j.stage = "media"
    /\ jobs' = [jobs EXCEPT ![t] = @ \ {j}]
    /\ ui' = [ui EXCEPT ![t] = With("active", j.peer)]
    /\ Send(t, Frame(IF j.job = "accept" THEN "call-accept" ELSE "media", j.peer))
    /\ RelayIdle
    /\ UNCHANGED <<down, pcRef, linked, timer, placed>>

\* The catch branch: the peer connection was closed meanwhile, or there is no
\* microphone to be had.
MediaFailed(t, j) ==
    /\ j.job \in {"accept", "answer"} /\ j.stage \in {"media", "closed"}
    /\ Send(t, Frame(IF j.job = "accept" THEN "call-reject" ELSE "call-end", j.peer))
    /\ TeardownTo(t, WithPcClosed(t) \ {j, [j EXCEPT !.stage = "closed"]},
                  Abandoned(t))
    /\ RelayIdle
    /\ UNCHANGED <<down, placed>>

\* No tab at the other end of the connection l of tab t has one to t.
Deserted(t, l) == \A s \in Tabs : Me(s) = l.peer => pcRef[s].peer # Me(t)

\* onconnectionstatechange: a negotiated peer connection finds nobody at the
\* other end.  Whichever connection it is, the session is torn down.
PeerLost(t) ==
    /\ \E l \in linked[t] :
         /\ Deserted(t, l)
         /\ TeardownTo(t, WithPcClosed(t), Abandoned(t) \ {l})
    /\ RelayIdle
    /\ UNCHANGED <<up, down, placed>>

\* The same handler when the path between two tabs in a call fails: nothing is
\* sent, and the other tab finds nobody at the other end in its turn.
MediaLost(t) ==
    /\ losses < MaxLosses /\ losses' = losses + 1
    /\ \E l \in linked[t] : TeardownTo(t, WithPcClosed(t), Abandoned(t) \ {l})
    /\ delivered' = {} /\ audit' = {}
    /\ UNCHANGED <<pc, sessions, scopes, calls, plan, last, finalized, sent,
                   netVars, placed, breaks, closes>>

(* handleSignal, one disjunct per kind of frame m. *)

OnInvite(t, m) ==
    /\ m.kind = "call-invite"
    /\ \/ /\ ui[t].kind # "idle" \/ Starting(t)
          /\ Send(t, Frame("call-reject", m.from))
          /\ UNCHANGED clientVars
       \/ /\ ui[t].kind = "idle" /\ ~Starting(t)
          /\ ui' = [ui EXCEPT ![t] = With("incoming", m.from)]
          /\ UNCHANGED <<up, jobs, pcRef, linked, timer>>

OnAccept(t, m) ==
    /\ m.kind = "call-accept"
    /\ \/ /\ ui[t] # With("outgoing", m.from)
          /\ UNCHANGED <<up, clientVars>>
       \/ /\ ui[t] = With("outgoing", m.from)
          /\ timer' = [timer EXCEPT ![t] = NoUser]
          /\ jobs' = [jobs EXCEPT ![t] = @ \cup
                        {[job |-> "answer", peer |-> m.from, stage |-> "ice"]}]
          /\ UNCHANGED <<up, ui, pcRef, linked>>

OnEnding(t, m) ==
    /\ m.kind \in Endings
    /\ \/ /\ ui[t].kind = "idle" \/ ui[t].peer # m.from
          /\ UNCHANGED <<up, clientVars>>
       \/ /\ ui[t].kind # "idle" /\ ui[t].peer = m.from
          /\ Teardown(t)
          /\ UNCHANGED up

\* An offer reaches the callee's peer connection, which answers; an answer the
\* caller's.  Candidates are buffered or applied and change nothing here.  The
\* awaits of the offer (useCallSession.ts:437-450) are one step: what may come
\* between them is a teardown, and the answer then lost was for a call torn down.
OnMedia(t, m) ==
    /\ m.kind = "media"
    /\ linked' = [linked EXCEPT ![t] = @ \cup
                    {l \in {[held |-> TRUE, peer |-> pcRef[t].peer]} :
                       pcRef[t] # NoPc}]
    /\ Send(t, IF pcRef[t].job = "accept" THEN Frame("media", m.from) ELSE <<>>)
    /\ UNCHANGED <<ui, jobs, pcRef, timer>>

HandleSignal(t) ==
    /\ sock[t] # NoConn /\ down[sock[t]] # <<>>
    /\ LET m == Head(down[sock[t]]) IN
         OnInvite(t, m) \/ OnAccept(t, m) \/ OnEnding(t, m) \/ OnMedia(t, m)
    /\ down' = [down EXCEPT ![sock[t]] = Tail(@)]
    /\ RelayIdle
    /\ UNCHANGED placed

-----------------------------------------------------------------------------

SessionInit ==
    /\ Init
    /\ sock = [t \in Tabs |-> NoConn] /\ broken = {}
    /\ up = [c \in Conns |-> <<>>] /\ down = [c \in Conns |-> <<>>]
    /\ ui = [t \in Tabs |-> Idle] /\ jobs = [t \in Tabs |-> {}]
    /\ pcRef = [t \in Tabs |-> NoPc] /\ linked = [t \in Tabs |-> {}]
    /\ timer = [t \in Tabs |-> NoUser]
    /\ placed = 0 /\ breaks = 0 /\ closes = 0 /\ losses = 0

\* What a person does, and what the network does to them.
UserStep(t) ==
    \/ \E peer \in Users : StartCall(t, peer)
    \/ AcceptCall(t) \/ RejectCall(t) \/ EndCall(t)
    \/ CloseTab(t)

\* A suspended function of the tab resumes.
Resume(t) ==
    \/ \E j \in jobs[t] : PromptGranted(t, j) \/ PromptDenied(t, j)
    \/ \E j \in jobs[t] : IceServersReady(t, j)
    \/ \E j \in jobs[t] : MediaReady(t, j) \/ MediaFailed(t, j)

\* What the browser does by itself.
ClientStep(t) ==
    HandleSignal(t) \/ RingTimeout(t) \/ PeerLost(t) \/ OnClose(t) \/ Resume(t)

ServerStep(c) == Receive(c) \/ Relay(c) \/ Stopped(c)

SessionNext ==
    \/ \E t \in Tabs : Connect(t) \/ UserStep(t) \/ ClientStep(t)
    \/ \E t \in Tabs : MediaLost(t)
    \/ \E c \in Conns : ServerStep(c) \/ Break(c)

SessionSpec == SessionInit /\ [][SessionNext]_sessionVars

\* The event loop of a browser gets round to each of its tasks (frames, timers,
\* settled promises) and the server to each of its actors; people do as they
\* like.
FairSessionSpec ==
    /\ SessionSpec
    /\ \A t \in Tabs : /\ WF_sessionVars(HandleSignal(t))
                       /\ WF_sessionVars(RingTimeout(t))
                       /\ WF_sessionVars(PeerLost(t) \/ OnClose(t))
                       /\ WF_sessionVars(Resume(t))
    /\ \A c \in Conns : WF_sessionVars(ServerStep(c))

-----------------------------------------------------------------------------
(* Properties *)

\* The session's own state.
SessionTypeOK ==
    /\ TypeOK
    /\ sock \in [Tabs -> Conns \cup {NoConn}]
    /\ broken \in SUBSET Conns
    /\ up \in [Conns -> Seq([kind : Kinds, to : Users])]
    /\ down \in [Conns -> Seq([kind : Kinds, from : Users])]
    /\ ui \in [Tabs -> {Idle} \cup
                 [kind : {"outgoing", "incoming", "active"}, peer : Users]]
    /\ jobs \in [Tabs -> SUBSET Jobs]
    /\ pcRef \in [Tabs -> {NoPc} \cup [job : {"accept", "answer"}, peer : Users]]
    /\ linked \in [Tabs -> SUBSET Links] /\ timer \in [Tabs -> Users \cup {NoUser}]

\* Nothing is under way: every frame has been handled, every actor is at rest,
\* no async function is suspended, no timer is armed, every dead socket has
\* been noticed at both ends.  Only people and the network can move on.
Quiet ==
    /\ \A c \in Conns :
         /\ pc[c] \in {"new", "idle", "closed"}
         /\ up[c] = <<>> /\ down[c] = <<>>
         /\ c \in broken => pc[c] \in {"new", "closed"}
    /\ \A t \in Tabs : /\ jobs[t] = {} /\ timer[t] = NoUser /\ sock[t] \notin broken
                       /\ \A l \in linked[t] : ~Deserted(t, l)

\* Once everything has settled, a call the relay has as answered is on screen
\* in both tabs it is pinned to, each with the other user as its peer: whatever
\* ended the call at one end, short of a lost media path, has untracked it too.
AnsweredIsShown ==
    Quiet /\ losses = 0 => \A i \in calls :
        i.connected => /\ ui[TabOf[i.callerConn]] = With("active", i.callee)
                       /\ ui[TabOf[i.calleeConn]] = With("active", i.caller)

\* A tab does not dial for ever: somebody answers or declines, or the 30-second
\* ring timer takes the call down.
DialingEnds ==
    \A t \in Tabs : ui[t].kind = "outgoing" ~> ui[t].kind # "outgoing"

\* A tab does not ring for ever, although the callee has no timer of its own:
\* the caller's timer, or the relay when the caller is gone, ends it.
RingingEnds ==
    \A t \in Tabs : ui[t].kind = "incoming" ~> ui[t].kind # "incoming"
=============================================================================
