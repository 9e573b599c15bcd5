------------------------------ MODULE Presence ------------------------------
(***************************************************************************)
(* Who sees a user as online (chat/presence.rs, the tasks that             *)
(* chat/websocket.rs starts for it, and the counter of cache.rs), when the *)
(* state is in Redis and the user has several tabs on several instances.   *)
(*                                                                         *)
(* One user and one contact.  Every Redis command is an action: the task   *)
(* of a connect, the task of a disconnect, the heartbeats and the sweepers *)
(* are interleaved between any two of them.                                *)
(***************************************************************************)
EXTENDS Integers, FiniteSets

CONSTANTS
    Tabs,          \* chat sockets the user may have open
    Instances,     \* backend processes
    At,            \* the instance that holds a tab's socket
    MaxActs,       \* bound on the sockets opened and the statuses chosen
    MaxFaults      \* bound on failed Redis commands and lost frames

ASSUME FiniteAssumption == IsFiniteSet(Tabs) /\ IsFiniteSet(Instances)
ASSUME AtType == At \in [Tabs -> Instances]
ASSUME BoundsType == MaxActs \in Nat /\ MaxFaults \in Nat

VARIABLES
    open,       \* the sockets of SESSIONS
    joining,    \* the next command of a tab's on_connect task
    was,        \* was_online, as that task has read it
    leaving,    \* the next command of a tab's on_disconnect task
    late,       \* the heartbeat task of a closed tab is still to write the score
    sweep,      \* the next command of an instance's sweeper
    score,      \* the user's entry of presence:online
    conns,      \* presence:conns, 0 when there is no such key
    view,       \* the contact's dot
    owed,       \* ghost: times the entry was made, less the times that was ended
    acts, faults

vars == <<open, joining, was, leaving, late, sweep, score, conns, view, owed,
          acts, faults>>
tasks == <<joining, was, leaving, late, sweep>>
redis == <<score, conns>>

JoinStages == {"idle", "look", "count", "add", "announce"}
LeaveStages == {"idle", "count", "clear", "remove", "announce"}
SweepStages == {"idle", "remove", "clear", "announce"}

\* A sweeper that has removed the entry and is to announce its end.
Owing == {"clear", "announce"}

B2N(b) == IF b THEN 1 ELSE 0
Fault == faults < MaxFaults /\ faults' = faults + 1

\* ZADD with the time of day, whose failure is ignored.
Add ==
    \/ score' = "fresh" /\ owed' = owed + B2N(score = "none") /\ UNCHANGED faults
    \/ Fault /\ UNCHANGED <<score, owed>>

-----------------------------------------------------------------------------
(* ChatSession *)

\* started: the socket is registered and its on_connect task spawned.
Open(t) ==
    /\ acts < MaxActs /\ acts' = acts + 1
    /\ t \notin open /\ joining[t] = "idle" /\ leaving[t] = "idle"
    /\ open' = open \cup {t}
    /\ joining' = [joining EXCEPT ![t] = "look"]
    /\ UNCHANGED <<was, leaving, late, sweep, redis, view, owed, faults>>

\* stopped, for whatever reason; the on_connect task, or the task of the last
\* heartbeat, may still be under way.
Close(t) ==
    /\ t \in open
    /\ open' = open \ {t}
    /\ leaving' = [leaving EXCEPT ![t] = "count"]
    /\ late' \in {late, TRUE}
    /\ UNCHANGED <<joining, was, sweep, redis, view, owed, acts, faults>>

\* Seeded fault: a heartbeat refreshes an entry and makes none.
HeartbeatIfListed ==
    /\ score # "none" /\ score' = "fresh"
    /\ \/ open # {} /\ UNCHANGED late
       \/ late /\ late' = FALSE
    /\ UNCHANGED <<open, joining, was, leaving, sweep, conns, view, owed, acts, faults>>

\* on_heartbeat, in a task of its own.
Heartbeat ==
    /\ \/ open # {} /\ UNCHANGED late
       \/ late /\ late' = FALSE
    /\ Add
    /\ UNCHANGED <<open, joining, was, leaving, sweep, conns, view, acts>>

\* 45 s without a heartbeat: none is due, or one of a live tab fails.
GoStale ==
    /\ score = "fresh" /\ score' = "stale"
    /\ IF open = {} THEN UNCHANGED faults ELSE Fault
    /\ UNCHANGED <<open, tasks, conns, view, owed, acts>>

-----------------------------------------------------------------------------
(* on_connect *)

\* The ZSCORE; a failed one counts as none.
LookUp(t) ==
    /\ joining[t] = "look" /\ joining' = [joining EXCEPT ![t] = "count"]
    /\ \/ was' = [was EXCEPT ![t] = score = "fresh"] /\ UNCHANGED faults
       \/ Fault /\ UNCHANGED was
    /\ UNCHANGED <<open, leaving, late, sweep, redis, view, owed, acts>>

\* The INCR, whose failure is ignored.
CountUp(t) ==
    /\ joining[t] = "count" /\ joining' = [joining EXCEPT ![t] = "add"]
    /\ \/ conns' = conns + 1 /\ UNCHANGED faults
       \/ Fault /\ UNCHANGED conns
    /\ UNCHANGED <<open, was, leaving, late, sweep, score, view, owed, acts>>

AddEntry(t) ==
    /\ joining[t] = "add"
    /\ joining' = [joining EXCEPT ![t] = IF was[t] THEN "idle" ELSE "announce"]
    /\ was' = [was EXCEPT ![t] = FALSE]
    /\ Add
    /\ UNCHANGED <<open, leaving, late, sweep, conns, view, acts>>

\* A frame of broadcast_presence, which may be lost on its way.
Frame(online) ==
    \/ view' = online /\ UNCHANGED faults
    \/ Fault /\ UNCHANGED view

AnnounceOnline(t) ==
    /\ joining[t] = "announce" /\ joining' = [joining EXCEPT ![t] = "idle"]
    /\ Frame(TRUE)
    /\ UNCHANGED <<open, was, leaving, late, sweep, redis, owed, acts>>

-----------------------------------------------------------------------------
(* on_disconnect *)

\* Seeded fault: a failed DECR ends the task in a state of its own.
CountDownOrFail(t) ==
    /\ leaving[t] = "count"
    /\ \/ /\ conns' = conns - 1
          /\ leaving' = [leaving EXCEPT ![t] = IF conns - 1 <= 0 THEN "clear" ELSE "idle"]
          /\ UNCHANGED faults
       \/ Fault /\ leaving' = [leaving EXCEPT ![t] = "failed"] /\ UNCHANGED conns
    /\ UNCHANGED <<open, joining, was, late, sweep, score, view, owed, acts>>

\* Cache::decr: the DECR; a failed one counts as zero.
CountDown(t) ==
    /\ leaving[t] = "count"
    /\ \/ /\ conns' = conns - 1
          /\ leaving' = [leaving EXCEPT ![t] = IF conns - 1 <= 0 THEN "clear" ELSE "idle"]
          /\ UNCHANGED faults
       \/ Fault /\ leaving' = [leaving EXCEPT ![t] = "remove"] /\ UNCHANGED conns
    /\ UNCHANGED <<open, joining, was, late, sweep, score, view, owed, acts>>

\* The DEL of the counter, whose failure is ignored.
Delete ==
    \/ conns' = 0 /\ UNCHANGED faults
    \/ Fault /\ UNCHANGED conns

ClearCount(t) ==
    /\ leaving[t] = "clear" /\ leaving' = [leaving EXCEPT ![t] = "remove"]
    /\ Delete
    /\ UNCHANGED <<open, joining, was, late, sweep, score, view, owed, acts>>

\* Seeded fault: the return value of the ZREM is not looked at.
RemoveEntryAlways(t) ==
    /\ leaving[t] = "remove" /\ leaving' = [leaving EXCEPT ![t] = "announce"]
    /\ score' = "none"
    /\ UNCHANGED <<open, joining, was, late, sweep, conns, view, owed,
                   acts, faults>>

\* The ZREM: who removes the entry announces it.
RemoveEntry(t) ==
    /\ leaving[t] = "remove"
    /\ \/ /\ score # "none" /\ score' = "none"
          /\ leaving' = [leaving EXCEPT ![t] = "announce"] /\ UNCHANGED faults
       \/ /\ IF score = "none" THEN UNCHANGED faults ELSE Fault
          /\ leaving' = [leaving EXCEPT ![t] = "idle"] /\ UNCHANGED score
    /\ UNCHANGED <<open, joining, was, late, sweep, conns, view, owed, acts>>

AnnounceOffline(t) ==
    /\ leaving[t] = "announce" /\ leaving' = [leaving EXCEPT ![t] = "idle"]
    /\ Frame(FALSE) /\ owed' = owed - 1
    /\ UNCHANGED <<open, joining, was, late, sweep, redis, acts>>

-----------------------------------------------------------------------------
(* run_sweeper *)

FindStale(i) ==
    /\ sweep[i] = "idle" /\ score = "stale"
    /\ sweep' = [sweep EXCEPT ![i] = "remove"]
    /\ UNCHANGED <<open, joining, was, leaving, late, redis, view, owed,
                   acts, faults>>

\* The entry may be another one by now, or gone.
Reap(i) ==
    /\ sweep[i] = "remove"
    /\ \/ /\ score # "none" /\ score' = "none"
          /\ sweep' = [sweep EXCEPT ![i] = "clear"] /\ UNCHANGED faults
       \/ /\ IF score = "none" THEN UNCHANGED faults ELSE Fault
          /\ sweep' = [sweep EXCEPT ![i] = "idle"] /\ UNCHANGED score
    /\ UNCHANGED <<open, joining, was, leaving, late, conns, view, owed, acts>>

\* A count that a crashed instance has leaked.
ClearReaped(i) ==
    /\ sweep[i] = "clear" /\ sweep' = [sweep EXCEPT ![i] = "announce"]
    /\ Delete
    /\ UNCHANGED <<open, joining, was, leaving, late, score, view, owed, acts>>

AnnounceReaped(i) ==
    /\ sweep[i] = "announce" /\ sweep' = [sweep EXCEPT ![i] = "idle"]
    /\ Frame(FALSE) /\ owed' = owed - 1
    /\ UNCHANGED <<open, joining, was, leaving, late, redis, acts>>

-----------------------------------------------------------------------------
(* The contact, and what else happens *)

\* usePresence asks for a snapshot every 30 s; the answer is applied at once here.
Poll ==
    /\ view' = (score = "fresh")
    /\ UNCHANGED <<open, tasks, redis, owed, acts, faults>>

\* set_status, from a page that may have no socket: "online" in any case.
SetStatus ==
    /\ acts < MaxActs /\ acts' = acts + 1
    /\ view' = TRUE
    /\ UNCHANGED <<open, tasks, redis, owed, faults>>

\* The instance dies with its sockets and tasks, and comes back.
Crash(i) ==
    LET dead == {t \in Tabs : At[t] = i}
        lost == {t \in dead : leaving[t] = "announce"}
    IN
    /\ Fault
    /\ open' = open \ dead
    /\ joining' = [t \in Tabs |-> IF t \in dead THEN "idle" ELSE joining[t]]
    /\ was' = [t \in Tabs |-> t \notin dead /\ was[t]]
    /\ leaving' = [t \in Tabs |-> IF t \in dead THEN "idle" ELSE leaving[t]]
    /\ sweep' = [sweep EXCEPT ![i] = "idle"]
    /\ late' \in {late, FALSE}
    /\ owed' = owed - Cardinality(lost) - B2N(sweep[i] \in Owing)
    /\ UNCHANGED <<redis, view, acts>>

-----------------------------------------------------------------------------

Init ==
    /\ open = {} /\ late = FALSE
    /\ joining = [t \in Tabs |-> "idle"] /\ was = [t \in Tabs |-> FALSE]
    /\ leaving = [t \in Tabs |-> "idle"]
    /\ sweep = [i \in Instances |-> "idle"]
    /\ score = "none" /\ conns = 0 /\ owed = 0
    /\ view = FALSE
    /\ acts = 0 /\ faults = 0

OnConnect(t) == LookUp(t) \/ CountUp(t) \/ AddEntry(t) \/ AnnounceOnline(t)
OnDisconnect(t) == CountDown(t) \/ ClearCount(t) \/ RemoveEntry(t) \/ AnnounceOffline(t)
Sweep(i) == FindStale(i) \/ Reap(i) \/ ClearReaped(i) \/ AnnounceReaped(i)

Next ==
    \/ \E t \in Tabs :
          \/ Open(t) \/ Close(t)
          \/ OnConnect(t) \/ OnDisconnect(t)
    \/ \E i \in Instances : Sweep(i) \/ Crash(i)
    \/ Heartbeat \/ GoStale \/ Poll \/ SetStatus

Spec == Init /\ [][Next]_vars

\* Some spawned task and some sweeper goes on as long as one can, the intervals of
\* heartbeats and of the contact's poll fire, and time passes; more is not needed, as
\* there are finitely many tasks.  Nobody has to close a tab.
FairSpec ==
    /\ Spec
    /\ WF_vars(\E t \in Tabs : OnConnect(t) \/ OnDisconnect(t))
    /\ WF_vars(\E i \in Instances : Sweep(i))
    /\ WF_vars(Heartbeat) /\ WF_vars(GoStale) /\ WF_vars(Poll)

-----------------------------------------------------------------------------
(* Properties *)

TypeOK ==
    /\ open \in SUBSET Tabs /\ late \in BOOLEAN
    /\ joining \in [Tabs -> JoinStages] /\ was \in [Tabs -> BOOLEAN]
    /\ leaving \in [Tabs -> LeaveStages]
    /\ sweep \in [Instances -> SweepStages]
    /\ score \in {"none", "fresh", "stale"} /\ conns \in Int
    /\ view \in BOOLEAN
    /\ owed \in Int
    /\ acts \in Nat /\ faults \in Nat

\* presence.rs:141-142 and :104-105, "contacts receive exactly one offline
\* event": between the disconnects of all tabs and the sweepers of all instances,
\* every entry that was made is still there or has one task that announces its
\* end; only the crash of that task loses the announcement.
Announcers ==
    Cardinality({t \in Tabs : leaving[t] = "announce"})
      + Cardinality({i \in Instances : sweep[i] \in Owing})

OneOfflineEach == owed = B2N(score # "none") + Announcers

\* presence.rs:11-13: whatever tabs, races and lost frames have done to
\* the score and the counter, once the user opens no more tabs the contact comes
\* to see, and goes on seeing, whether one is open.
DotSettles == <>[](view = (open # {}))
=============================================================================
