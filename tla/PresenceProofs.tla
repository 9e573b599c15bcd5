---------------------------- MODULE PresenceProofs ----------------------------
(***************************************************************************)
(* Presence for any number of tabs, instances, failed commands and crashes: *)
(* the end of every entry of presence:online is announced by one task.     *)
(***************************************************************************)
EXTENDS Presence, FiniteSetTheorems, TLAPS

\* The tasks that have removed an entry and are about to announce it.
Quitters == {t \in Tabs : leaving[t] = "announce"}
Reapers == {i \in Instances : sweep[i] \in Owing}
Quitting == Cardinality(Quitters)
Reaping == Cardinality(Reapers)

\* The task of a tab's last disconnect has ended when the tab connects again.
OpenIsQuiet == \A t \in open : leaving[t] = "idle"

Inv == TypeOK /\ OpenIsQuiet /\ OneOfflineEach

LEMMA Counts == Quitting \in Nat /\ Reaping \in Nat
<1>1. Quitters \in SUBSET Tabs /\ Reapers \in SUBSET Instances
  BY DEF Quitters, Reapers
<1>2. IsFiniteSet(Quitters) /\ IsFiniteSet(Reapers)
  BY <1>1, FiniteAssumption, FS_Subset
<1> QED  BY <1>2, FS_CardinalityType DEF Quitting, Reaping

\* OneOfflineEach in terms of the two counts.
LEMMA Balance ==
    /\ OneOfflineEach <=> owed = B2N(score # "none") + (Quitting + Reaping)
    /\ OneOfflineEach' <=> owed' = B2N(score' # "none") + (Quitting' + Reaping')
BY DEF OneOfflineEach, Announcers, Quitting, Reaping, Quitters, Reapers

LEMMA Bits == B2N(TRUE) = 1 /\ B2N(FALSE) = 0
BY DEF B2N

\* One task moves, to announce, from announcing, or otherwise.
LEMMA QuitterMoves ==
    ASSUME TypeOK, NEW t \in Tabs, NEW stage \in LeaveStages,
           leaving' = [leaving EXCEPT ![t] = stage]
    PROVE  /\ leaving' \in [Tabs -> LeaveStages]
           /\ (stage = "announce" <=> leaving[t] = "announce") => Quitting' = Quitting
           /\ stage = "announce" /\ leaving[t] # "announce" => Quitting' = Quitting + 1
           /\ stage # "announce" /\ leaving[t] = "announce" => Quitting' = Quitting - 1
<1>1. IsFiniteSet(Quitters)
  <2>1. Quitters \in SUBSET Tabs  BY DEF Quitters
  <2> QED  BY <2>1, FiniteAssumption, FS_Subset
<1>2. leaving' \in [Tabs -> LeaveStages]  BY DEF TypeOK
<1>3. t \in Quitters <=> leaving[t] = "announce"  BY DEF Quitters
<1>4. stage = "announce" => Quitters' = Quitters \cup {t}
  BY DEF TypeOK, Quitters
<1>5. stage # "announce" => Quitters' = Quitters \ {t}
  BY DEF TypeOK, Quitters
<1>6. Cardinality(Quitters \cup {t}) = IF t \in Quitters THEN Cardinality(Quitters)
                                       ELSE Cardinality(Quitters) + 1
  BY <1>1, FS_AddElement
<1>7. Cardinality(Quitters \ {t}) = IF t \in Quitters THEN Cardinality(Quitters) - 1
                                    ELSE Cardinality(Quitters)
  BY <1>1, FS_RemoveElement
<1> QED  BY <1>2, <1>3, <1>4, <1>5, <1>6, <1>7 DEF Quitting

LEMMA ReaperMoves ==
    ASSUME TypeOK, NEW i \in Instances, NEW stage \in SweepStages,
           sweep' = [sweep EXCEPT ![i] = stage]
    PROVE  /\ sweep' \in [Instances -> SweepStages]
           /\ (stage \in Owing <=> sweep[i] \in Owing) => Reaping' = Reaping
           /\ stage \in Owing /\ sweep[i] \notin Owing => Reaping' = Reaping + 1
           /\ stage \notin Owing /\ sweep[i] \in Owing => Reaping' = Reaping - 1
<1>1. IsFiniteSet(Reapers)
  <2>1. Reapers \in SUBSET Instances  BY DEF Reapers
  <2> QED  BY <2>1, FiniteAssumption, FS_Subset
<1>2. sweep' \in [Instances -> SweepStages]  BY DEF TypeOK
<1>3. i \in Reapers <=> sweep[i] \in Owing  BY DEF Reapers
<1>4. stage \in Owing => Reapers' = Reapers \cup {i}
  BY DEF TypeOK, Reapers
<1>5. stage \notin Owing => Reapers' = Reapers \ {i}
  BY DEF TypeOK, Reapers
<1>6. Cardinality(Reapers \cup {i}) = IF i \in Reapers THEN Cardinality(Reapers)
                                      ELSE Cardinality(Reapers) + 1
  BY <1>1, FS_AddElement
<1>7. Cardinality(Reapers \ {i}) = IF i \in Reapers THEN Cardinality(Reapers) - 1
                                   ELSE Cardinality(Reapers)
  BY <1>1, FS_RemoveElement
<1> QED  BY <1>2, <1>3, <1>4, <1>5, <1>6, <1>7 DEF Reaping

LEMMA SameCounts ==
    /\ UNCHANGED leaving => Quitting' = Quitting
    /\ UNCHANGED sweep => Reaping' = Reaping
BY DEF Quitting, Reaping, Quitters, Reapers

\* A write of the score is counted when it makes an entry.
LEMMA AddCounts ==
    ASSUME TypeOK, Add
    PROVE  /\ score' \in {"none", "fresh", "stale"} /\ owed' \in Int /\ faults' \in Nat
           /\ owed' - B2N(score' # "none") = owed - B2N(score # "none")
<1>1. CASE score' = "fresh" /\ owed' = owed + B2N(score = "none") /\ UNCHANGED faults
  BY <1>1 DEF TypeOK, B2N
<1>2. CASE Fault /\ UNCHANGED <<score, owed>>
  BY <1>2 DEF TypeOK, Fault, B2N
<1> QED  BY <1>1, <1>2 DEF Add

LEMMA DeleteType == TypeOK /\ Delete => conns' \in Int /\ faults' \in Nat
BY DEF TypeOK, Delete, Fault

LEMMA FaultType == TypeOK /\ Fault => faults' \in Nat
BY DEF TypeOK, Fault

-----------------------------------------------------------------------------

LEMMA InitInv == Init => Inv
<1> SUFFICES ASSUME Init PROVE Inv  OBVIOUS
<1>1. TypeOK
  <2>1. /\ joining \in [Tabs -> JoinStages] /\ leaving \in [Tabs -> LeaveStages]
        /\ sweep \in [Instances -> SweepStages]
    BY DEF Init, JoinStages, LeaveStages, SweepStages
  <2>2. was \in [Tabs -> BOOLEAN] /\ late \in BOOLEAN /\ view \in BOOLEAN
    BY DEF Init
  <2>3. /\ open \in SUBSET Tabs /\ score \in {"none", "fresh", "stale"} /\ conns \in Int
        /\ owed \in Int /\ acts \in Nat /\ faults \in Nat
    BY DEF Init
  <2> QED  BY <2>1, <2>2, <2>3 DEF TypeOK
<1>2. Quitters = {} /\ Reapers = {}
  BY DEF Init, Quitters, Reapers, Owing
<1>3. Quitting = 0 /\ Reaping = 0
  BY <1>2, FS_EmptySet DEF Quitting, Reaping
<1>4. OneOfflineEach
  <2>1. B2N(score # "none") = 0 /\ owed = 0  BY DEF Init, B2N
  <2> QED  BY <1>3, <2>1, Balance
<1>5. OpenIsQuiet
  BY DEF Init, OpenIsQuiet
<1> QED  BY <1>1, <1>4, <1>5 DEF Inv

\* Steps that neither touch the entry nor move a task to or from announcing.
LEMMA FrameBalance ==
    ASSUME Inv, UNCHANGED <<score, owed>>, Quitting' = Quitting, Reaping' = Reaping
    PROVE  OneOfflineEach'
BY Balance DEF Inv

LEMMA SocketInv ==
    ASSUME Inv, NEW t \in Tabs, Open(t) \/ Close(t)
    PROVE  Inv'
<1> USE DEF Inv
<1>1. CASE Open(t)
  <2>1. TypeOK'
    BY <1>1 DEF Open, TypeOK, JoinStages, redis
  <2>2. OpenIsQuiet'
    BY <1>1 DEF Open, OpenIsQuiet
  <2>3. OneOfflineEach'
    BY <1>1, SameCounts, FrameBalance DEF Open, redis
  <2> QED  BY <2>1, <2>2, <2>3
<1>2. CASE Close(t)
  <2>1. "count" \in LeaveStages /\ "count" # "announce"  BY DEF LeaveStages
  <2>2. leaving' = [leaving EXCEPT ![t] = "count"] /\ leaving[t] = "idle"
    BY <1>2 DEF Close, OpenIsQuiet
  <2>3. TypeOK'
    BY <1>2, <2>1, <2>2 DEF Close, TypeOK, redis
  <2>4. OpenIsQuiet'
    BY <1>2, <2>2 DEF Close, OpenIsQuiet, TypeOK
  <2>5. Quitting' = Quitting  BY <2>1, <2>2, QuitterMoves
  <2>6. OneOfflineEach'
    BY <1>2, <2>5, SameCounts, FrameBalance DEF Close, redis
  <2> QED  BY <2>3, <2>4, <2>6
<1> QED  BY <1>1, <1>2

\* Heartbeats and on_connect write the score by Add.
LEMMA EntryInv ==
    ASSUME Inv, Heartbeat \/ \E t \in Tabs : AddEntry(t)
    PROVE  Inv'
<1> USE DEF Inv
<1>1. Add /\ UNCHANGED <<open, leaving, sweep, conns, view, acts>>
  BY DEF Heartbeat, AddEntry
<1>2. /\ score' \in {"none", "fresh", "stale"} /\ owed' \in Int /\ faults' \in Nat
      /\ owed' - B2N(score' # "none") = owed - B2N(score # "none")
  BY <1>1, AddCounts
<1>3. late' \in BOOLEAN /\ joining' \in [Tabs -> JoinStages] /\ was' \in [Tabs -> BOOLEAN]
  <2>1. CASE Heartbeat
    BY <2>1 DEF Heartbeat, TypeOK
  <2>2. ASSUME NEW t \in Tabs, AddEntry(t)
        PROVE  late' \in BOOLEAN /\ joining' \in [Tabs -> JoinStages]
               /\ was' \in [Tabs -> BOOLEAN]
    BY <2>2 DEF AddEntry, TypeOK, JoinStages
  <2> QED  BY <2>1, <2>2
<1>4. TypeOK'  BY <1>1, <1>2, <1>3 DEF TypeOK
<1>5. Quitting' = Quitting /\ Reaping' = Reaping  BY <1>1, SameCounts
<1>6. owed \in Int /\ B2N(score # "none") \in Int /\ B2N(score' # "none") \in Int
  BY DEF TypeOK, B2N
<1>7. OneOfflineEach'  BY <1>2, <1>5, <1>6, Balance, Counts
<1>8. OpenIsQuiet'  BY <1>1 DEF OpenIsQuiet
<1> QED  BY <1>4, <1>7, <1>8

\* What changes neither the entry nor who announces its end.
LEMMA AsideInv ==
    ASSUME Inv,
           \/ \E t \in Tabs : LookUp(t) \/ CountUp(t) \/ AnnounceOnline(t)
           \/ Poll \/ SetStatus
    PROVE  Inv'
<1> USE DEF Inv
<1>1. UNCHANGED <<open, leaving, late, sweep, score, owed>>
  BY DEF LookUp, CountUp, AnnounceOnline, Poll, SetStatus, tasks, redis
<1>2. /\ joining' \in [Tabs -> JoinStages] /\ was' \in [Tabs -> BOOLEAN]
      /\ conns' \in Int /\ view' \in BOOLEAN /\ acts' \in Nat /\ faults' \in Nat
  <2>1. CASE Poll \/ SetStatus
    <3>1. (score = "fresh") \in BOOLEAN  OBVIOUS
    <3>2. view' \in BOOLEAN  BY <2>1, <3>1 DEF Poll, SetStatus
    <3>3. UNCHANGED <<joining, was, conns, faults>> /\ acts' \in Nat
      BY <2>1 DEF Poll, SetStatus, TypeOK, tasks, redis
    <3> QED  BY <3>2, <3>3 DEF TypeOK
  <2>2. ASSUME NEW t \in Tabs, LookUp(t) \/ CountUp(t) \/ AnnounceOnline(t)
        PROVE  /\ joining' \in [Tabs -> JoinStages] /\ was' \in [Tabs -> BOOLEAN]
               /\ conns' \in Int /\ view' \in BOOLEAN /\ acts' \in Nat /\ faults' \in Nat
    <3>1. faults' \in Nat
      BY <2>2, FaultType DEF LookUp, CountUp, AnnounceOnline, Frame, TypeOK
    <3>2. CASE LookUp(t)
      <4>1. (score = "fresh") \in BOOLEAN  OBVIOUS
      <4>2. was' \in [Tabs -> BOOLEAN]
        BY <3>2, <4>1 DEF LookUp, TypeOK
      <4> QED  BY <3>1, <3>2, <4>2 DEF LookUp, TypeOK, JoinStages, redis
    <3>3. CASE CountUp(t)
      BY <3>1, <3>3 DEF CountUp, TypeOK, JoinStages
    <3>4. CASE AnnounceOnline(t)
      BY <3>1, <3>4 DEF AnnounceOnline, Frame, TypeOK, JoinStages, redis
    <3> QED  BY <2>2, <3>2, <3>3, <3>4
  <2> QED  BY <2>1, <2>2
<1>3. TypeOK'  BY <1>1, <1>2 DEF TypeOK
<1>4. OneOfflineEach'  BY <1>1, SameCounts, FrameBalance
<1>5. OpenIsQuiet'  BY <1>1 DEF OpenIsQuiet
<1> QED  BY <1>3, <1>4, <1>5

LEMMA GoStaleInv == Inv /\ GoStale => Inv'
<1> SUFFICES ASSUME Inv, GoStale PROVE Inv'  OBVIOUS
<1> USE DEF Inv
<1>1. /\ score = "fresh" /\ score' = "stale"
      /\ UNCHANGED <<open, joining, was, leaving, late, sweep, conns, view, owed, acts>>
      /\ faults' \in Nat
  BY FaultType DEF GoStale, tasks, TypeOK
<1>2. TypeOK'  BY <1>1 DEF TypeOK
<1>3. B2N(score' # "none") = B2N(score # "none")  BY <1>1 DEF B2N
<1>4. OneOfflineEach'  BY <1>1, <1>3, SameCounts, Balance
<1>5. OpenIsQuiet'  BY <1>1 DEF OpenIsQuiet
<1> QED  BY <1>2, <1>4, <1>5

-----------------------------------------------------------------------------
(* The tasks that remove the entry *)

\* A task of on_disconnect takes its next command; opens and sweeps stand by.
LEMMA QuitterInv ==
    ASSUME Inv, NEW t \in Tabs, NEW stage \in LeaveStages,
           leaving[t] # "idle",
           leaving' = [leaving EXCEPT ![t] = stage],
           UNCHANGED <<open, joining, was, late, sweep, acts>>,
           score' \in {"none", "fresh", "stale"}, conns' \in Int, view' \in BOOLEAN,
           owed' \in Int, faults' \in Nat,
           owed' = (((owed - B2N(score # "none")) - B2N(leaving[t] = "announce"))
                      + B2N(score' # "none")) + B2N(stage = "announce")
    PROVE  Inv'
<1> USE DEF Inv
<1>1. TypeOK'  BY QuitterMoves DEF TypeOK
<1>2. OpenIsQuiet'  BY DEF OpenIsQuiet, TypeOK
<1>3. Quitting' = Quitting + B2N(stage = "announce") - B2N(leaving[t] = "announce")
  <2>1. CASE stage = "announce" <=> leaving[t] = "announce"
    <3>1. Quitting' = Quitting  BY <2>1, QuitterMoves
    <3> QED  BY <2>1, <3>1, Counts DEF B2N
  <2>2. CASE stage = "announce" /\ leaving[t] # "announce"
    <3>1. Quitting' = Quitting + 1  BY <2>2, QuitterMoves
    <3> QED  BY <2>2, <3>1, Counts DEF B2N
  <2>3. CASE stage # "announce" /\ leaving[t] = "announce"
    <3>1. Quitting' = Quitting - 1  BY <2>3, QuitterMoves
    <3> QED  BY <2>3, <3>1, Counts DEF B2N
  <2> QED  BY <2>1, <2>2, <2>3
<1>4. Reaping' = Reaping  BY SameCounts
<1>5. /\ owed \in Int /\ B2N(score # "none") \in Int /\ B2N(score' # "none") \in Int
      /\ B2N(stage = "announce") \in Int /\ B2N(leaving[t] = "announce") \in Int
  BY DEF TypeOK, B2N
<1>6. owed = B2N(score # "none") + (Quitting + Reaping)  BY Balance
<1>7. owed' = B2N(score' # "none") + (Quitting' + Reaping')
  <2> DEFINE a == B2N(score # "none")  b == B2N(score' # "none")
             c == B2N(stage = "announce")  d == B2N(leaving[t] = "announce")
  <2>1. a \in Int /\ b \in Int /\ c \in Int /\ d \in Int  BY <1>5
  <2>2. owed = a + (Quitting + Reaping) /\ owed' = (((owed - a) - d) + b) + c  BY <1>6
  <2>3. Quitting' = Quitting + c - d /\ Reaping' = Reaping  BY <1>3, <1>4
  <2> HIDE DEF a, b, c, d
  <2>4. owed \in Int /\ Quitting \in Int /\ Reaping \in Int
    BY <1>5, Counts
  <2>5. owed = a + (Quitting + Reaping)  BY <2>1, <2>2, <2>4
  <2>6. owed' = (((owed - a) - d) + b) + c  BY <2>2
  <2>7. owed - a = Quitting + Reaping  BY <2>1, <2>4, <2>5
  <2>8. owed' = (((Quitting + Reaping) - d) + b) + c  BY <2>6, <2>7
  <2>9. owed' = b + ((Quitting + c - d) + Reaping)  BY <2>1, <2>4, <2>8
  <2>10. (Quitting + c - d) + Reaping = Quitting' + Reaping'  BY <2>1, <2>3, <2>4
  <2> QED  BY <2>9, <2>10 DEF b
<1>8. OneOfflineEach'  BY <1>7, Balance
<1> QED  BY <1>1, <1>2, <1>8

LEMMA OnDisconnectInv ==
    ASSUME Inv, NEW t \in Tabs, OnDisconnect(t)
    PROVE  Inv'
<1>s. {"idle", "clear", "remove", "announce"} \subseteq LeaveStages  BY DEF LeaveStages
<1>t. TypeOK  BY DEF Inv
<1>1. UNCHANGED <<open, joining, was, late, sweep, acts>>
  BY DEF OnDisconnect, CountDown, ClearCount, RemoveEntry, AnnounceOffline, redis
<1>2. CASE CountDown(t)
  <2>1. PICK stage \in {"clear", "idle", "remove"} :
          leaving' = [leaving EXCEPT ![t] = stage]
    BY <1>2 DEF CountDown
  <2>2. /\ leaving[t] = "count" /\ UNCHANGED <<score, view, owed>>
        /\ conns' \in Int /\ faults' \in Nat
    BY <1>2, <1>t, FaultType DEF CountDown, TypeOK
  <2>3. stage \in LeaveStages /\ leaving[t] # "idle"  BY <1>s, <2>2
  <2>4. owed' = (((owed - B2N(score # "none")) - B2N(leaving[t] = "announce"))
          + B2N(score' # "none")) + B2N(stage = "announce")
    BY <1>t, <2>1, <2>2 DEF B2N, TypeOK
  <2>5. /\ score' \in {"none", "fresh", "stale"} /\ view' \in BOOLEAN /\ owed' \in Int
    BY <1>t, <2>2 DEF TypeOK
  <2> QED  BY <1>1, <2>1, <2>2, <2>3, <2>4, <2>5, QuitterInv
<1>3. CASE ClearCount(t)
  <2>1. /\ leaving[t] = "clear" /\ leaving' = [leaving EXCEPT ![t] = "remove"]
        /\ UNCHANGED <<score, view, owed>>
    BY <1>3 DEF ClearCount
  <2>2. "remove" \in LeaveStages /\ leaving[t] # "idle"  BY <1>s, <2>1
  <2>3. owed' = (((owed - B2N(score # "none")) - B2N(leaving[t] = "announce"))
          + B2N(score' # "none")) + B2N("remove" = "announce")
    BY <1>t, <2>1 DEF B2N, TypeOK
  <2>4. /\ score' \in {"none", "fresh", "stale"} /\ view' \in BOOLEAN /\ owed' \in Int
        /\ conns' \in Int /\ faults' \in Nat
    BY <1>3, <1>t, <2>1, DeleteType DEF ClearCount, TypeOK
  <2> QED  BY <1>1, <2>1, <2>2, <2>3, <2>4, QuitterInv
<1>4. CASE RemoveEntry(t)
  <2>1. leaving[t] = "remove" /\ UNCHANGED <<conns, view, owed>> /\ faults' \in Nat
    BY <1>4, <1>t, FaultType DEF RemoveEntry, TypeOK
  <2>2. CASE /\ score # "none" /\ score' = "none"
             /\ leaving' = [leaving EXCEPT ![t] = "announce"]
    <3>1. "announce" \in LeaveStages /\ leaving[t] # "idle"  BY <1>s, <2>1
    <3>2. owed' = (((owed - B2N(score # "none")) - B2N(leaving[t] = "announce"))
            + B2N(score' # "none")) + B2N("announce" = "announce")
      BY <1>t, <2>1, <2>2 DEF B2N, TypeOK
    <3>3. /\ score' \in {"none", "fresh", "stale"} /\ view' \in BOOLEAN /\ owed' \in Int
          /\ conns' \in Int
      BY <1>t, <2>1, <2>2 DEF TypeOK
    <3> QED  BY <1>1, <2>1, <2>2, <3>1, <3>2, <3>3, QuitterInv
  <2>3. CASE leaving' = [leaving EXCEPT ![t] = "idle"] /\ UNCHANGED score
    <3>1. "idle" \in LeaveStages /\ leaving[t] # "idle"  BY <1>s, <2>1
    <3>2. owed' = (((owed - B2N(score # "none")) - B2N(leaving[t] = "announce"))
            + B2N(score' # "none")) + B2N("idle" = "announce")
      BY <1>t, <2>1, <2>3 DEF B2N, TypeOK
    <3>3. /\ score' \in {"none", "fresh", "stale"} /\ view' \in BOOLEAN /\ owed' \in Int
          /\ conns' \in Int
      BY <1>t, <2>1, <2>3 DEF TypeOK
    <3> QED  BY <1>1, <2>1, <2>3, <3>1, <3>2, <3>3, QuitterInv
  <2> QED  BY <1>4, <2>2, <2>3 DEF RemoveEntry
<1>5. CASE AnnounceOffline(t)
  <2>1. /\ leaving[t] = "announce" /\ leaving' = [leaving EXCEPT ![t] = "idle"]
        /\ owed' = owed - 1 /\ UNCHANGED <<score, conns>>
        /\ view' \in BOOLEAN /\ faults' \in Nat
    BY <1>5, <1>t, FaultType DEF AnnounceOffline, Frame, redis, TypeOK
  <2>2. "idle" \in LeaveStages /\ leaving[t] # "idle"  BY <1>s, <2>1
  <2>3. owed' = (((owed - B2N(score # "none")) - B2N(leaving[t] = "announce"))
          + B2N(score' # "none")) + B2N("idle" = "announce")
    BY <1>t, <2>1 DEF B2N, TypeOK
  <2>4. /\ score' \in {"none", "fresh", "stale"} /\ owed' \in Int /\ conns' \in Int
    BY <1>t, <2>1 DEF TypeOK
  <2> QED  BY <1>1, <2>1, <2>2, <2>3, <2>4, QuitterInv
<1> QED  BY <1>2, <1>3, <1>4, <1>5 DEF OnDisconnect

\* The same for the sweeper of an instance.
LEMMA ReaperInv ==
    ASSUME Inv, NEW i \in Instances, NEW stage \in SweepStages,
           sweep' = [sweep EXCEPT ![i] = stage],
           UNCHANGED <<open, joining, was, leaving, late, acts>>,
           score' \in {"none", "fresh", "stale"}, conns' \in Int, view' \in BOOLEAN,
           owed' \in Int, faults' \in Nat,
           owed' = (((owed - B2N(score # "none")) - B2N(sweep[i] \in Owing))
                      + B2N(score' # "none")) + B2N(stage \in Owing)
    PROVE  Inv'
<1> USE DEF Inv
<1>1. TypeOK'  BY ReaperMoves DEF TypeOK
<1>2. OpenIsQuiet'  BY DEF OpenIsQuiet
<1>3. Reaping' = Reaping + B2N(stage \in Owing) - B2N(sweep[i] \in Owing)
  <2>1. CASE stage \in Owing <=> sweep[i] \in Owing
    <3>1. Reaping' = Reaping  BY <2>1, ReaperMoves
    <3> QED  BY <2>1, <3>1, Counts DEF B2N
  <2>2. CASE stage \in Owing /\ sweep[i] \notin Owing
    <3>1. Reaping' = Reaping + 1  BY <2>2, ReaperMoves
    <3> QED  BY <2>2, <3>1, Counts DEF B2N
  <2>3. CASE stage \notin Owing /\ sweep[i] \in Owing
    <3>1. Reaping' = Reaping - 1  BY <2>3, ReaperMoves
    <3> QED  BY <2>3, <3>1, Counts DEF B2N
  <2> QED  BY <2>1, <2>2, <2>3
<1>4. Quitting' = Quitting  BY SameCounts
<1>5. /\ owed \in Int /\ B2N(score # "none") \in Int /\ B2N(score' # "none") \in Int
      /\ B2N(stage \in Owing) \in Int /\ B2N(sweep[i] \in Owing) \in Int
  BY DEF TypeOK, B2N
<1>6. owed = B2N(score # "none") + (Quitting + Reaping)  BY Balance
<1>7. owed' = B2N(score' # "none") + (Quitting' + Reaping')
  <2> DEFINE a == B2N(score # "none")  b == B2N(score' # "none")
             c == B2N(stage \in Owing)  d == B2N(sweep[i] \in Owing)
  <2>1. a \in Int /\ b \in Int /\ c \in Int /\ d \in Int  BY <1>5
  <2>2. owed = a + (Quitting + Reaping) /\ owed' = (((owed - a) - d) + b) + c  BY <1>6
  <2>3. Reaping' = Reaping + c - d /\ Quitting' = Quitting  BY <1>3, <1>4
  <2> HIDE DEF a, b, c, d
  <2>4. owed \in Int /\ Quitting \in Int /\ Reaping \in Int
    BY <1>5, Counts
  <2>5. owed = a + (Reaping + Quitting)  BY <2>1, <2>2, <2>4
  <2>6. owed' = (((owed - a) - d) + b) + c  BY <2>2
  <2>7. owed - a = Reaping + Quitting  BY <2>1, <2>4, <2>5
  <2>8. owed' = (((Reaping + Quitting) - d) + b) + c  BY <2>6, <2>7
  <2>9. owed' = b + ((Reaping + c - d) + Quitting)  BY <2>1, <2>4, <2>8
  <2>10. (Reaping + c - d) + Quitting = Quitting' + Reaping'  BY <2>1, <2>3, <2>4
  <2> QED  BY <2>9, <2>10 DEF b
<1>8. OneOfflineEach'  BY <1>7, Balance
<1> QED  BY <1>1, <1>2, <1>8

LEMMA SweepInv ==
    ASSUME Inv, NEW i \in Instances, Sweep(i)
    PROVE  Inv'
<1>s. {"idle", "remove", "clear", "announce"} \subseteq SweepStages  BY DEF SweepStages
<1>t. TypeOK  BY DEF Inv
<1>1. UNCHANGED <<open, joining, was, leaving, late, acts>>
  BY DEF Sweep, FindStale, Reap, ClearReaped, AnnounceReaped, redis
<1>2. CASE FindStale(i)
  <2>1. /\ sweep[i] = "idle" /\ sweep' = [sweep EXCEPT ![i] = "remove"]
        /\ UNCHANGED <<score, conns, view, owed, faults>>
    BY <1>2 DEF FindStale, redis
  <2>2. "remove" \in SweepStages  BY <1>s
  <2>3. owed' = (((owed - B2N(score # "none")) - B2N(sweep[i] \in Owing))
          + B2N(score' # "none")) + B2N("remove" \in Owing)
    BY <1>t, <2>1 DEF B2N, Owing, TypeOK
  <2>4. /\ score' \in {"none", "fresh", "stale"} /\ view' \in BOOLEAN /\ owed' \in Int
        /\ conns' \in Int /\ faults' \in Nat
    BY <1>t, <2>1 DEF TypeOK
  <2> QED  BY <1>1, <2>1, <2>2, <2>3, <2>4, ReaperInv
<1>3. CASE Reap(i)
  <2>1. sweep[i] = "remove" /\ UNCHANGED <<conns, view, owed>> /\ faults' \in Nat
    BY <1>3, <1>t, FaultType DEF Reap, TypeOK
  <2>2. CASE /\ score # "none" /\ score' = "none"
             /\ sweep' = [sweep EXCEPT ![i] = "clear"]
    <3>1. "clear" \in SweepStages  BY <1>s
    <3>2. owed' = (((owed - B2N(score # "none")) - B2N(sweep[i] \in Owing))
            + B2N(score' # "none")) + B2N("clear" \in Owing)
      BY <1>t, <2>1, <2>2 DEF B2N, Owing, TypeOK
    <3>3. /\ score' \in {"none", "fresh", "stale"} /\ view' \in BOOLEAN /\ owed' \in Int
          /\ conns' \in Int
      BY <1>t, <2>1, <2>2 DEF TypeOK
    <3> QED  BY <1>1, <2>1, <2>2, <3>1, <3>2, <3>3, ReaperInv
  <2>3. CASE sweep' = [sweep EXCEPT ![i] = "idle"] /\ UNCHANGED score
    <3>1. "idle" \in SweepStages  BY <1>s
    <3>2. owed' = (((owed - B2N(score # "none")) - B2N(sweep[i] \in Owing))
            + B2N(score' # "none")) + B2N("idle" \in Owing)
      BY <1>t, <2>1, <2>3 DEF B2N, Owing, TypeOK
    <3>3. /\ score' \in {"none", "fresh", "stale"} /\ view' \in BOOLEAN /\ owed' \in Int
          /\ conns' \in Int
      BY <1>t, <2>1, <2>3 DEF TypeOK
    <3> QED  BY <1>1, <2>1, <2>3, <3>1, <3>2, <3>3, ReaperInv
  <2> QED  BY <1>3, <2>2, <2>3 DEF Reap
<1>4. CASE ClearReaped(i)
  <2>1. /\ sweep[i] = "clear" /\ sweep' = [sweep EXCEPT ![i] = "announce"]
        /\ UNCHANGED <<score, view, owed>>
    BY <1>4 DEF ClearReaped
  <2>2. "announce" \in SweepStages  BY <1>s
  <2>3. owed' = (((owed - B2N(score # "none")) - B2N(sweep[i] \in Owing))
          + B2N(score' # "none")) + B2N("announce" \in Owing)
    BY <1>t, <2>1 DEF B2N, Owing, TypeOK
  <2>4. /\ score' \in {"none", "fresh", "stale"} /\ view' \in BOOLEAN /\ owed' \in Int
        /\ conns' \in Int /\ faults' \in Nat
    BY <1>4, <1>t, <2>1, DeleteType DEF ClearReaped, TypeOK
  <2> QED  BY <1>1, <2>1, <2>2, <2>3, <2>4, ReaperInv
<1>5. CASE AnnounceReaped(i)
  <2>1. /\ sweep[i] = "announce" /\ sweep' = [sweep EXCEPT ![i] = "idle"]
        /\ owed' = owed - 1 /\ UNCHANGED <<score, conns>>
        /\ view' \in BOOLEAN /\ faults' \in Nat
    BY <1>5, <1>t, FaultType DEF AnnounceReaped, Frame, redis, TypeOK
  <2>2. "idle" \in SweepStages  BY <1>s
  <2>3. owed' = (((owed - B2N(score # "none")) - B2N(sweep[i] \in Owing))
          + B2N(score' # "none")) + B2N("idle" \in Owing)
    BY <1>t, <2>1 DEF B2N, Owing, TypeOK
  <2>4. /\ score' \in {"none", "fresh", "stale"} /\ owed' \in Int /\ conns' \in Int
    BY <1>t, <2>1 DEF TypeOK
  <2> QED  BY <1>1, <2>1, <2>2, <2>3, <2>4, ReaperInv
<1> QED  BY <1>2, <1>3, <1>4, <1>5 DEF Sweep

\* Only the crash of an announcing task loses the announcement.
LEMMA CrashInv ==
    ASSUME Inv, NEW i \in Instances, Crash(i)
    PROVE  Inv'
<1> USE DEF Inv
<1> DEFINE dead == {t \in Tabs : At[t] = i}
           gone == {t \in dead : leaving[t] = "announce"}
<1>1. /\ open' = open \ dead
      /\ leaving' = [t \in Tabs |-> IF t \in dead THEN "idle" ELSE leaving[t]]
      /\ sweep' = [sweep EXCEPT ![i] = "idle"]
      /\ owed' = owed - Cardinality(gone) - B2N(sweep[i] \in Owing)
      /\ UNCHANGED <<score, conns, view, acts>>
  BY DEF Crash, redis
<1>2. IsFiniteSet(Quitters) /\ IsFiniteSet(gone)
  <2>1. Quitters \in SUBSET Tabs /\ gone \in SUBSET Tabs  BY DEF Quitters
  <2> QED  BY <2>1, FiniteAssumption, FS_Subset
<1>3. Quitting' = Quitting - Cardinality(gone)
  <2>1. Quitters' = Quitters \ gone  BY <1>1 DEF Quitters, TypeOK
  <2>2. Quitters \cap gone = gone  BY DEF Quitters
  <2> HIDE DEF gone
  <2> QED  BY <1>2, <2>1, <2>2, FS_Difference DEF Quitting
<1>4. Reaping' = Reaping - B2N(sweep[i] \in Owing)
  <2>1. "idle" \in SweepStages /\ "idle" \notin Owing  BY DEF SweepStages, Owing
  <2>2. /\ sweep[i] \notin Owing => Reaping' = Reaping
        /\ sweep[i] \in Owing => Reaping' = Reaping - 1
    BY <1>1, <2>1, ReaperMoves
  <2> QED  BY <2>2, Counts DEF B2N
<1>5. Cardinality(gone) \in Nat  BY <1>2, FS_CardinalityType
<1>6. owed \in Int /\ B2N(score # "none") \in Int /\ B2N(sweep[i] \in Owing) \in Int
  BY DEF TypeOK, B2N
<1>7. owed' \in Int /\ faults' \in Nat  BY <1>1, <1>5, <1>6, FaultType DEF Crash
<1>8. TypeOK'
  <2>1. /\ joining' \in [Tabs -> JoinStages] /\ was' \in [Tabs -> BOOLEAN]
        /\ late' \in BOOLEAN
    BY DEF Crash, TypeOK, JoinStages
  <2>2. /\ leaving' \in [Tabs -> LeaveStages] /\ sweep' \in [Instances -> SweepStages]
        /\ open' \in SUBSET Tabs
    BY <1>1 DEF TypeOK, LeaveStages, SweepStages
  <2> QED  BY <1>1, <1>7, <2>1, <2>2 DEF TypeOK
<1>9. OneOfflineEach'
  <2> HIDE DEF gone
  <2>1. score' = score  BY <1>1
  <2> QED  BY <1>1, <1>3, <1>4, <1>5, <1>6, <2>1, Balance, Counts
<1>10. OpenIsQuiet'  BY <1>1 DEF OpenIsQuiet, TypeOK
<1> QED  BY <1>8, <1>9, <1>10

-----------------------------------------------------------------------------
(* Theorems *)

\* The inductive invariant behind the other theorems.
THEOREM Invariance == Spec => []Inv
<1>1. Inv /\ [Next]_vars => Inv'
  <2> SUFFICES ASSUME Inv, [Next]_vars PROVE Inv'  OBVIOUS
  <2>1. CASE UNCHANGED vars
    <3>1. TypeOK' /\ OpenIsQuiet'  BY <2>1 DEF vars, Inv, TypeOK, OpenIsQuiet
    <3>2. UNCHANGED <<score, owed, leaving, sweep>>  BY <2>1 DEF vars
    <3> QED  BY <3>1, <3>2, SameCounts, FrameBalance DEF Inv
  <2>2. ASSUME NEW t \in Tabs, OnConnect(t) PROVE Inv'
    BY <2>2, EntryInv, AsideInv DEF OnConnect
  <2> QED  BY <2>1, <2>2, SocketInv, EntryInv, AsideInv, GoStaleInv, OnDisconnectInv,
              SweepInv, CrashInv DEF Next
<1> QED  BY <1>1, InitInv, PTL DEF Spec

\* The sockets, tasks and the keys in Redis keep their types.
THEOREM TypeCorrect == Spec => []TypeOK
<1>1. Inv => TypeOK  BY DEF Inv
<1> QED  BY <1>1, Invariance, PTL

\* presence.rs:141-142: for any number of tabs and instances, whoever removes the
\* entry announces its end, once; only that task's crash loses it.
THEOREM EndsAnnouncedOnce == Spec => []OneOfflineEach
<1>1. Inv => OneOfflineEach  BY DEF Inv
<1> QED  BY <1>1, Invariance, PTL
=============================================================================
