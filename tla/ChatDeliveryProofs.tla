------------------------- MODULE ChatDeliveryProofs -------------------------
(***************************************************************************)
(* ChatDelivery for any number of messages, drops and lost frames: statuses *)
(* and ticks only rise, the ticks are true, no message to a connected       *)
(* receiver is left as sent, and a receiver misses only what is excused.    *)
(***************************************************************************)
EXTENDS ChatDelivery, WellFoundedInduction, SequenceTheorems, TLAPS

LEMMA RankFacts ==
    /\ Rank["none"] = 0 /\ Rank["sent"] = 1 /\ Rank["delivered"] = 2 /\ Rank["read"] = 3
    /\ \A s \in Statuses : Rank[s] \in 0..3
BY DEF Rank, Statuses

\* Every nonempty set of numbers up to n has a greatest one, by the least number of
\* the differences.
Less == {ss \in Nat \X Nat : ss[1] < ss[2]}

LEMMA LessIsWellFounded == IsWellFoundedOn(Less, Nat)
<1>1. IsWellFoundedOn(OpToRel(<, Nat), Nat)  BY NatLessThanWellFounded
<1> QED  BY <1>1 DEF OpToRel, Less

LEMMA LeastNat ==
    ASSUME NEW T \in SUBSET Nat, T # {}
    PROVE  \E x \in T : \A y \in T : x <= y
<1>1. PICK x \in T : \A y \in T : <<y, x>> \notin Less
  BY LessIsWellFounded, WFMin
<1>2. ASSUME NEW y \in T PROVE x <= y
  <2>1. x \in Nat /\ y \in Nat  OBVIOUS
  <2>2. y < x => <<y, x>> \in Less  BY <2>1 DEF Less
  <2> QED  BY <1>1, <2>1, <2>2
<1> QED  BY <1>2

LEMMA GreatestNat ==
    ASSUME NEW n \in Nat, NEW T \in SUBSET (0..n), T # {}
    PROVE  \E x \in T : \A y \in T : x >= y
<1> DEFINE U == {n - t : t \in T}
<1>1. U \in SUBSET Nat
  <2>1. \A t \in T : n - t \in Nat  OBVIOUS
  <2> QED  BY <2>1
<1>2. U # {}  OBVIOUS
<1>3. PICK u \in U : \A v \in U : u <= v
  <2> HIDE DEF U
  <2> QED  BY <1>1, <1>2, LeastNat
<1>4. PICK x \in T : u = n - x  BY <1>3
<1>5. \A y \in T : n - y \in U  OBVIOUS
<1>6. \A y \in T : n - x <= n - y
  <2> HIDE DEF U
  <2> QED  BY <1>3, <1>4, <1>5
<1>7. \A y \in T : x >= y  BY <1>6
<1> QED  BY <1>7

-----------------------------------------------------------------------------
(* Statuses and ticks *)

\* A message has a status from its INSERT on.
StoredOnce == \A m \in Ids : db[m] = "none" <=> stage[m] = "none"

\* A frame on its way says what the database has reached.
UpdatesTrue == \A u \in updates : Rank[u[2]] <= Rank[db[u[1]]]

\* An echo and a tick are of a stored message, and "read" is never a guess.
TicksStored ==
    \A m \in Ids :
        /\ echo[m] # "none" => db[m] # "none"
        /\ tick[m] # "none" => db[m] # "none"
        /\ tick[m] = "read" => db[m] = "read"

\* TickIsTrue, of the echo that will set the tick as well.
EchoIsTrue ==
    conn /\ ~sweeping => \A m \in Ids : Rank[echo[m]] <= Rank[db[m]]

Inv == /\ TypeOK /\ StoredOnce /\ UpdatesTrue /\ TicksStored
       /\ DeliveredIsStored /\ EchoIsTrue /\ TickIsTrue

LEMMA NoFrames == <<>> \in Seq(Ids)
BY EmptySeq

LEMMA InitInv == Init => Inv
<1> SUFFICES ASSUME Init PROVE Inv  OBVIOUS
<1>1. TypeOK
  <2>1. wire \in Seq(Ids)  BY NoFrames DEF Init
  <2> QED  BY <2>1 DEF Init, TypeOK, Statuses, Stages
<1>2. StoredOnce /\ UpdatesTrue /\ TicksStored
  BY DEF Init, StoredOnce, UpdatesTrue, TicksStored
<1>3. DeliveredIsStored /\ EchoIsTrue /\ TickIsTrue
  BY DEF Init, DeliveredIsStored, EchoIsTrue, TickIsTrue
<1> QED  BY <1>1, <1>2, <1>3 DEF Inv

\* What a step may do to the statuses: raise those of stored messages.
Raised ==
    /\ db' \in [Ids -> Statuses]
    /\ \A m \in Ids : /\ Rank[db'[m]] >= Rank[db[m]]
                      /\ db[m] # "none" => db'[m] # "none"
                      /\ db[m] = "read" => db'[m] = "read"

\* While statuses rise and the sender's screen waits, what was true on it stays so.
LEMMA RaisedKeeps ==
    ASSUME Inv, Raised, UNCHANGED <<echo, tick>>
    PROVE  /\ TicksStored'
           /\ \A m \in Ids :
                /\ Rank[echo[m]] <= Rank[db[m]] => Rank[echo'[m]] <= Rank[db'[m]]
                /\ Rank[tick[m]] <= Rank[db[m]] => Rank[tick'[m]] <= Rank[db'[m]]
           /\ \A u \in updates : Rank[u[2]] <= Rank[db'[u[1]]]
<1>1. \A m \in Ids : /\ db[m] \in Statuses /\ db'[m] \in Statuses
                     /\ echo[m] \in Statuses /\ tick[m] \in Statuses
  BY DEF Inv, TypeOK, Raised, Statuses
<1>2. TicksStored'  BY DEF Inv, TicksStored, Raised
<1>3. \A m \in Ids :
        /\ Rank[echo[m]] <= Rank[db[m]] => Rank[echo'[m]] <= Rank[db'[m]]
        /\ Rank[tick[m]] <= Rank[db[m]] => Rank[tick'[m]] <= Rank[db'[m]]
  BY <1>1, RankFacts DEF Raised
<1>4. ASSUME NEW u \in updates PROVE Rank[u[2]] <= Rank[db'[u[1]]]
  <2>1. u[1] \in Ids /\ u[2] \in Statuses  BY DEF Inv, TypeOK, Statuses
  <2>2. Rank[u[2]] <= Rank[db[u[1]]] /\ Rank[db[u[1]]] <= Rank[db'[u[1]]]
    BY <2>1 DEF Inv, UpdatesTrue, Raised
  <2> QED  BY <1>1, <2>1, <2>2, RankFacts
<1> QED  BY <1>2, <1>3, <1>4

\* An UPDATE that raises ms to s, and the frames that say so.
LEMMA MarkRaises ==
    ASSUME Inv, NEW ms \in SUBSET Ids, NEW s \in {"delivered", "read"}, Mark(ms, s),
           \A m \in ms : db[m] # "none" /\ Rank[db[m]] <= Rank[s]
    PROVE  /\ Raised
           /\ updates' \in SUBSET (Ids \X {"delivered", "read"})
           /\ \A m \in Ids : db'[m] = "none" <=> db[m] = "none"
           /\ UNCHANGED <<echo, tick>> => UpdatesTrue'
<1>1. db' = [m \in Ids |-> IF m \in ms THEN s ELSE db[m]]
      /\ updates' = updates \cup {<<m, s>> : m \in ms}
  BY DEF Mark
<1>2. \A m \in Ids : db[m] \in Statuses  BY DEF Inv, TypeOK
<1>3. s \in Statuses /\ (s = "read" \/ s = "delivered")  BY DEF Statuses
<1>4. Raised
  <2>1. db' \in [Ids -> Statuses]  BY <1>1, <1>2, <1>3
  <2>2. ASSUME NEW m \in Ids
        PROVE  /\ Rank[db'[m]] >= Rank[db[m]]
               /\ db[m] # "none" => db'[m] # "none"
               /\ db[m] = "read" => db'[m] = "read"
    <3>1. CASE m \in ms
      <4>1. db'[m] = s  BY <1>1, <3>1
      <4>2. Rank[db[m]] \in 0..3 /\ Rank[s] \in 0..3 /\ Rank[db[m]] <= Rank[s]
        BY <1>2, <1>3, <3>1, RankFacts
      <4> QED  BY <1>3, <4>1, <4>2, RankFacts
    <3>2. CASE m \notin ms
      BY <1>1, <1>2, <3>2, RankFacts
    <3> QED  BY <3>1, <3>2
  <2> QED  BY <2>1, <2>2 DEF Raised
<1>5. \A m \in Ids : db'[m] = "none" <=> db[m] = "none"  BY <1>1, <1>3
<1>6. updates' \in SUBSET (Ids \X {"delivered", "read"})
  BY <1>1 DEF Inv, TypeOK
<1>7. ASSUME UNCHANGED <<echo, tick>> PROVE UpdatesTrue'
  <2>1. \A u \in updates : Rank[u[2]] <= Rank[db'[u[1]]]
    BY <1>4, <1>7, RaisedKeeps
  <2>2. ASSUME NEW m \in ms PROVE Rank[s] <= Rank[db'[m]]
    BY <1>1, <1>3, RankFacts
  <2> QED  BY <1>1, <2>1, <2>2 DEF UpdatesTrue
<1> QED  BY <1>4, <1>5, <1>6, <1>7

\* A send: INSERT, the check of the registry, and the second look for the echo.
LEMMA InsertInv ==
    ASSUME Inv, NEW m \in Ids, Insert(m) PROVE Inv'
<1>1. db[m] = "none"  BY DEF Inv, StoredOnce, Insert
<1>2. /\ db' = [db EXCEPT ![m] = "sent"] /\ stage' = [stage EXCEPT ![m] = "stored"]
      /\ UNCHANGED <<conn, sweeping, wire, decrypting, shown, asked, reading, fetched,
                     excused, echo, updates, tick, drops, faults>>
  BY DEF Insert, receiver, fetch, sender
<1>3. Raised
  <2>1. db'[m] \in Statuses /\ (db[m] = "read" => db'[m] = "read")
        /\ Rank[db'[m]] >= Rank[db[m]] /\ db'[m] # "none"
    BY <1>1, <1>2, RankFacts DEF Inv, TypeOK, Statuses
  <2>2. \A n \in Ids \ {m} : db'[n] = db[n] /\ Rank[db[n]] \in 0..3
    BY <1>2, RankFacts DEF Inv, TypeOK
  <2>3. db' \in [Ids -> Statuses]  BY <1>2, <2>1 DEF Inv, TypeOK, Statuses
  <2> QED  BY <2>1, <2>2, <2>3 DEF Raised
<1>4. TypeOK'  BY <1>2, <1>3 DEF Inv, TypeOK, Raised, Stages
<1>5. StoredOnce'  BY <1>2 DEF Inv, TypeOK, StoredOnce
<1>6. DeliveredIsStored'  BY <1>2 DEF Inv, TypeOK, DeliveredIsStored
<1>7. TicksStored' /\ UpdatesTrue' /\ EchoIsTrue' /\ TickIsTrue'
  BY <1>2, <1>3, RaisedKeeps DEF Inv, UpdatesTrue, EchoIsTrue, TickIsTrue
<1> QED  BY <1>4, <1>5, <1>6, <1>7 DEF Inv

LEMMA CheckInv ==
    ASSUME Inv, NEW m \in Ids, Check(m) PROVE Inv'
<1>1. db[m] \in Statuses /\ db[m] # "none"  BY DEF Inv, TypeOK, StoredOnce, Check
<1>2. /\ db' = [db EXCEPT ![m] = IF conn /\ db[m] = "sent" THEN "delivered" ELSE db[m]]
      /\ stage' = [stage EXCEPT ![m] = "checked"] /\ stage[m] = "stored"
      /\ UNCHANGED <<conn, sweeping, wire, decrypting, shown, asked, reading, fetched,
                     excused, echo, updates, tick, drops, faults>>
  BY DEF Check, receiver, fetch, sender
<1>3. Raised
  <2>1. db'[m] \in Statuses /\ (db[m] = "read" => db'[m] = "read")
        /\ Rank[db'[m]] >= Rank[db[m]] /\ db'[m] # "none"
    BY <1>1, <1>2, RankFacts DEF Inv, TypeOK, Statuses
  <2>2. \A n \in Ids \ {m} : db'[n] = db[n] /\ Rank[db[n]] \in 0..3
    BY <1>2, RankFacts DEF Inv, TypeOK
  <2>3. db' \in [Ids -> Statuses]  BY <1>2, <2>1 DEF Inv, TypeOK, Statuses
  <2> QED  BY <2>1, <2>2, <2>3 DEF Raised
<1>4. TypeOK'  BY <1>2, <1>3 DEF Inv, TypeOK, Raised, Stages
<1>5. StoredOnce'  BY <1>1, <1>2 DEF Inv, TypeOK, StoredOnce
<1>6. DeliveredIsStored'  BY <1>2 DEF Inv, TypeOK, DeliveredIsStored
<1>7. TicksStored' /\ UpdatesTrue' /\ EchoIsTrue' /\ TickIsTrue'
  BY <1>2, <1>3, RaisedKeeps DEF Inv, UpdatesTrue, EchoIsTrue, TickIsTrue
<1> QED  BY <1>4, <1>5, <1>6, <1>7 DEF Inv

LEMMA EchoInv ==
    ASSUME Inv, NEW m \in Ids, Echo(m) PROVE Inv'
<1>1. /\ stage[m] = "checked" /\ stage' = [stage EXCEPT ![m] = "echoed"]
      /\ echo' = [echo EXCEPT ![m] = IF conn THEN "delivered" ELSE "sent"]
      /\ UNCHANGED <<db, conn, sweeping, wire, decrypting, shown, asked, reading, fetched, excused, updates,
                     tick, drops, faults>>
  BY DEF Echo, receiver, fetch
<1>2. TypeOK'  BY <1>1 DEF Inv, TypeOK, Stages
<1>3. db[m] \in Statuses /\ db[m] # "none"  BY <1>1 DEF Inv, TypeOK, StoredOnce
<1>4. StoredOnce' /\ UpdatesTrue' /\ TicksStored'
  BY <1>1, <1>3 DEF Inv, TypeOK, StoredOnce, UpdatesTrue, TicksStored
<1>5. DeliveredIsStored' /\ TickIsTrue'
  BY <1>1 DEF Inv, TypeOK, DeliveredIsStored, TickIsTrue
<1>6. EchoIsTrue'
  <2> SUFFICES ASSUME conn, ~sweeping, NEW n \in Ids
               PROVE  Rank[echo'[n]] <= Rank[db[n]]
    BY <1>1 DEF EchoIsTrue
  <2>1. CASE n = m
    <3>1. db[m] \in {"delivered", "read"}
      BY <1>1, <1>3 DEF Inv, DeliveredIsStored, Statuses
    <3>2. echo'[m] = "delivered"  BY <1>1 DEF Inv, TypeOK
    <3> QED  BY <2>1, <3>1, <3>2, RankFacts
  <2>2. CASE n # m
    BY <1>1, <2>2 DEF Inv, TypeOK, EchoIsTrue
  <2> QED  BY <2>1, <2>2
<1> QED  BY <1>2, <1>4, <1>5, <1>6 DEF Inv

\* The sweep, the fetch and the receipt: UPDATEs that raise.
LEMMA SweepInv == ASSUME Inv, Sweep PROVE Inv'
<1> DEFINE ms == {m \in Ids : db[m] = "sent"}
<1>1. /\ sweeping' = FALSE /\ Mark(ms, "delivered")
      /\ UNCHANGED <<stage, conn, wire, decrypting, shown, asked, reading, fetched, excused, echo, tick,
                     drops, faults>>
  BY DEF Sweep, receiver, fetch
<1>2. \A m \in ms : db[m] # "none" /\ Rank[db[m]] <= Rank["delivered"]
  BY RankFacts
<1>3. /\ Raised /\ updates' \in SUBSET (Ids \X {"delivered", "read"})
      /\ \A m \in Ids : db'[m] = "none" <=> db[m] = "none"
      /\ UpdatesTrue'
  BY <1>1, <1>2, MarkRaises
<1>4. TypeOK'  BY <1>1, <1>3 DEF Inv, TypeOK, Raised
<1>5. StoredOnce'  BY <1>1, <1>3 DEF Inv, StoredOnce
<1>6. \A m \in Ids : db'[m] # "sent"  BY <1>1 DEF Mark
<1>7. DeliveredIsStored'  BY <1>6 DEF DeliveredIsStored
<1>8. \A m \in Ids : /\ Rank[echo[m]] <= Rank[db'[m]] /\ Rank[tick[m]] <= Rank[db'[m]]
  <2> SUFFICES ASSUME NEW m \in Ids
               PROVE  Rank[echo[m]] <= Rank[db'[m]] /\ Rank[tick[m]] <= Rank[db'[m]]
    OBVIOUS
  <2>1. /\ db'[m] \in Statuses /\ db[m] \in Statuses /\ tick[m] \in Statuses
        /\ echo[m] \in {"none", "sent", "delivered"}
    BY <1>3 DEF Inv, TypeOK, Raised
  <2>2. db'[m] \in {"none", "delivered", "read"}  BY <1>6, <2>1 DEF Statuses
  <2>3. CASE db'[m] = "none"
    <3>1. echo[m] = "none" /\ tick[m] = "none"
      BY <1>3, <2>3 DEF Inv, TicksStored
    <3> QED  BY <2>3, <3>1, RankFacts
  <2>4. CASE db'[m] = "delivered"
    <3>1. tick[m] # "read"
      BY <1>3, <2>4 DEF Inv, TicksStored, Raised
    <3> QED  BY <2>1, <2>4, <3>1, RankFacts DEF Statuses
  <2>5. CASE db'[m] = "read"
    BY <2>1, <2>5, RankFacts DEF Statuses
  <2> QED  BY <2>2, <2>3, <2>4, <2>5
<1>9. TicksStored' /\ EchoIsTrue' /\ TickIsTrue'
  BY <1>1, <1>3, <1>8, RaisedKeeps DEF EchoIsTrue, TickIsTrue
<1> QED  BY <1>3, <1>4, <1>5, <1>7, <1>9 DEF Inv

LEMMA ReadKeeps ==
    ASSUME Inv, Mark({m \in Stored : db[m] # "read"}, "read"),
           UNCHANGED <<stage, conn, sweeping, echo, tick>>
    PROVE  /\ db' \in [Ids -> Statuses]
           /\ updates' \in SUBSET (Ids \X {"delivered", "read"})
           /\ StoredOnce' /\ UpdatesTrue' /\ TicksStored'
           /\ DeliveredIsStored' /\ EchoIsTrue' /\ TickIsTrue'
<1> DEFINE ms == {m \in Stored : db[m] # "read"}
<1>1. ms \in SUBSET Ids /\ \A m \in ms : db[m] # "none"  BY DEF Stored
<1>2. ASSUME NEW m \in ms PROVE Rank[db[m]] <= Rank["read"]
  <2>1. db[m] \in Statuses  BY <1>1 DEF Inv, TypeOK
  <2> QED  BY <2>1, RankFacts
<1>3. /\ Raised /\ updates' \in SUBSET (Ids \X {"delivered", "read"})
      /\ \A m \in Ids : db'[m] = "none" <=> db[m] = "none"
      /\ UpdatesTrue'
  <2> HIDE DEF ms
  <2> QED  BY <1>1, <1>2, MarkRaises DEF ms
<1>4. StoredOnce'  BY <1>3 DEF Inv, StoredOnce
<1>5. DeliveredIsStored'  BY DEF Inv, DeliveredIsStored, Mark
<1>6. TicksStored' /\ EchoIsTrue' /\ TickIsTrue'
  BY <1>3, RaisedKeeps DEF Inv, EchoIsTrue, TickIsTrue
<1> QED  BY <1>3, <1>4, <1>5, <1>6 DEF Raised

LEMMA ReadReceiptInv == ASSUME Inv, ReadReceipt PROVE Inv'
<1>1. TypeOK'  BY ReadKeeps DEF ReadReceipt, receiver, fetch, Inv, TypeOK
<1> QED  BY <1>1, ReadKeeps DEF ReadReceipt, Inv

LEMMA FetchInv ==
    ASSUME Inv, NEW since \in 0..MaxMessages, Fetch(since) PROVE Inv'
<1>1. /\ asked' \in SUBSET (0..MaxMessages)
      /\ UNCHANGED <<db, stage, conn, sweeping, wire, decrypting, shown, fetched, echo,
                     updates, tick, drops>>
  BY DEF Fetch, sender, Inv, TypeOK
<1>2. {m \in Stored : m > since} \in SUBSET Ids  BY DEF Stored
<1>3. reading' \in SUBSET (SUBSET Ids) /\ excused' \in SUBSET Ids /\ faults' \in Nat
  BY <1>2 DEF Fetch, Fault, Inv, TypeOK
<1>4. TypeOK'  BY <1>1, <1>3 DEF Inv, TypeOK
<1> QED
  BY <1>1, <1>4 DEF Inv, StoredOnce, UpdatesTrue, TicksStored, DeliveredIsStored,
     EchoIsTrue, TickIsTrue

LEMMA MarkReadInv ==
    ASSUME Inv, NEW ms \in SUBSET Ids, MarkRead(ms) PROVE Inv'
<1>1. /\ Mark({m \in Stored : db[m] # "read"}, "read")
      /\ UNCHANGED <<stage, conn, sweeping, wire, decrypting, shown, asked, echo, tick, drops>>
      /\ reading' = reading \ {ms}
  BY DEF MarkRead
<1>2. fetched' \in SUBSET (SUBSET Ids) /\ excused' \in SUBSET Ids /\ faults' \in Nat
  <2>1. CASE fetched' = fetched \cup {ms} /\ UNCHANGED <<excused, faults>>
    BY <2>1 DEF Inv, TypeOK
  <2>2. CASE Fault /\ excused' = excused \cup ms /\ UNCHANGED fetched
    BY <2>2 DEF Fault, Inv, TypeOK
  <2> QED  BY <2>1, <2>2 DEF MarkRead
<1>3. TypeOK'  BY <1>1, <1>2, ReadKeeps DEF Inv, TypeOK
<1> QED  BY <1>1, <1>3, ReadKeeps DEF Inv

\* The receiver's socket and screen, which no status depends on.
LEMMA ScreenInv ==
    ASSUME Inv,
           \/ \E m \in Ids : Publish(m) \/ Show(m)
           \/ Receive \/ \E ms \in SUBSET Ids : Merge(ms)
    PROVE  Inv'
<1>1. /\ UNCHANGED <<db, conn, sweeping, echo, updates, tick>>
      /\ \A m \in Ids : /\ stage'[m] = "stored" <=> stage[m] = "stored"
                        /\ stage'[m] = "none" <=> stage[m] = "none"
  BY DEF Publish, Show, Receive, Merge, sender, Inv, TypeOK
<1>2. TypeOK'
  <2>1. ASSUME NEW m \in Ids, Publish(m) PROVE TypeOK'
    <3>1. wire' = wire \/ wire' = Append(wire, m)  BY <2>1 DEF Publish
    <3>2. wire \in Seq(Ids)  BY DEF Inv, TypeOK
    <3>3. Append(wire, m) \in Seq(Ids)  BY <3>2, AppendProperties
    <3>4. wire' \in Seq(Ids)  BY <3>1, <3>2, <3>3
    <3> QED  BY <2>1, <3>4 DEF Publish, fetch, sender, Inv, TypeOK, Stages, Fault
  <2>2. CASE Receive
    <3>1. Head(wire) \in Ids /\ wire' \in Seq(Ids)
      BY <2>2, HeadTailProperties DEF Receive, Inv, TypeOK
    <3> QED  BY <2>2, <3>1 DEF Receive, fetch, sender, Inv, TypeOK
  <2>3. ASSUME NEW m \in Ids, Show(m) PROVE TypeOK'
    BY <2>3 DEF Show, fetch, sender, Inv, TypeOK
  <2>4. ASSUME NEW ms \in SUBSET Ids, Merge(ms) PROVE TypeOK'
    BY <2>4 DEF Merge, fetch, sender, Inv, TypeOK
  <2> QED  BY <2>1, <2>2, <2>3, <2>4
<1>3. StoredOnce' /\ UpdatesTrue' /\ TicksStored'
  BY <1>1 DEF Inv, StoredOnce, UpdatesTrue, TicksStored
<1>4. DeliveredIsStored' /\ EchoIsTrue' /\ TickIsTrue'
  BY <1>1 DEF Inv, DeliveredIsStored, EchoIsTrue, TickIsTrue
<1> QED  BY <1>2, <1>3, <1>4 DEF Inv

\* The highest id on screen.
LEMMA Highest == ASSUME Inv PROVE Max(shown \cup {0}) \in 0..MaxMessages
<1>1. shown \cup {0} \in SUBSET (0..MaxMessages) /\ shown \cup {0} # {}
  BY BoundsType DEF Inv, TypeOK, Ids
<1> QED  BY <1>1, GreatestNat, BoundsType DEF Max

\* Connecting, dropping and dying: the true ticks are asked for only while a
\* receiver is connected and swept.
LEMMA SocketInv == ASSUME Inv, Connect \/ Drop \/ Crash PROVE Inv'
<1>1. TypeOK'
  <2>1. CASE Connect
    <3>1. asked' \in SUBSET (0..MaxMessages)
      BY <2>1, Highest DEF Connect, Inv, TypeOK
    <3>2. excused' \in SUBSET Ids
      <4>1. Overtaken \in SUBSET Ids  BY Highest, BoundsType DEF Overtaken, Ids
      <4> QED  BY <2>1, <4>1 DEF Connect, Inv, TypeOK
    <3> QED  BY <2>1, <3>1, <3>2 DEF Connect, sender, Inv, TypeOK
  <2>2. CASE Drop
    <3>1. wire' \in Seq(Ids)  BY <2>2, NoFrames DEF Drop
    <3>2. /\ conn' = FALSE /\ drops' = drops + 1
          /\ UNCHANGED <<db, stage, sweeping, decrypting, shown, asked, reading, fetched,
                         excused, echo, updates, tick, faults>>
      BY <2>2 DEF Drop, fetch, sender
    <3>3. TypeOK  BY DEF Inv
    <3>4. drops' \in Nat  BY <3>2, <3>3 DEF TypeOK
    <3>5. conn' \in BOOLEAN  BY <3>2, Zenon
    <3> QED  BY <3>1, <3>2, <3>3, <3>4, <3>5 DEF TypeOK
  <2>3. CASE Crash
    <3>1. wire' \in Seq(Ids)  BY <2>3, NoFrames DEF Crash
    <3>2. /\ stage' \in [Ids -> Stages] /\ echo' \in [Ids -> {"none", "sent", "delivered"}]
          /\ conn' = FALSE /\ sweeping' = FALSE /\ updates' = {} /\ drops' = drops + 1
          /\ reading' = {}
          /\ UNCHANGED <<db, decrypting, shown, asked, fetched, excused, tick, faults>>
      BY <2>3 DEF Crash, Inv, TypeOK, Stages
    <3>3. TypeOK  BY DEF Inv
    <3>4. drops' \in Nat  BY <3>2, <3>3 DEF TypeOK
    <3>5. conn' \in BOOLEAN  BY <3>2, Zenon
    <3> QED  BY <3>1, <3>2, <3>3, <3>4, <3>5 DEF TypeOK
  <2> QED  BY <2>1, <2>2, <2>3
<1>2. /\ UNCHANGED <<db, tick>> /\ updates' \in {updates, {}}
      /\ \A m \in Ids : /\ stage'[m] = "none" <=> stage[m] = "none"
                        /\ echo'[m] # "none" => echo'[m] = echo[m]
      /\ conn' => sweeping'
  BY DEF Connect, Drop, Crash, sender, Inv, TypeOK
<1>3. StoredOnce' /\ UpdatesTrue' /\ TicksStored'
  BY <1>2 DEF Inv, StoredOnce, UpdatesTrue, TicksStored
<1>4. DeliveredIsStored' /\ EchoIsTrue' /\ TickIsTrue'
  BY <1>2 DEF DeliveredIsStored, EchoIsTrue, TickIsTrue
<1> QED  BY <1>1, <1>3, <1>4 DEF Inv

\* The sender's screen takes a status over from an echo, or from an update.
LEMMA ApplyEchoInv == ASSUME Inv, NEW m \in Ids, ApplyEcho(m) PROVE Inv'
<1>1. /\ echo[m] # "none" /\ echo' = [echo EXCEPT ![m] = "none"]
      /\ tick' = [tick EXCEPT ![m] = IF Rank[echo[m]] > Rank[tick[m]] THEN echo[m] ELSE tick[m]]
      /\ UNCHANGED <<db, stage, conn, sweeping, wire, decrypting, shown, asked, reading, fetched, excused,
                     updates, drops, faults>>
  BY DEF ApplyEcho, Raise, receiver, fetch
<1>2. tick'[m] \in {echo[m], tick[m]} /\ echo[m] \in {"sent", "delivered"}
  BY <1>1 DEF Inv, TypeOK
<1>3. \A n \in Ids \ {m} : tick'[n] = tick[n] /\ echo'[n] = echo[n]
  BY <1>1 DEF Inv, TypeOK
<1>4. echo'[m] = "none"  BY <1>1 DEF Inv, TypeOK
<1>5. TypeOK'
  <2>1. tick' \in [Ids -> Statuses]  BY <1>1, <1>2 DEF Inv, TypeOK, Statuses
  <2>2. echo' \in [Ids -> {"none", "sent", "delivered"}]  BY <1>1 DEF Inv, TypeOK
  <2> QED  BY <1>1, <2>1, <2>2 DEF Inv, TypeOK
<1>6. StoredOnce' /\ UpdatesTrue' /\ DeliveredIsStored'
  BY <1>1 DEF Inv, StoredOnce, UpdatesTrue, DeliveredIsStored
<1>7. TicksStored'
  BY <1>1, <1>2, <1>3, <1>4 DEF Inv, TicksStored
<1>8. EchoIsTrue' /\ TickIsTrue'
  <2> SUFFICES ASSUME conn, ~sweeping, NEW n \in Ids
               PROVE  Rank[echo'[n]] <= Rank[db[n]] /\ Rank[tick'[n]] <= Rank[db[n]]
    BY <1>1 DEF EchoIsTrue, TickIsTrue
  <2>1. Rank[echo[n]] <= Rank[db[n]] /\ Rank[tick[n]] <= Rank[db[n]] /\ Rank[db[n]] \in 0..3
    BY RankFacts DEF Inv, EchoIsTrue, TickIsTrue, TypeOK
  <2>2. CASE n = m  BY <1>2, <1>4, <2>1, <2>2, RankFacts
  <2>3. CASE n # m  BY <1>3, <2>1, <2>3
  <2> QED  BY <2>2, <2>3
<1> QED  BY <1>5, <1>6, <1>7, <1>8 DEF Inv

LEMMA ApplyUpdateInv ==
    ASSUME Inv, NEW m \in Ids, NEW s \in Statuses, ApplyUpdate(m, s) PROVE Inv'
<1>1. /\ <<m, s>> \in updates /\ updates' = updates \ {<<m, s>>}
      /\ \/ tick' = tick
         \/ /\ tick[m] # "none"
            /\ tick' = [tick EXCEPT ![m] = IF Rank[s] > Rank[tick[m]] THEN s ELSE tick[m]]
      /\ UNCHANGED <<db, stage, conn, sweeping, wire, decrypting, shown, asked, reading, fetched, excused,
                     echo, drops, faults>>
  BY DEF ApplyUpdate, Raise, receiver, fetch
<1>2. Rank[s] <= Rank[db[m]] /\ s \in {"delivered", "read"} /\ db[m] \in Statuses
  BY <1>1 DEF Inv, UpdatesTrue, TypeOK
<1>3. tick'[m] \in {tick[m], s} /\ \A n \in Ids \ {m} : tick'[n] = tick[n]
  BY <1>1 DEF Inv, TypeOK
<1>4. TypeOK'
  <2>1. tick' \in [Ids -> Statuses]  BY <1>1 DEF Inv, TypeOK
  <2> QED  BY <1>1, <2>1 DEF Inv, TypeOK
<1>5. StoredOnce' /\ UpdatesTrue' /\ DeliveredIsStored' /\ EchoIsTrue'
  BY <1>1 DEF Inv, StoredOnce, UpdatesTrue, DeliveredIsStored, EchoIsTrue
<1>6. db[m] # "none" /\ (s = "read" => db[m] = "read")
  BY <1>2, RankFacts DEF Statuses
<1>7. TicksStored'
  BY <1>1, <1>3, <1>6 DEF Inv, TicksStored
<1>8. TickIsTrue'
  BY <1>1, <1>2, <1>3 DEF Inv, TickIsTrue
<1> QED  BY <1>4, <1>5, <1>7, <1>8 DEF Inv

THEOREM Invariance == Spec => []Inv
<1>1. ASSUME Inv, UNCHANGED vars PROVE Inv'
  BY <1>1 DEF vars, receiver, fetch, sender, Inv, TypeOK, StoredOnce, UpdatesTrue, TicksStored,
     DeliveredIsStored, EchoIsTrue, TickIsTrue
<1>2. ASSUME Inv, [Next]_vars PROVE Inv'
  BY <1>1, <1>2, InsertInv, CheckInv, EchoInv, SweepInv, ReadReceiptInv, FetchInv,
     MarkReadInv, ScreenInv, SocketInv, ApplyEchoInv, ApplyUpdateInv DEF Next
<1> QED  BY InitInv, <1>2, PTL DEF Spec

\* The rows, the frames under way and both screens keep their types.
THEOREM TypeCorrect == Spec => []TypeOK
<1>1. Inv => TypeOK  BY DEF Inv
<1> QED  BY <1>1, Invariance, PTL

\* However a send overlaps with the receiver's connect, no message to a receiver
\* that is connected and swept stays "sent" past its check.
THEOREM DeliveredStored == Spec => []DeliveredIsStored
<1>1. Inv => DeliveredIsStored  BY DEF Inv
<1> QED  BY <1>1, Invariance, PTL

\* The sender's screen never claims more than the database holds.
THEOREM TicksTrue == Spec => []TickIsTrue
<1>1. Inv => TickIsTrue  BY DEF Inv
<1> QED  BY <1>1, Invariance, PTL

\* No update, echo, sweep, receipt or crash takes a status or a tick back.
THEOREM TicksOnlyRise == Spec => OnlyRise
<1> DEFINE Rises == \A m \in Ids : Rank[db'[m]] >= Rank[db[m]] /\ Rank[tick'[m]] >= Rank[tick[m]]
<1>1. ASSUME Inv, Next PROVE Rises
  <2>0. \A m \in Ids : Rank[db[m]] \in 0..3 /\ Rank[tick[m]] \in 0..3
    BY <1>1, RankFacts DEF Inv, TypeOK
  <2>1. ASSUME NEW m \in Ids, Insert(m) PROVE Rises
    <3>1. db[m] = "none" /\ tick' = tick
      BY <1>1, <2>1 DEF Inv, StoredOnce, Insert, sender
    <3> QED  BY <1>1, <2>0, <2>1, <3>1, RankFacts DEF Insert, Inv, TypeOK
  <2>2. ASSUME NEW m \in Ids, Check(m) PROVE Rises
    <3>1. tick' = tick /\ \A n \in Ids \ {m} : db'[n] = db[n]
      BY <1>1, <2>2 DEF Check, sender, Inv, TypeOK
    <3>2. db'[m] = db[m] \/ (db[m] = "sent" /\ db'[m] = "delivered")
      BY <1>1, <2>2 DEF Check, Inv, TypeOK
    <3> QED  BY <2>0, <3>1, <3>2, RankFacts
  <2>3. CASE Sweep
    <3>1. tick' = tick /\ \A m \in Ids : db'[m] = db[m] \/ (db[m] = "sent" /\ db'[m] = "delivered")
      BY <2>3 DEF Sweep, Mark
    <3> QED  BY <2>0, <3>1, RankFacts
  <2>4. ASSUME tick' = tick, \A m \in Ids : db'[m] = db[m] \/ db'[m] = "read" PROVE Rises
    BY <2>0, <2>4, RankFacts
  <2>5. CASE ReadReceipt
    BY <2>4, <2>5 DEF ReadReceipt, Mark
  <2>6. ASSUME NEW ms \in SUBSET Ids, MarkRead(ms) PROVE Rises
    BY <2>4, <2>6 DEF MarkRead, Mark
  <2>7. ASSUME NEW m \in Ids, NEW s \in Statuses, db' = db, tick' = tick \/ Raise(m, s)
        PROVE  Rises
    <3>1. tick'[m] = tick[m] \/ (tick'[m] = s /\ Rank[s] > Rank[tick[m]])
      BY <1>1, <2>7 DEF Raise, Inv, TypeOK
    <3>2. \A n \in Ids \ {m} : tick'[n] = tick[n]
      BY <1>1, <2>7 DEF Raise, Inv, TypeOK
    <3>3. Rank[s] \in 0..3  BY RankFacts
    <3>4. Rank[tick'[m]] >= Rank[tick[m]]  BY <2>0, <3>1, <3>3
    <3> QED  BY <2>0, <2>7, <3>2, <3>4
  <2>8. ASSUME NEW m \in Ids, ApplyEcho(m) PROVE Rises
    BY <1>1, <2>7, <2>8 DEF ApplyEcho, Inv, TypeOK, Statuses
  <2>9. ASSUME NEW m \in Ids, NEW s \in Statuses, ApplyUpdate(m, s) PROVE Rises
    BY <2>7, <2>9 DEF ApplyUpdate
  <2>10. ASSUME db' = db, tick' = tick PROVE Rises
    BY <2>0, <2>10
  <2> QED
    BY <1>1, <2>1, <2>2, <2>3, <2>5, <2>6, <2>8, <2>9, <2>10
    DEF Next, Echo, Publish, Show, Connect, Drop, Receive, Crash, Fetch, Merge, sender
<1>2. Inv /\ [Next]_vars => [Rises]_vars  BY <1>1
<1> QED  BY <1>2, Invariance, PTL DEF Spec, OnlyRise

-----------------------------------------------------------------------------
(* What the receiver misses *)

\* The messages the receiver's tab holds, decrypted or not, those an answer under way
\* brings, and those that are excused.
OnWire == {wire[i] : i \in 1..Len(wire)}
Held == shown \cup decrypting \cup excused \cup (UNION reading) \cup (UNION fetched)
Kept(m) == m \in Held \/ \E a \in asked : a < m

\* While the receiver is connected, each message that was fanned out is on its way,
\* will be asked for, or is excused.
Accounted ==
    conn => \A m \in Stored : stage[m] = "done" => Kept(m) \/ m \in OnWire

LEMMA InitAccounted == Init => Accounted
BY DEF Init, Accounted

\* The ids and the wire, in numbers.
LEMMA Numbers ==
    ASSUME Inv
    PROVE  /\ Ids \subseteq Nat \ {0} /\ Stored \subseteq Ids /\ asked \subseteq Nat
           /\ Len(wire) \in Nat /\ \A i \in 1..Len(wire) : wire[i] \in Ids
<1>1. wire \in Seq(Ids)  BY DEF Inv, TypeOK
<1>2. Len(wire) \in Nat /\ \A i \in 1..Len(wire) : wire[i] \in Ids
  BY <1>1, LenProperties, ElementOfSeq
<1>3. Ids \subseteq Nat \ {0} /\ 0..MaxMessages \subseteq Nat  BY BoundsType DEF Ids
<1>4. asked \subseteq Nat  BY <1>3 DEF Inv, TypeOK
<1> QED  BY <1>2, <1>3, <1>4 DEF Stored

\* A step that leaves the receiver alone, and finishes no send.
LEMMA AsideAccounted ==
    ASSUME Accounted, Stored' \subseteq Stored, UNCHANGED <<receiver, conn>>,
           \A m \in Ids : stage'[m] = "done" => stage[m] = "done"
    PROVE  Accounted'
<1>1. UNCHANGED <<wire, decrypting, shown, asked, reading, fetched, excused, conn>>
  BY DEF receiver, fetch
<1>2. OnWire' = OnWire /\ Held' = Held /\ \A m \in Ids : Kept(m)' <=> Kept(m)
  BY <1>1 DEF OnWire, Held, Kept
<1>3. Stored \subseteq Ids  BY DEF Stored
<1> QED  BY <1>1, <1>2, <1>3 DEF Accounted

LEMMA InsertAccounted ==
    ASSUME Inv, Accounted, NEW m \in Ids, Insert(m) PROVE Accounted'
<1>1. /\ stage' = [stage EXCEPT ![m] = "stored"] /\ db' = [db EXCEPT ![m] = "sent"]
      /\ UNCHANGED <<wire, decrypting, shown, asked, reading, fetched, excused, conn>>
  BY DEF Insert, receiver, fetch
<1>2. OnWire' = OnWire /\ Held' = Held /\ \A n \in Ids : Kept(n)' <=> Kept(n)
  BY <1>1 DEF OnWire, Held, Kept
<1>3. stage'[m] = "stored" /\ \A n \in Ids \ {m} : stage'[n] = stage[n] /\ db'[n] = db[n]
  BY <1>1 DEF Inv, TypeOK
<1> QED  BY <1>1, <1>2, <1>3 DEF Accounted, Stored

LEMMA PublishAccounted ==
    ASSUME Inv, Accounted, NEW m \in Ids, Publish(m) PROVE Accounted'
<1>1. /\ stage' = [stage EXCEPT ![m] = "done"]
      /\ UNCHANGED <<db, conn, decrypting, shown, asked, reading, fetched>>
  BY DEF Publish, fetch
<1>2. Stored' = Stored /\ \A n \in Ids \ {m} : stage'[n] = stage[n]
  BY <1>1 DEF Stored, Inv, TypeOK
<1>3. CASE conn /\ wire' = Append(wire, m) /\ UNCHANGED <<excused, faults>>
  <2>1. /\ Len(wire') = Len(wire) + 1 /\ wire'[Len(wire) + 1] = m
        /\ \A i \in 1..Len(wire) : wire'[i] = wire[i]
    BY <1>3, AppendProperties DEF Inv, TypeOK
  <2>2. OnWire \subseteq OnWire' /\ m \in OnWire'
    <3>1. Len(wire) + 1 \in 1..Len(wire') /\ \A i \in 1..Len(wire) : i \in 1..Len(wire')
      BY <2>1, Numbers
    <3> QED  BY <2>1, <3>1 DEF OnWire
  <2>3. \A n \in Ids : Kept(n)' <=> Kept(n)  BY <1>1, <1>3 DEF Held, Kept
  <2> QED  BY <1>1, <1>2, <2>2, <2>3, Numbers DEF Accounted
<1>4. CASE ~conn /\ UNCHANGED <<wire, excused, faults>>
  BY <1>1, <1>4 DEF Accounted
<1>5. CASE Fault /\ excused' = excused \cup {m} /\ UNCHANGED wire
  <2>1. OnWire' = OnWire /\ m \in Held' /\ \A n \in Ids : Kept(n) => Kept(n)'
    BY <1>1, <1>5 DEF OnWire, Held, Kept
  <2>2. Kept(m)'  BY <2>1 DEF Kept
  <2> QED  BY <1>1, <1>2, <2>1, <2>2, Numbers DEF Accounted
<1> QED  BY <1>3, <1>4, <1>5 DEF Publish

\* A tab that connects holds, asks for, or has been overtaken on every message.
LEMMA ConnectAccounted == ASSUME Inv, Connect PROVE Accounted'
<1> DEFINE h == Max(shown \cup {0})
<1>1. asked' = asked \cup {h} /\ shown' = shown /\ db' = db
      /\ excused' = excused \cup ((1..h) \ shown)
  BY DEF Connect, Overtaken
<1>2. h \in Nat  BY Highest, BoundsType
<1> HIDE DEF h
<1>3. ASSUME NEW m \in Ids PROVE Kept(m)'
  <2>1. m \in Nat /\ m >= 1  BY Numbers
  <2>2. CASE h < m  BY <1>1, <2>2 DEF Kept
  <2>3. CASE m <= h
    <3>1. m \in shown \/ m \in (1..h) \ shown  BY <1>2, <2>1, <2>3
    <3> QED  BY <1>1, <3>1 DEF Held, Kept
  <2> QED  BY <1>2, <2>1, <2>2, <2>3
<1> QED  BY <1>3 DEF Accounted, Stored

LEMMA ReceiveAccounted == ASSUME Inv, Accounted, Receive PROVE Accounted'
<1>1. /\ wire # <<>> /\ wire' = Tail(wire) /\ decrypting' = decrypting \cup {Head(wire)}
      /\ UNCHANGED <<db, stage, conn, shown, asked, reading, fetched, excused>>
  BY DEF Receive, fetch
<1>2. /\ Len(wire) \in Nat \ {0} /\ Head(wire) = wire[1] /\ Len(wire') = Len(wire) - 1
      /\ \A i \in 1..Len(wire') : wire'[i] = wire[i + 1]
  BY <1>1, HeadTailProperties, EmptySeq DEF Inv, TypeOK
<1>3. \A i \in 1..Len(wire) : wire[i] = Head(wire) \/ wire[i] \in OnWire'
  <2> SUFFICES ASSUME NEW i \in 1..Len(wire), i # 1 PROVE wire[i] \in OnWire'
    BY <1>2
  <2>1. i - 1 \in 1..Len(wire') /\ (i - 1) + 1 = i  BY <1>2
  <2>2. wire'[i - 1] = wire[i]  BY <1>2, <2>1
  <2> QED  BY <2>1, <2>2 DEF OnWire
<1>4. /\ Stored' = Stored /\ Head(wire) \in Held'
      /\ \A m \in Ids : Kept(m) => Kept(m)'
  BY <1>1 DEF Stored, Held, Kept
<1>5. \A m \in OnWire : Kept(m)' \/ m \in OnWire'
  BY <1>3, <1>4 DEF OnWire, Kept
<1> QED  BY <1>1, <1>4, <1>5, Numbers DEF Accounted

\* A decryption ends: the tab holds what it held.
LEMMA ShowAccounted ==
    ASSUME Inv, Accounted,
           (\E m \in Ids : Show(m)) \/ \E ms \in SUBSET Ids : Merge(ms)
    PROVE  Accounted'
<1>1. UNCHANGED <<db, stage, conn, wire, asked, reading, excused>>
  BY DEF Show, Merge, fetch
<1>2. Held' = Held
  <2>1. ASSUME NEW m \in Ids, Show(m) PROVE Held' = Held
    BY <1>1, <2>1 DEF Show, fetch, Held
  <2>2. ASSUME NEW ms \in SUBSET Ids, Merge(ms) PROVE Held' = Held
    <3>1. /\ ms \in fetched /\ fetched' = fetched \ {ms} /\ shown' = shown \cup ms
          /\ decrypting' = decrypting
      BY <2>2 DEF Merge
    <3>2. UNION fetched = ms \cup UNION fetched'  BY <3>1
    <3> QED  BY <1>1, <3>1, <3>2 DEF Held
  <2> QED  BY <2>1, <2>2
<1>3. Stored' = Stored /\ OnWire' = OnWire /\ \A m \in Ids : Kept(m)' <=> Kept(m)
  BY <1>1, <1>2 DEF Stored, OnWire, Kept
<1> QED  BY <1>1, <1>3, Numbers DEF Accounted

\* A fetch selects all that is stored above the id it asks from, or excuses it.
LEMMA FetchAccounted ==
    ASSUME Inv, Accounted, NEW since \in 0..MaxMessages, Fetch(since)
    PROVE  Accounted'
<1> DEFINE newer == {m \in Stored : m > since}
<1>1. /\ asked' = asked \ {since}
      /\ \/ reading' = reading \cup {newer} /\ UNCHANGED excused
         \/ excused' = excused \cup newer /\ UNCHANGED reading
      /\ UNCHANGED <<db, stage, conn, wire, decrypting, shown, fetched>>
  BY DEF Fetch
<1>2. Held' = Held \cup newer
  <2>1. UNION (reading \cup {newer}) = newer \cup UNION reading  OBVIOUS
  <2> QED  BY <1>1, <2>1 DEF Held
<1>3. OnWire' = OnWire /\ Stored' = Stored  BY <1>1 DEF OnWire, Stored
<1>4. \A m \in Stored : Kept(m) => Kept(m)'
  <2>1. \A m \in Stored : since < m => m \in Held'  BY <1>2, Numbers, BoundsType
  <2> QED  BY <1>1, <1>2, <2>1 DEF Kept
<1> QED  BY <1>1, <1>3, <1>4 DEF Accounted

LEMMA MarkReadAccounted ==
    ASSUME Inv, Accounted, NEW ms \in SUBSET Ids, MarkRead(ms)
    PROVE  Accounted'
<1>1. /\ ms \in reading /\ reading' = reading \ {ms}
      /\ \/ fetched' = fetched \cup {ms} /\ UNCHANGED excused
         \/ excused' = excused \cup ms /\ UNCHANGED fetched
      /\ UNCHANGED <<stage, conn, wire, decrypting, shown, asked>>
  BY DEF MarkRead
<1>2. Held \subseteq Held'
  <2>1. UNION reading = ms \cup UNION reading' /\ UNION (fetched \cup {ms}) = ms \cup UNION fetched
    BY <1>1
  <2> QED  BY <1>1, <2>1 DEF Held
<1>3. Stored' \subseteq Stored  BY DEF MarkRead, Mark, Stored
<1>4. OnWire' = OnWire /\ \A m \in Stored : Kept(m) => Kept(m)'
  BY <1>1, <1>2 DEF OnWire, Kept
<1> QED  BY <1>1, <1>3, <1>4 DEF Accounted

LEMMA AccountedStep == ASSUME Inv, Accounted, [Next]_vars PROVE Accounted'
<1>1. CASE UNCHANGED vars
  BY <1>1, AsideAccounted DEF vars, receiver, fetch, Stored
<1>2. ASSUME NEW m \in Ids,
             Check(m) \/ Echo(m) \/ ApplyEcho(m) \/ \E s \in Statuses : ApplyUpdate(m, s)
      PROVE  Accounted'
  <2>1. UNCHANGED <<receiver, conn>>
    BY <1>2 DEF Check, Echo, ApplyEcho, ApplyUpdate
  <2>2. \A n \in Ids : db[n] = "none" => db'[n] = "none"
    BY <1>2 DEF Check, Echo, ApplyEcho, ApplyUpdate, Inv, TypeOK
  <2>3. \A n \in Ids : stage'[n] = "done" => stage[n] = "done"
    BY <1>2 DEF Check, Echo, ApplyEcho, ApplyUpdate, Inv, TypeOK
  <2> QED  BY <2>1, <2>2, <2>3, AsideAccounted DEF Stored
<1>3. CASE Sweep \/ ReadReceipt
  <2>1. UNCHANGED <<receiver, conn, stage>>
    BY <1>3 DEF Sweep, ReadReceipt
  <2>2. \A n \in Ids : db[n] = "none" => db'[n] = "none"
    BY <1>3 DEF Sweep, ReadReceipt, Mark, Stored
  <2> QED  BY <2>1, <2>2, AsideAccounted DEF Stored
<1>4. CASE Drop \/ Crash
  BY <1>4 DEF Drop, Crash, Accounted
<1> QED  BY <1>1, <1>2, <1>3, <1>4, InsertAccounted, PublishAccounted, ConnectAccounted,
            ReceiveAccounted, ShowAccounted, FetchAccounted, MarkReadAccounted DEF Next

LEMMA AccountedIsExcused == ASSUME Inv, Accounted PROVE MissedIsExcused
<1> SUFFICES ASSUME Settled, NEW m \in Stored PROVE m \in shown \cup excused
  BY DEF MissedIsExcused
<1>1. Held = shown \cup excused /\ asked = {} /\ OnWire = {}
  <2>1. Len(wire) = 0  BY NoFrames DEF Settled
  <2> QED  BY <2>1 DEF Settled, Held, OnWire
<1>2. stage[m] = "done"
  BY DEF Settled, SendsDone, Stored, Inv, StoredOnce
<1> QED  BY <1>1, <1>2 DEF Accounted, Settled, Kept

\* For any number of messages, drops, crashes and lost frames, with sends, fan-outs,
\* fetches and decryptions in any order: a connected receiver for whom nothing is
\* under way misses only what was lost or overtaken.
THEOREM OnlyExcusedMissed == Spec => []MissedIsExcused
<1>1. Init => Inv /\ Accounted  BY InitInv, InitAccounted
<1>2. Inv /\ Accounted /\ [Next]_vars => Accounted'  BY AccountedStep
<1>3. Inv /\ Accounted => MissedIsExcused  BY AccountedIsExcused
<1> QED  BY <1>1, <1>2, <1>3, Invariance, PTL DEF Spec
=============================================================================
