---------------------------- MODULE ChatDelivery ----------------------------
(***************************************************************************)
(* Direct messages of one person to another: stored and fanned out by      *)
(* chat/websocket.rs, backfilled by chat/direct_messages.rs, shown and     *)
(* ticked by chat/Chat.tsx and chat/hooks/useChatSocket.ts.                *)
(*                                                                         *)
(* The receiver has the conversation open in one tab whose socket drops    *)
(* and reconnects; the sender's tab stays connected, to the same instance. *)
(* A message is its id.  Sends are futures of the sender's actor and run   *)
(* side by side, and so do the fan-out tasks, the receiver's fetches, and  *)
(* the decryptions on both screens.                                        *)
(***************************************************************************)
EXTENDS Naturals, Sequences, FiniteSets, FiniteSetsExt

CONSTANTS
    MaxMessages,
    MaxDrops,      \* bound on lost sockets and crashes of the server
    MaxFaults      \* bound on frames lost by Redis and failed fetches

ASSUME BoundsType == MaxMessages \in Nat /\ MaxDrops \in Nat /\ MaxFaults \in Nat

Ids == 1..MaxMessages
Statuses == {"none", "sent", "delivered", "read"}
Stages == {"none", "stored", "checked", "echoed", "done"}
Rank == [s \in Statuses |->
           CASE s = "none" -> 0 [] s = "sent" -> 1 [] s = "delivered" -> 2 [] s = "read" -> 3]

VARIABLES
    db,          \* messages.status, "none" before the INSERT
    stage,       \* how far the sending of a message is
    conn,        \* SESSIONS.is_connected(receiver)
    sweeping,    \* mark_delivered_on_connect is still to run
    wire,        \* frames on their way to the receiver's socket
    decrypting,  \* frames the receiver's tab is decrypting
    shown,       \* the messages on the receiver's screen
    asked,       \* since_id of the fetches under way
    reading,     \* what they have selected, not yet marked as read
    fetched,     \* their answers, being decrypted
    echo,        \* the status on the echo frame of a message, until it is applied
    updates,     \* status_update frames on their way to the sender
    tick,        \* the status on the sender's screen, "none" without an id
    excused,     \* history: what a fetch, a frame or an overtaking may have lost
    drops, faults

vars == <<db, stage, conn, sweeping, wire, decrypting, shown, asked, reading, fetched,
          echo, updates, tick, excused, drops, faults>>
fetch == <<asked, reading, fetched>>
receiver == <<wire, decrypting, shown, fetch, excused>>
sender == <<echo, updates, tick>>

Stored == {m \in Ids : db[m] # "none"}
Fault == faults < MaxFaults /\ faults' = faults + 1

\* UPDATE messages SET status = s on the rows ms, and a status_update for each,
\* which is lost when it is never applied.
Mark(ms, s) ==
    /\ db' = [m \in Ids |-> IF m \in ms THEN s ELSE db[m]]
    /\ updates' = updates \cup {<<m, s>> : m \in ms}

-----------------------------------------------------------------------------
(* A send: the text frame of the sender's tab, handled by its ChatSession *)

\* Ids are drawn from a sequence, rows become visible in any order.
Insert(m) ==
    /\ stage[m] = "none"
    /\ stage' = [stage EXCEPT ![m] = "stored"]
    /\ db' = [db EXCEPT ![m] = "sent"]
    /\ UNCHANGED <<conn, sweeping, receiver, sender, drops, faults>>

\* Seeded fault: a message is marked whatever its status.
CheckAnyStatus(m) ==
    /\ stage[m] = "stored" /\ stage' = [stage EXCEPT ![m] = "checked"]
    /\ db' = [db EXCEPT ![m] = IF conn THEN "delivered" ELSE @]
    /\ UNCHANGED <<conn, sweeping, receiver, sender, drops, faults>>

\* "delivered" is persisted when the receiver is connected.
Check(m) ==
    /\ stage[m] = "stored" /\ stage' = [stage EXCEPT ![m] = "checked"]
    /\ db' = [db EXCEPT ![m] = IF conn /\ @ = "sent" THEN "delivered" ELSE @]
    /\ UNCHANGED <<conn, sweeping, receiver, sender, drops, faults>>

\* Seeded fault: the echo carries what the row says by now.
EchoOfRow(m) ==
    /\ stage[m] = "checked" /\ stage' = [stage EXCEPT ![m] = "echoed"]
    /\ echo' = [echo EXCEPT ![m] = db[m]]
    /\ UNCHANGED <<db, conn, sweeping, receiver, updates, tick, drops, faults>>

\* The second look at the registry, for the echo.
Echo(m) ==
    /\ stage[m] = "checked" /\ stage' = [stage EXCEPT ![m] = "echoed"]
    /\ echo' = [echo EXCEPT ![m] = IF conn THEN "delivered" ELSE "sent"]
    /\ UNCHANGED <<db, conn, sweeping, receiver, updates, tick, drops, faults>>

\* fan_out_user.  A frame is lost without a socket, or while the subscriber of
\* the receiver's instance has no connection to Redis.
Publish(m) ==
    /\ stage[m] = "echoed" /\ stage' = [stage EXCEPT ![m] = "done"]
    /\ \/ conn /\ wire' = Append(wire, m) /\ UNCHANGED <<excused, faults>>
       \/ ~conn /\ UNCHANGED <<wire, excused, faults>>
       \/ conn /\ Fault /\ excused' = excused \cup {m} /\ UNCHANGED wire
    /\ UNCHANGED <<db, conn, sweeping, decrypting, shown, fetch, sender, drops>>

-----------------------------------------------------------------------------
(* The receiver's tab *)

\* What the tab does not hold although it holds a later message.
Overtaken == (1..Max(shown \cup {0})) \ shown

\* Seeded fault: the tab asks from the number of messages it holds.
ConnectAsksFromCount ==
    /\ ~conn /\ conn' = TRUE /\ sweeping' = TRUE
    /\ asked' = asked \cup {Cardinality(shown) + 1}
    /\ excused' = excused \cup Overtaken
    /\ UNCHANGED <<db, stage, wire, decrypting, shown, reading, fetched, sender, drops, faults>>

\* The socket opens: the server registers it and spawns the sweep, the tab asks
\* for everything above the highest id it holds.
Connect ==
    /\ ~conn /\ conn' = TRUE /\ sweeping' = TRUE
    /\ asked' = asked \cup {Max(shown \cup {0})}
    /\ excused' = excused \cup Overtaken
    /\ UNCHANGED <<db, stage, wire, decrypting, shown, reading, fetched, sender, drops, faults>>

\* Seeded fault: nobody has to be told of what was delivered before the connect.
SweepNothing ==
    /\ sweeping /\ sweeping' = FALSE
    /\ UNCHANGED <<db, stage, conn, receiver, sender, drops, faults>>

\* mark_delivered_on_connect
Sweep ==
    /\ sweeping /\ sweeping' = FALSE
    /\ Mark({m \in Ids : db[m] = "sent"}, "delivered")
    /\ UNCHANGED <<stage, conn, receiver, echo, tick, drops, faults>>

\* The socket closes, with the frames that are still on the wire.
Drop ==
    /\ conn /\ conn' = FALSE
    /\ drops < MaxDrops /\ drops' = drops + 1
    /\ wire' = <<>>
    /\ UNCHANGED <<db, stage, sweeping, decrypting, shown, fetch, excused, sender, faults>>

\* A frame arrives; its message is shown when it is decrypted, once.
Receive ==
    /\ wire # <<>> /\ wire' = Tail(wire)
    /\ decrypting' = decrypting \cup {Head(wire)}
    /\ UNCHANGED <<db, stage, conn, sweeping, shown, fetch, excused, sender, drops, faults>>

Show(m) ==
    /\ m \in decrypting /\ decrypting' = decrypting \ {m}
    /\ shown' = shown \cup {m}
    /\ UNCHANGED <<db, stage, conn, sweeping, wire, fetch, excused, sender, drops, faults>>

\* get_messages with since_id, the SELECT.  A failed fetch is logged and not
\* repeated.
Fetch(since) ==
    /\ since \in asked /\ asked' = asked \ {since}
    /\ LET newer == {m \in Stored : m > since}
       IN \/ reading' = reading \cup {newer} /\ UNCHANGED <<excused, faults>>
          \/ Fault /\ excused' = excused \cup newer /\ UNCHANGED reading
    /\ UNCHANGED <<db, stage, conn, sweeping, wire, decrypting, shown, fetched, sender, drops>>

\* The UPDATE of the same transaction: all that the sender has stored by now is
\* read, also what the SELECT has not seen.  The answer may get lost.
MarkRead(ms) ==
    /\ ms \in reading /\ reading' = reading \ {ms}
    /\ Mark({m \in Stored : db[m] # "read"}, "read")
    /\ \/ fetched' = fetched \cup {ms} /\ UNCHANGED <<excused, faults>>
       \/ Fault /\ excused' = excused \cup ms /\ UNCHANGED fetched
    /\ UNCHANGED <<stage, conn, sweeping, wire, decrypting, shown, asked, echo, tick, drops>>

Merge(ms) ==
    /\ ms \in fetched /\ fetched' = fetched \ {ms}
    /\ shown' = shown \cup ms
    /\ UNCHANGED <<db, stage, conn, sweeping, wire, decrypting, asked, reading, excused,
                   sender, drops, faults>>

\* The receiver looks at the conversation: a receipt for all that is stored.
ReadReceipt ==
    /\ conn
    /\ \E m \in Stored : db[m] # "read"
    /\ Mark({m \in Stored : db[m] # "read"}, "read")
    /\ UNCHANGED <<stage, conn, sweeping, receiver, echo, tick, drops, faults>>

-----------------------------------------------------------------------------
(* The sender's tab *)

\* The tick only goes up, on a message whose id is known.
Raise(m, s) == tick' = [tick EXCEPT ![m] = IF Rank[s] > Rank[@] THEN s ELSE @]

\* The echo is decrypted, and the bubble gets its id.
ApplyEcho(m) ==
    /\ echo[m] # "none" /\ echo' = [echo EXCEPT ![m] = "none"]
    /\ Raise(m, echo[m])
    /\ UNCHANGED <<db, stage, conn, sweeping, receiver, updates, drops, faults>>

\* handleStatusUpdate: nothing happens to a bubble without an id.
ApplyUpdate(m, s) ==
    /\ <<m, s>> \in updates /\ updates' = updates \ {<<m, s>>}
    /\ IF tick[m] = "none" THEN UNCHANGED tick ELSE Raise(m, s)
    /\ UNCHANGED <<db, stage, conn, sweeping, receiver, echo, drops, faults>>

-----------------------------------------------------------------------------

\* The server dies: sends and fetches stop where they are, and all frames are
\* lost.
Crash ==
    /\ drops < MaxDrops /\ drops' = drops + 1
    /\ stage' = [m \in Ids |-> IF stage[m] = "none" THEN "none" ELSE "done"]
    /\ conn' = FALSE /\ sweeping' = FALSE /\ wire' = <<>> /\ reading' = {}
    /\ echo' = [m \in Ids |-> "none"] /\ updates' = {}
    /\ UNCHANGED <<db, decrypting, shown, asked, fetched, excused, tick, faults>>

Init ==
    /\ db = [m \in Ids |-> "none"] /\ stage = [m \in Ids |-> "none"]
    /\ conn = FALSE /\ sweeping = FALSE
    /\ wire = <<>> /\ decrypting = {} /\ shown = {}
    /\ asked = {} /\ reading = {} /\ fetched = {} /\ excused = {}
    /\ echo = [m \in Ids |-> "none"] /\ updates = {} /\ tick = [m \in Ids |-> "none"]
    /\ drops = 0 /\ faults = 0

Next ==
    \/ \E m \in Ids :
          \/ Insert(m) \/ Check(m) \/ Echo(m) \/ Publish(m)
          \/ Show(m) \/ ApplyEcho(m)
          \/ \E s \in Statuses : ApplyUpdate(m, s)
    \/ Connect \/ Sweep \/ Drop \/ Receive \/ ReadReceipt \/ Crash
    \/ \E since \in 0..MaxMessages : Fetch(since)
    \/ \E ms \in SUBSET Ids : MarkRead(ms) \/ Merge(ms)

Spec == Init /\ [][Next]_vars

-----------------------------------------------------------------------------
(* Properties *)

TypeOK ==
    /\ db \in [Ids -> Statuses] /\ stage \in [Ids -> Stages]
    /\ conn \in BOOLEAN /\ sweeping \in BOOLEAN
    /\ wire \in Seq(Ids) /\ decrypting \in SUBSET Ids /\ shown \in SUBSET Ids
    /\ asked \in SUBSET (0..MaxMessages) /\ excused \in SUBSET Ids
    /\ reading \in SUBSET (SUBSET Ids) /\ fetched \in SUBSET (SUBSET Ids)
    /\ echo \in [Ids -> {"none", "sent", "delivered"}]
    /\ updates \in SUBSET (Ids \X {"delivered", "read"})
    /\ tick \in [Ids -> Statuses]
    /\ drops \in Nat /\ faults \in Nat

SendsDone == \A m \in Ids : stage[m] \in {"none", "done"}

\* Nothing is under way, and the receiver is connected.
Settled ==
    /\ conn /\ SendsDone
    /\ wire = <<>> /\ decrypting = {} /\ asked = {} /\ reading = {} /\ fetched = {}

\* realtime-chat.md:3, "never loses messages across drops", and :7, "reconnects
\* backfill anything missed".  Sends and fan-outs overtake one another
\* (websocket.rs:643, 697), and a tab that holds a later message never asks for
\* an earlier one, so this does not hold: see MissedIsExcused.
Lossless == Settled /\ faults = 0 => shown = Stored

\* What the backfill from the highest id does give: when nothing is under way, a
\* connected receiver misses only what Redis or a failed fetch has lost, and what
\* a later message had overtaken when the tab asked, whatever sockets have
\* dropped and however sends, frames, fetches and decryptions overlapped.
MissedIsExcused == Settled => Stored \subseteq shown \cup excused

\* websocket.rs:611-613: between the check of the send and the sweep of the
\* connect, no message to a connected receiver is left as "sent".
DeliveredIsStored ==
    conn /\ ~sweeping => \A m \in Ids : db[m] = "sent" => stage[m] = "stored"

\* A status in the database and a tick on the sender's screen never go back.
OnlyRise ==
    [][\A m \in Ids : Rank[db'[m]] >= Rank[db[m]] /\ Rank[tick'[m]] >= Rank[tick[m]]]_vars

\* The sender's tick does not claim more than the database, once the sweep that
\* may overlap with a send has run.
TickIsTrue ==
    conn /\ ~sweeping => \A m \in Ids : Rank[tick[m]] <= Rank[db[m]]
=============================================================================
