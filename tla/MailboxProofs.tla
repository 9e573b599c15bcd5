---------------------------- MODULE MailboxProofs ----------------------------
(***************************************************************************)
(* Mailbox for any messages, any number of syncs that overlap in any way,  *)
(* and any faults: last_sync never moves past a message Gmail was not      *)
(* asked for, a row that is marked as checked and is not complete has an   *)
(* excuse, and the labels of the rows follow Gmail's while one sync runs   *)
(* at a time.                                                              *)
(***************************************************************************)
EXTENDS Mailbox, WellFoundedInduction, SequenceTheorems, TLAPS

SyncStates == [at : Stages, since : Nat, todo : SUBSET Messages,
               headers : SUBSET [msg : Messages, inbox : BOOLEAN],
               from : Nat, to : Nat]
Fetches == [at : {"none", "taken", "fetched", "updated", "saved"}, given : BOOLEAN]

\* A body is fetched for a row that exists.
RowsOnly == \A p \in {"worker", "reader"}, m \in Messages :
                fetching[p][m].at # "none" => m \in stored

TypeInv == TypeOK /\ RowsOnly

\* What a message that has no row and was never withheld by Gmail can count on:
\* whatever a sync has asked for, or last_sync, does not leave it behind.
Counted(s, m) ==
    /\ sync[s].at = "list" => arrived[m] + Overlap >= sync[s].since
    /\ sync[s].at = "headers" => \/ m \in sync[s].todo
                                 \/ \E h \in sync[s].headers : h.msg = m
                                 \/ arrived[m] >= sync[s].since

Clocks ==
    /\ lastSync <= now
    /\ \A m \in Messages : Came(m) => arrived[m] <= now
    /\ \A s \in Syncs : sync[s].since <= now
    /\ \A s \in Syncs : sync[s].at = "headers" => now <= sync[s].since + Overlap

InWindow ==
    \A m \in Messages \ (stored \cup lost) : Came(m) =>
        arrived[m] + Overlap >= lastSync /\ \A s \in Syncs : Counted(s, m)

\* How far a fetch has come: what it was given, and what the worker has written
\* when it comes to the mark.
Saved(p, m) ==
    LET at == fetching[p][m].at IN
    /\ at \in {"fetched", "updated", "saved"} => fetching[p][m].given \/ m \in botched
    /\ p = "worker" /\ at \in {"updated", "saved"} => body[m] # "none"
    /\ p = "worker" /\ at = "saved" => m \in attached \cup botched
SavedInTurn ==
    /\ \A m \in Messages : body[m] = "blank" => m \in botched
    /\ \A p \in {"worker", "reader"}, m \in Messages : Saved(p, m)

-----------------------------------------------------------------------------
(* Numbers *)

\* Every nonempty set of numbers up to n has a greatest one, by the least number of
\* the differences.
Less == {ss \in Nat \X Nat : ss[1] < ss[2]}

LEMMA LessIsWellFounded == IsWellFoundedOn(Less, Nat)
<1>1. IsWellFoundedOn(OpToRel(<, Nat), Nat)  BY NatLessThanWellFounded
<1> QED  BY <1>1 DEF OpToRel, Less

LEMMA LeastNat ==
    ASSUME NEW T \in SUBSET Nat, T # {}
    PROVE  \E x \in T : \A y \in T : x <= y
<1>1. PICK x \in T : \A y \in T : <<y, x>> \notin Less
  BY LessIsWellFounded, WFMin
<1>2. ASSUME NEW y \in T PROVE x <= y
  <2>1. x \in Nat /\ y \in Nat  OBVIOUS
  <2>2. y < x => <<y, x>> \in Less  BY <2>1 DEF Less
  <2> QED  BY <1>1, <2>1, <2>2
<1> QED  BY <1>2

LEMMA GreatestNat ==
    ASSUME NEW n \in Nat, NEW T \in SUBSET (0..n), T # {}
    PROVE  \E x \in T : \A y \in T : x >= y
<1> DEFINE U == {n - t : t \in T}
<1>1. U \in SUBSET Nat
  <2>1. \A t \in T : n - t \in Nat  OBVIOUS
  <2> QED  BY <2>1
<1>2. U # {}  OBVIOUS
<1>3. PICK u \in U : \A v \in U : u <= v
  <2> HIDE DEF U
  <2> QED  BY <1>1, <1>2, LeastNat
<1>4. PICK x \in T : u = n - x  BY <1>3
<1>5. \A y \in T : n - y \in U  OBVIOUS
<1>6. \A y \in T : n - x <= n - y
  <2> HIDE DEF U
  <2> QED  BY <1>3, <1>4, <1>5
<1>7. \A y \in T : x >= y  BY <1>6
<1> QED  BY <1>7

-----------------------------------------------------------------------------
(* Types *)

LEMMA TypeUnfolded ==
    TypeOK <=>
    /\ now \in Nat /\ arrived \in [Messages -> Nat \cup {None}]
    /\ inbox \subseteq Messages
    /\ history \in Seq([msg : Messages, added : BOOLEAN])
    /\ labelled \subseteq stored /\ stored \subseteq Messages
    /\ body \in [Messages -> {"none", "text", "blank"}]
    /\ checked \subseteq stored /\ attached \subseteq stored
    /\ lastSync \in Nat /\ position \in Nat \cup {None}
    /\ sync \in [Syncs -> SyncStates]
    /\ fetching \in [{"worker", "reader"} -> [Messages -> Fetches]]
    /\ lost \subseteq Messages /\ raced \in BOOLEAN
    /\ botched \subseteq Messages /\ began \in Nat /\ faults \in Nat
BY DEF TypeOK, SyncStates, Fetches

LEMMA AtType == \A stage \in Stages : At(stage) \in SyncStates /\ At(stage).at = stage
                                      /\ At(stage).since = 0
BY DEF At, SyncStates

LEMMA EmptyHistory == <<>> \in Seq([msg : Messages, added : BOOLEAN])
BY EmptySeq

LEMMA InitType == Init => TypeInv
<1> SUFFICES ASSUME Init PROVE TypeInv  OBVIOUS
<1>1. sync \in [Syncs -> SyncStates]
  BY AtType DEF Init, Idle, Stages
<1>2. /\ fetching \in [{"worker", "reader"} -> [Messages -> Fetches]]
      /\ RowsOnly
  BY DEF Init, NoFetch, Fetches, RowsOnly
<1>3. raced \in BOOLEAN
  <2>1. raced = FALSE  BY DEF Init
  <2> QED  BY <2>1, Zenon
<1>4. history \in Seq([msg : Messages, added : BOOLEAN])
  BY EmptyHistory DEF Init
<1>5. TypeOK
  BY <1>1, <1>2, <1>3, <1>4, TypeUnfolded DEF Init
<1> QED  BY <1>2, <1>5 DEF TypeInv

LEMMA HistoryLength == TypeOK => Len(history) \in Nat
BY LenProperties DEF TypeOK

\* Gmail and its user change nothing of the account.
LEMMA GmailTypes ==
    ASSUME TypeInv, Tick \/ \E m \in Messages : Arrive(m) \/ Relabel(m)
    PROVE  TypeInv'
<1> USE DEF gmail, bodies, account, ghosts
<1>1. CASE Tick
  BY <1>1, TypeUnfolded DEF Tick, TypeInv, RowsOnly, TypeOK
<1>2. ASSUME NEW m \in Messages, Arrive(m) PROVE TypeInv'
  <2>1. inbox' \subseteq Messages /\ arrived' \in [Messages -> Nat \cup {None}]
    BY <1>2 DEF Arrive, TypeInv, TypeOK
  <2> QED  BY <1>2, <2>1 DEF Arrive, TypeInv, RowsOnly, TypeOK
<1>3. ASSUME NEW m \in Messages, Relabel(m) PROVE TypeInv'
  <2>1. inbox' \subseteq Messages
    BY <1>3 DEF Relabel, TypeInv, TypeOK
  <2>2. [msg |-> m, added |-> m \notin inbox] \in [msg : Messages, added : BOOLEAN]
    BY Zenon
  <2>3. history' \in Seq([msg : Messages, added : BOOLEAN])
    BY <1>3, <2>2, AppendProperties DEF Relabel, TypeInv, TypeOK
  <2> QED  BY <1>3, <2>1, <2>3 DEF Relabel, TypeInv, RowsOnly, TypeOK
<1> QED  BY <1>1, <1>2, <1>3

\* A sync takes a step: its own state is the only one that changes, and it
\* touches neither Gmail nor the columns of the bodies.
SyncMoves(s) ==
    /\ sync'[s] \in SyncStates /\ sync' = [sync EXCEPT ![s] = sync'[s]]
    /\ UNCHANGED <<gmail, bodies>>

LEMMA SyncFacts ==
    ASSUME TypeInv, NEW s \in Syncs
    PROVE  /\ sync \in [Syncs -> SyncStates] /\ sync[s] \in SyncStates
           /\ lastSync \in Nat /\ now \in Nat /\ position \in Nat \cup {None}
           /\ Len(history) \in Nat
BY HistoryLength, TypeUnfolded DEF TypeInv

LEMMA MovesTo ==
    ASSUME TypeInv, NEW s \in Syncs, NEW r \in SyncStates,
           sync' = [sync EXCEPT ![s] = r], UNCHANGED <<gmail, bodies>>
    PROVE  SyncMoves(s)
<1>1. sync'[s] = r  BY SyncFacts
<1> QED  BY <1>1 DEF SyncMoves

LEMMA NewMailMoves ==
    ASSUME TypeInv, NEW s \in Syncs,
           Start(s) \/ ListIds(s) \/ Store(s) \/ Stamp(s)
             \/ \E m \in Messages : FetchHeader(s, m)
    PROVE  SyncMoves(s)
<1>f. /\ sync[s] \in SyncStates /\ lastSync \in Nat /\ now \in Nat
      /\ position \in Nat \cup {None} /\ Len(history) \in Nat
  BY SyncFacts
<1>1. CASE Start(s)
  <2>1. [sync[s] EXCEPT !.at = "list", !.since = lastSync] \in SyncStates
    BY <1>f DEF SyncStates, Stages
  <2>2. sync' = [sync EXCEPT ![s] = [sync[s] EXCEPT !.at = "list", !.since = lastSync]]
    BY <1>1 DEF Start
  <2> QED  BY MovesTo, <1>1, <2>1, <2>2 DEF Start
<1>2. CASE ListIds(s)
  <2>1. [At("headers") EXCEPT !.since = now, !.todo = AskedBy(s)] \in SyncStates
    BY <1>f DEF At, AskedBy, SyncStates, Stages
  <2> QED  BY MovesTo, <1>2, <2>1 DEF ListIds
<1>3. CASE Store(s)
  <2>1. \A batch \in SUBSET sync[s].headers :
          [sync[s] EXCEPT !.headers = sync[s].headers \ batch] \in SyncStates
    BY <1>f DEF SyncStates
  <2>2. \E batch \in SUBSET sync[s].headers :
          sync' = [sync EXCEPT ![s] = [sync[s] EXCEPT !.headers = sync[s].headers \ batch]]
    BY <1>3 DEF Store
  <2> QED  BY MovesTo, <1>3, <2>1, <2>2 DEF Store
<1>4. CASE Stamp(s)
  BY MovesTo, <1>4, AtType DEF Stamp, Stages
<1>5. ASSUME NEW m \in Messages, FetchHeader(s, m) PROVE SyncMoves(s)
  <2> DEFINE r == [sync[s] EXCEPT !.todo = @ \ {m},
                     !.headers = @ \cup {[msg |-> m, inbox |-> m \in inbox]}]
  <2>1. [msg |-> m, inbox |-> m \in inbox] \in [msg : Messages, inbox : BOOLEAN]
    <3>1. CASE m \in inbox  BY <3>1
    <3>2. CASE m \notin inbox  BY <3>2
    <3> QED  BY <3>1, <3>2
  <2>2. r \in SyncStates
    BY <1>f, <2>1 DEF SyncStates
  <2>3. sync' = [sync EXCEPT ![s] = r]
    BY <1>5 DEF FetchHeader
  <2> QED  BY MovesTo, <1>5, <2>2, <2>3 DEF FetchHeader
<1> QED  BY <1>1, <1>2, <1>3, <1>4, <1>5

\* A page of history: the last one reaches up to now.
LEMMA PageListed ==
    ASSUME TypeInv, NEW s \in Syncs, ListHistory(s)
    PROVE  \E n \in Nat, at \in {"apply", "page"} :
             /\ n <= Len(history) /\ (sync[s].from <= Len(history) => sync[s].from <= n)
             /\ sync' = [sync EXCEPT ![s] = [sync[s] EXCEPT !.at = at, !.to = n]]
<1>1. Len(history) \in Nat /\ sync[s].from \in Nat
  BY SyncFacts DEF SyncStates
<1>2. PICK n \in (sync[s].from + 1 .. Len(history)) \cup {Len(history)} :
        sync' = [sync EXCEPT ![s].at = IF n = Len(history) THEN "apply" ELSE "page",
                             ![s].to = n]
  BY DEF ListHistory
<1>3. n \in Nat /\ n <= Len(history) /\ (sync[s].from <= Len(history) => sync[s].from <= n)
  BY <1>1
<1>4. CASE n = Len(history)
  <2>1. sync' = [sync EXCEPT ![s] = [sync[s] EXCEPT !.at = "apply", !.to = n]]
    BY <1>2, <1>4
  <2> QED  BY <1>3, <2>1
<1>5. CASE n # Len(history)
  <2>1. sync' = [sync EXCEPT ![s] = [sync[s] EXCEPT !.at = "page", !.to = n]]
    BY <1>2, <1>5
  <2> QED  BY <1>3, <2>1
<1> QED  BY <1>4, <1>5

LEMMA LabelMoves ==
    ASSUME TypeInv, NEW s \in Syncs,
           ReadPosition(s) \/ ListHistory(s) \/ ResetPosition(s) \/ Apply(s)
             \/ SavePosition(s) \/ ListOlder(s) \/ EndBackfill(s)
    PROVE  SyncMoves(s)
<1>f. /\ sync[s] \in SyncStates /\ lastSync \in Nat /\ now \in Nat
      /\ position \in Nat \cup {None} /\ Len(history) \in Nat
  BY SyncFacts
<1>1. CASE ReadPosition(s)
  <2>1. CASE position = None
    BY MovesTo, <1>1, <2>1, AtType DEF ReadPosition, Stages
  <2>2. CASE position # None
    <3>1. [sync[s] EXCEPT !.at = "history", !.from = position] \in SyncStates
      BY <1>f, <2>2 DEF SyncStates, Stages
    <3>2. sync' = [sync EXCEPT ![s] = [sync[s] EXCEPT !.at = "history", !.from = position]]
      BY <1>1, <2>2 DEF ReadPosition
    <3> QED  BY MovesTo, <1>1, <3>1, <3>2 DEF ReadPosition
  <2> QED  BY <2>1, <2>2
<1>2. CASE ListHistory(s)
  <2>1. \A at \in {"apply", "page"}, n \in Nat :
          [sync[s] EXCEPT !.at = at, !.to = n] \in SyncStates
    BY <1>f DEF SyncStates, Stages
  <2>2. PICK n \in Nat, at \in {"apply", "page"} :
          sync' = [sync EXCEPT ![s] = [sync[s] EXCEPT !.at = at, !.to = n]]
    BY <1>2, PageListed
  <2> QED  BY MovesTo, <1>2, <2>1, <2>2 DEF ListHistory
<1>3. CASE ResetPosition(s)
  <2>1. [sync[s] EXCEPT !.at = "save", !.to = Len(history)] \in SyncStates
    BY <1>f DEF SyncStates, Stages
  <2>2. sync' = [sync EXCEPT ![s] = [sync[s] EXCEPT !.at = "save", !.to = Len(history)]]
    BY <1>3 DEF ResetPosition
  <2> QED  BY MovesTo, <1>3, <2>1, <2>2 DEF ResetPosition
<1>4. CASE Apply(s)
  <2>1. AfterPage(s) \in SyncStates
    BY <1>f DEF AfterPage, At, SyncStates, Stages
  <2> QED  BY MovesTo, <1>4, <2>1 DEF Apply
<1>5. CASE SavePosition(s)
  BY MovesTo, <1>5, AtType DEF SavePosition, Stages
<1>6. CASE ListOlder(s)
  <2>1. Idle \in SyncStates
    BY AtType DEF Idle, Stages
  <2>2. \A page \in SUBSET Messages :
          [sync[s] EXCEPT !.at = "older", !.todo = page] \in SyncStates
    BY <1>f DEF SyncStates, Stages
  <2>3. \/ sync' = [sync EXCEPT ![s] = Idle]
        \/ \E page \in SUBSET Older :
             sync' = [sync EXCEPT ![s] = [sync[s] EXCEPT !.at = "older", !.todo = page]]
    BY <1>6 DEF ListOlder
  <2>4. Older \subseteq Messages  BY DEF Older
  <2>5. UNCHANGED <<gmail, bodies>>
    BY <1>6 DEF ListOlder
  <2> QED  BY MovesTo, <2>1, <2>2, <2>3, <2>4, <2>5
<1>7. CASE EndBackfill(s)
  BY MovesTo, <1>7, AtType DEF EndBackfill, Idle, Stages
<1> QED  BY <1>1, <1>2, <1>3, <1>4, <1>5, <1>6, <1>7

LEMMA FaultMoves ==
    ASSUME TypeInv, NEW s \in Syncs, SyncFault(s)
    PROVE  SyncMoves(s)
<1>f. /\ sync[s] \in SyncStates /\ lastSync \in Nat /\ now \in Nat
      /\ position \in Nat \cup {None} /\ Len(history) \in Nat
  BY SyncFacts
<1>1. CASE GmailErrs(s)
  <2>1. \A listed \in SUBSET AskedBy(s) :
          [At("headers") EXCEPT !.since = now, !.todo = listed] \in SyncStates
    BY <1>f DEF At, AskedBy, SyncStates, Stages
  <2>2. \A m : [sync[s] EXCEPT !.todo = @ \ {m}] \in SyncStates
    BY <1>f DEF SyncStates
  <2>3. \/ \E listed \in SUBSET AskedBy(s) :
             sync' = [sync EXCEPT ![s] = [At("headers") EXCEPT !.since = now, !.todo = listed]]
        \/ \E m \in sync[s].todo :
             sync' = [sync EXCEPT ![s] = [sync[s] EXCEPT !.todo = @ \ {m}]]
    BY <1>1 DEF GmailErrs
  <2> QED  BY MovesTo, <1>1, <2>1, <2>2, <2>3 DEF GmailErrs
<1>2. CASE PositionExpired(s)
  BY MovesTo, <1>2, AtType DEF PositionExpired, Stages
<1>3. CASE Abandon(s)
  BY MovesTo, <1>3, AtType DEF Abandon, Idle, Stages
<1>4. CASE HistoryFails(s)
  BY MovesTo, <1>4, AtType DEF HistoryFails, Stages
<1> QED  BY <1>1, <1>2, <1>3, <1>4 DEF SyncFault

LEMMA EachSyncMoves ==
    ASSUME TypeInv, NEW s \in Syncs, Start(s) \/ SyncStep(s) \/ SyncFault(s)
    PROVE  SyncMoves(s)
BY NewMailMoves, LabelMoves, FaultMoves DEF SyncStep

\* What else a sync writes.
LEMMA SyncTypes ==
    ASSUME TypeInv, NEW s \in Syncs, Start(s) \/ SyncStep(s) \/ SyncFault(s)
    PROVE  TypeInv'
<1> USE DEF account, ghosts
<1>f. /\ lastSync \in Nat /\ now \in Nat /\ position \in Nat \cup {None}
      /\ Len(history) \in Nat /\ sync \in [Syncs -> SyncStates]
  BY SyncFacts
<1>1. SyncMoves(s)  BY EachSyncMoves
<1>2. sync' \in [Syncs -> SyncStates]  BY <1>f, <1>1 DEF SyncMoves
<1>3. SUFFICES /\ stored \subseteq stored' /\ stored' \subseteq Messages
               /\ labelled' \subseteq stored'
               /\ lastSync' \in Nat /\ position' \in Nat \cup {None}
               /\ lost' \subseteq Messages /\ raced' \in BOOLEAN
               /\ botched' = botched /\ began' \in Nat /\ faults' \in Nat
  <2>1. UNCHANGED <<now, arrived, inbox, history, body, checked, attached, fetching>>
    BY <1>1 DEF SyncMoves, gmail, bodies
  <2> QED  BY <1>2, <1>3, <2>1, TypeUnfolded DEF TypeInv, RowsOnly, TypeOK, SyncStates
<1>4. /\ stored \subseteq Messages /\ labelled \subseteq stored /\ lost \subseteq Messages
      /\ raced \in BOOLEAN /\ began \in Nat /\ faults \in Nat
      /\ sync[s].todo \subseteq Messages /\ sync[s].to \in Nat
      /\ \A h \in sync[s].headers : h.msg \in Messages
  BY DEF TypeInv, TypeOK, SyncStates
<1>5. CASE Start(s)
  <2>1. raced' \in BOOLEAN  BY <1>5, Zenon DEF Start
  <2> QED  BY <1>f, <1>4, <1>5, <2>1 DEF Start
<1>6. CASE Store(s)
  BY <1>f, <1>4, <1>6 DEF Store
<1>7. CASE Apply(s)
  BY <1>f, <1>4, <1>7 DEF Apply
<1>8. CASE SyncStep(s) /\ ~Store(s) /\ ~Apply(s)
  BY <1>f, <1>4, <1>8 DEF SyncStep, ListIds, Stamp, FetchHeader, ReadPosition, ListHistory,
                    ResetPosition, SavePosition, ListOlder, EndBackfill
<1>9. CASE SyncFault(s)
  <2>1. faults' \in Nat
    <3>1. Fault  BY <1>9 DEF SyncFault, GmailErrs, PositionExpired, Abandon, HistoryFails
    <3> QED  BY <1>4, <3>1 DEF Fault
  <2>2. lost' \subseteq Messages
    BY <1>4, <1>9 DEF SyncFault, GmailErrs, PositionExpired, Abandon, HistoryFails, AskedBy
  <2> QED  BY <1>f, <1>4, <1>9, <2>1, <2>2
           DEF SyncFault, GmailErrs, PositionExpired, Abandon, HistoryFails
<1> QED  BY <1>5, <1>6, <1>7, <1>8, <1>9

\* Nobody fetches a body of a message without a row.
LEMMA FetchTypes ==
    ASSUME TypeInv, NEW m \in Messages, NEW p \in {"worker", "reader"},
           \/ Take(p, m) \/ FetchBody(p, m) \/ BodyErrs(p, m) \/ UpdateBody(p, m)
           \/ SaveAttachments(p, m) \/ FetchFails(p, m) \/ (p = "worker" /\ MarkChecked(m))
    PROVE  TypeInv'
<1> USE DEF gmail, account, ghosts
<1>f. /\ fetching \in [{"worker", "reader"} -> [Messages -> Fetches]]
      /\ fetching[p][m].at # "none" => m \in stored
      /\ fetching[p][m] \in Fetches /\ faults \in Nat /\ botched \subseteq Messages
      /\ checked \subseteq stored /\ attached \subseteq stored
  BY TypeUnfolded DEF TypeInv, RowsOnly
<1>1. \E r \in Fetches : /\ fetching' = [fetching EXCEPT ![p][m] = r]
                         /\ r.at # "none" => m \in stored
  <2>1. CASE Take(p, m)
    <3>1. [fetching[p][m] EXCEPT !.at = "taken"] \in Fetches  BY <1>f DEF Fetches
    <3>2. fetching' = [fetching EXCEPT ![p][m] = [fetching[p][m] EXCEPT !.at = "taken"]]
      BY <2>1 DEF Take
    <3> QED  BY <2>1, <3>1, <3>2 DEF Take
  <2>2. CASE FetchBody(p, m) \/ BodyErrs(p, m)
    <3>1. /\ [at |-> "fetched", given |-> TRUE] \in Fetches
          /\ [at |-> "fetched", given |-> FALSE] \in Fetches
      BY DEF Fetches
    <3> QED  BY <1>f, <2>2, <3>1 DEF FetchBody, BodyErrs
  <2>3. CASE UpdateBody(p, m)
    <3>1. [fetching[p][m] EXCEPT !.at = "updated"] \in Fetches  BY <1>f DEF Fetches
    <3>2. fetching' = [fetching EXCEPT ![p][m] = [fetching[p][m] EXCEPT !.at = "updated"]]
      BY <2>3 DEF UpdateBody
    <3> QED  BY <1>f, <2>3, <3>1, <3>2 DEF UpdateBody
  <2>4. CASE SaveAttachments(p, m)
    <3>1. [fetching[p][m] EXCEPT !.at = "saved"] \in Fetches /\ NoFetch \in Fetches
      BY <1>f DEF Fetches, NoFetch
    <3>2. \/ fetching' = [fetching EXCEPT ![p][m] = [fetching[p][m] EXCEPT !.at = "saved"]]
          \/ fetching' = [fetching EXCEPT ![p][m] = NoFetch]
      BY <2>4 DEF SaveAttachments
    <3> QED  BY <1>f, <2>4, <3>1, <3>2 DEF SaveAttachments, NoFetch
  <2>5. CASE p = "worker" /\ MarkChecked(m)
    BY <1>f, <2>5 DEF MarkChecked, NoFetch, Fetches
  <2>6. CASE FetchFails(p, m)
    <3>1. /\ [fetching[p][m] EXCEPT !.at = "saved"] \in Fetches /\ NoFetch \in Fetches
          /\ [fetching[p][m] EXCEPT !.at = "updated"] \in Fetches
      BY <1>f DEF Fetches, NoFetch
    <3>2. \/ fetching' = [fetching EXCEPT ![p][m] = NoFetch]
          \/ /\ fetching[p][m].at = "fetched"
             /\ fetching' = [fetching EXCEPT ![p][m] = [fetching[p][m] EXCEPT !.at = "updated"]]
          \/ /\ fetching[p][m].at = "updated"
             /\ fetching' = [fetching EXCEPT ![p][m] = [fetching[p][m] EXCEPT !.at = "saved"]]
      BY <2>6 DEF FetchFails
    <3> QED  BY <1>f, <3>1, <3>2 DEF NoFetch
  <2> QED  BY <2>1, <2>2, <2>3, <2>4, <2>5, <2>6
<1>2. /\ fetching' \in [{"worker", "reader"} -> [Messages -> Fetches]]
      /\ stored' = stored => RowsOnly'
  BY <1>f, <1>1 DEF RowsOnly, TypeInv
<1>3. /\ UNCHANGED <<gmail, stored, labelled, account, sync, lost, raced, began>>
      /\ faults' \in Nat /\ botched' \subseteq Messages
      /\ body' = body \/ body' = [body EXCEPT ![m] = "text"] \/ body' = [body EXCEPT ![m] = "blank"]
      /\ checked' # checked \/ attached' # attached => m \in stored
      /\ checked' = checked \/ checked' = checked \cup {m}
      /\ attached' = attached \/ attached' = attached \cup {m}
  BY <1>f DEF Take, FetchBody, BodyErrs, UpdateBody, SaveAttachments, MarkChecked,
              FetchFails, Fault
<1>4. TypeOK'
  <2>1. body' \in [Messages -> {"none", "text", "blank"}]
    BY <1>3 DEF TypeInv, TypeOK
  <2>2. checked' \subseteq stored /\ attached' \subseteq stored
    BY <1>f, <1>3
  <2> QED  BY <1>2, <1>3, <2>1, <2>2, TypeUnfolded DEF TypeInv, TypeOK, Fetches
<1> QED  BY <1>2, <1>3, <1>4 DEF TypeInv

LEMMA TypeStep == TypeInv /\ [Next]_vars => TypeInv'
<1> SUFFICES ASSUME TypeInv, [Next]_vars PROVE TypeInv'  OBVIOUS
<1>1. CASE UNCHANGED vars
  BY <1>1 DEF vars, gmail, bodies, account, ghosts, TypeInv, TypeOK, RowsOnly
<1>2. CASE Tick \/ \E m \in Messages : Arrive(m) \/ Relabel(m)
  BY <1>2, GmailTypes
<1>3. ASSUME NEW s \in Syncs, Start(s) \/ SyncStep(s) \/ SyncFault(s) PROVE TypeInv'
  BY <1>3, SyncTypes
<1>4. ASSUME NEW m \in Messages, WorkerStep(m) \/ ReaderStep(m) PROVE TypeInv'
  <2>1. "worker" \in {"worker", "reader"} /\ "reader" \in {"worker", "reader"}  OBVIOUS
  <2>2. CASE WorkerStep(m)
    <3>1. \/ Take("worker", m) \/ FetchBody("worker", m) \/ UpdateBody("worker", m)
          \/ SaveAttachments("worker", m) \/ ("worker" = "worker" /\ MarkChecked(m))
      BY <2>2 DEF WorkerStep
    <3> QED  BY <2>1, <3>1, FetchTypes, Zenon
  <2>3. CASE ReaderStep(m)
    <3>1. \/ Take("reader", m) \/ FetchBody("reader", m) \/ UpdateBody("reader", m)
          \/ SaveAttachments("reader", m)
      BY <2>3 DEF ReaderStep
    <3> QED  BY <2>1, <3>1, FetchTypes, Zenon
  <2> QED  BY <1>4, <2>2, <2>3
<1>5. ASSUME NEW m \in Messages, NEW p \in {"worker", "reader"},
             BodyErrs(p, m) \/ FetchFails(p, m)
      PROVE TypeInv'
  BY <1>5, FetchTypes
<1> QED  BY <1>1, <1>2, <1>3, <1>4, <1>5 DEF Next

-----------------------------------------------------------------------------
(* last_sync moves past nothing *)

\* Came and still without a row, although Gmail was never asked for it in vain.
Missing == {m \in Messages \ (stored \cup lost) : Came(m)}

WindowInv == Clocks /\ InWindow

LEMMA Times ==
    ASSUME TypeInv
    PROVE  /\ now \in Nat /\ lastSync \in Nat /\ Overlap \in Nat \ {0}
           /\ \A m \in Messages : Came(m) => arrived[m] \in Nat
           /\ \A s \in Syncs : sync[s].since \in Nat /\ sync[s] \in SyncStates
<1>1. sync \in [Syncs -> SyncStates]  BY TypeUnfolded DEF TypeInv
<1>2. \A s \in Syncs : sync[s].since \in Nat /\ sync[s] \in SyncStates
  BY <1>1 DEF SyncStates
<1> QED  BY <1>2, OverlapAssumption DEF TypeInv, TypeOK, Came

LEMMA InitWindow == Init => WindowInv
BY DEF Init, Idle, At, WindowInv, Clocks, InWindow, Came

LEMMA GmailWindow ==
    ASSUME TypeInv, WindowInv, Tick \/ \E m \in Messages : Arrive(m) \/ Relabel(m)
    PROVE  WindowInv'
<1> USE Times DEF WindowInv, Clocks, InWindow, Counted, Came
<1>1. CASE Tick
  BY <1>1 DEF Tick, account, ghosts
<1>2. ASSUME NEW m \in Messages, Arrive(m) PROVE WindowInv'
  <2>1. /\ arrived[m] = None /\ arrived' = [arrived EXCEPT ![m] = now]
        /\ UNCHANGED <<now, stored, lastSync, sync, lost>>
    BY <1>2 DEF Arrive, account, ghosts
  <2>2. arrived'[m] = now /\ \A n \in Messages \ {m} : arrived'[n] = arrived[n]
    BY <2>1 DEF TypeInv, TypeOK
  <2> QED  BY <2>1, <2>2
<1>3. ASSUME NEW m \in Messages, Relabel(m) PROVE WindowInv'
  BY <1>3 DEF Relabel, account, ghosts
<1> QED  BY <1>1, <1>2, <1>3

\* What a step of sync s has to say for itself.
LEMMA WindowFrame ==
    ASSUME TypeInv, WindowInv, NEW s \in Syncs, SyncMoves(s),
           stored \subseteq stored', lost \subseteq lost',
           \/ lastSync' = lastSync
           \/ lastSync' = now /\ \A m \in Missing : arrived[m] + Overlap >= now,
           sync'[s].since <= now,
           sync'[s].at = "headers" => now <= sync'[s].since + Overlap,
           \A m \in Missing' : Counted(s, m)'
    PROVE  WindowInv'
<1>1. /\ now' = now /\ arrived' = arrived
      /\ \A t \in Syncs \ {s} : sync'[t] = sync[t]
  BY SyncFacts DEF SyncMoves, gmail
<1>2. Missing' \subseteq Missing
  BY <1>1 DEF Missing, Came
<1>3. Clocks'
  BY <1>1, Times DEF WindowInv, Clocks, Came
<1>4. InWindow'
  <2> SUFFICES ASSUME NEW m \in Missing'
               PROVE  /\ arrived'[m] + Overlap >= lastSync'
                      /\ \A t \in Syncs : Counted(t, m)'
    BY DEF InWindow, Missing
  <2>1. m \in Missing  BY <1>2
  <2>2. arrived'[m] + Overlap >= lastSync'
    BY <1>1, <2>1 DEF WindowInv, InWindow, Missing
  <2>3. ASSUME NEW t \in Syncs \ {s} PROVE Counted(t, m)'
    <3>1. Counted(t, m)  BY <2>1 DEF WindowInv, InWindow, Missing
    <3> QED  BY <1>1, <3>1 DEF Counted
  <2> QED  BY <2>2, <2>3
<1> QED  BY <1>3, <1>4 DEF WindowInv

\* The sync has nothing that holds a message: it is before the query, or after the
\* new mail.
LEMMA NothingHeld ==
    ASSUME TypeInv, WindowInv, NEW s \in Syncs, SyncMoves(s), stored' = stored,
           lost' = lost, lastSync' = lastSync, sync'[s].since <= now,
           sync'[s].at \notin {"list", "headers"}
    PROVE  WindowInv'
BY WindowFrame DEF Counted

LEMMA NewMailWindow ==
    ASSUME TypeInv, WindowInv, NEW s \in Syncs,
           Start(s) \/ ListIds(s) \/ Store(s) \/ Stamp(s) \/ GmailErrs(s)
             \/ \E m \in Messages : FetchHeader(s, m)
    PROVE  WindowInv'
<1>m. SyncMoves(s)
  BY NewMailMoves, FaultMoves DEF SyncFault
<1>n. now' = now /\ arrived' = arrived  BY <1>m DEF SyncMoves, gmail
<1>t. /\ sync \in [Syncs -> SyncStates] /\ sync[s].since \in Nat /\ now \in Nat
      /\ lastSync \in Nat /\ Overlap \in Nat
  BY Times, SyncFacts
<1>w. /\ lastSync <= now /\ sync[s].since <= now
      /\ sync[s].at = "headers" => now <= sync[s].since + Overlap
      /\ \A m \in Missing : /\ Counted(s, m) /\ arrived[m] + Overlap >= lastSync
                            /\ arrived[m] \in Nat
  BY Times DEF WindowInv, Clocks, InWindow, Missing
<1>c. \A m : Came(m)' <=> Came(m)  BY <1>n DEF Came
<1>1. CASE Start(s)
  <2>1. sync'[s] = [sync[s] EXCEPT !.at = "list", !.since = lastSync]
    BY <1>1, <1>t DEF Start
  <2>2. sync'[s].at = "list" /\ sync'[s].since = lastSync
    BY <2>1, <1>t DEF SyncStates
  <2>3. stored' = stored /\ lost' = lost /\ lastSync' = lastSync
    BY <1>1 DEF Start, account
  <2>4. \A m \in Missing' : Counted(s, m)'
    BY <1>c, <1>n, <1>w, <2>2, <2>3 DEF Missing, Counted
  <2> QED  BY <1>m, <1>w, <2>2, <2>3, <2>4, WindowFrame
<1>2. CASE ListIds(s)
  <2>1. sync'[s] = [At("headers") EXCEPT !.since = now, !.todo = AskedBy(s)]
    BY <1>2, <1>t DEF ListIds
  <2>2. sync'[s].at = "headers" /\ sync'[s].since = now /\ sync'[s].todo = AskedBy(s)
    BY <2>1 DEF At
  <2>3. /\ stored' = stored /\ lost' = lost /\ lastSync' = lastSync
        /\ sync[s].at = "list"
    BY <1>2 DEF ListIds, account, ghosts
  <2>4. \A m \in Missing : m \in AskedBy(s)
    BY <1>w, <2>3 DEF Missing, Counted, AskedBy
  <2>5. \A m \in Missing' : Counted(s, m)'
    BY <1>c, <1>n, <2>2, <2>3, <2>4 DEF Missing, Counted
  <2> QED  BY <1>m, <1>t, <2>2, <2>3, <2>5, WindowFrame
<1>3. CASE Store(s)
  <2>1. PICK batch \in SUBSET sync[s].headers :
          /\ stored' = stored \cup {h.msg : h \in batch}
          /\ sync' = [sync EXCEPT ![s].headers = @ \ batch]
    BY <1>3 DEF Store
  <2>2. sync'[s] = [sync[s] EXCEPT !.headers = sync[s].headers \ batch]
    BY <1>t, <2>1
  <2>3. /\ sync'[s].at = sync[s].at /\ sync'[s].since = sync[s].since
        /\ sync'[s].todo = sync[s].todo /\ sync'[s].headers = sync[s].headers \ batch
    BY <1>t, <2>2 DEF SyncStates
  <2>4. lost' = lost /\ lastSync' = lastSync
    BY <1>3 DEF Store, account, ghosts
  <2>5. \A m \in Missing' : m \in Missing /\ ~\E h \in batch : h.msg = m
    BY <1>c, <2>1, <2>4 DEF Missing
  <2>6. \A m \in Missing' : Counted(s, m)'
    BY <1>n, <1>w, <2>3, <2>5 DEF Counted
  <2> QED  BY <1>m, <1>w, <2>1, <2>3, <2>4, <2>6, WindowFrame
<1>4. CASE Stamp(s)
  <2>1. sync'[s] = At("position")
    BY <1>4, <1>t DEF Stamp
  <2>2. sync'[s].at = "position" /\ sync'[s].since = 0
    BY <2>1 DEF At
  <2>3. /\ sync[s].at = "headers" /\ sync[s].todo = {} /\ sync[s].headers = {}
        /\ lastSync' = now /\ stored' = stored /\ lost' = lost
    BY <1>4 DEF Stamp, AllStored, ghosts
  <2>4. \A m \in Missing : arrived[m] + Overlap >= now
    <3> SUFFICES ASSUME NEW m \in Missing PROVE arrived[m] + Overlap >= now  OBVIOUS
    <3>1. arrived[m] >= sync[s].since /\ now <= sync[s].since + Overlap /\ arrived[m] \in Nat
      BY <1>w, <2>3 DEF Counted
    <3> QED  BY <1>t, <3>1
  <2>5. \A m \in Missing' : Counted(s, m)'
    BY <2>2 DEF Counted
  <2> QED  BY <1>m, <1>t, <2>2, <2>3, <2>4, <2>5, WindowFrame
<1>5. CASE GmailErrs(s)
  <2>0. stored' = stored /\ lastSync' = lastSync
    BY <1>5 DEF GmailErrs, account
  <2>1. ASSUME sync[s].at = "list", NEW listed \in SUBSET AskedBy(s),
               lost' = lost \cup (AskedBy(s) \ listed),
               sync' = [sync EXCEPT ![s] = [At("headers") EXCEPT !.since = now, !.todo = listed]]
        PROVE  WindowInv'
    <3>0. sync'[s] = [At("headers") EXCEPT !.since = now, !.todo = listed]
      BY <1>t, <2>1
    <3>1. sync'[s].at = "headers" /\ sync'[s].since = now /\ sync'[s].todo = listed
      BY <3>0 DEF At
    <3>2. \A m \in Missing : m \in AskedBy(s)
      BY <1>w, <2>1 DEF Missing, Counted, AskedBy
    <3>3. \A m \in Missing' : m \in listed
      BY <1>c, <2>0, <2>1, <3>2 DEF Missing
    <3>4. \A m \in Missing' : Counted(s, m)'
      BY <3>1, <3>3 DEF Counted
    <3>5. stored \subseteq stored' /\ lost \subseteq lost'
      BY <2>0, <2>1
    <3> QED  BY <1>m, <1>t, <2>0, <3>1, <3>4, <3>5, WindowFrame
  <2>2. ASSUME NEW m \in sync[s].todo, lost' = lost \cup {m},
               sync' = [sync EXCEPT ![s].todo = @ \ {m}]
        PROVE  WindowInv'
    <3>1. sync'[s] = [sync[s] EXCEPT !.todo = @ \ {m}]  BY <1>t, <2>2
    <3>2. /\ sync'[s].at = sync[s].at /\ sync'[s].since = sync[s].since
          /\ sync'[s].todo = sync[s].todo \ {m} /\ sync'[s].headers = sync[s].headers
      BY <1>t, <3>1 DEF SyncStates
    <3>3. \A n \in Missing' : n \in Missing /\ n # m
      BY <1>c, <2>0, <2>2 DEF Missing
    <3>4. \A n \in Missing' : Counted(s, n)'
      BY <1>n, <1>w, <3>2, <3>3 DEF Counted
    <3> QED  BY <1>m, <1>w, <2>0, <2>2, <3>2, <3>4, WindowFrame
  <2> QED  BY <1>5, <2>1, <2>2 DEF GmailErrs
<1>6. ASSUME NEW m \in Messages, FetchHeader(s, m) PROVE WindowInv'
  <2> DEFINE h == [msg |-> m, inbox |-> m \in inbox]
  <2>1. /\ sync'[s] = [sync[s] EXCEPT !.todo = @ \ {m}, !.headers = @ \cup {h}]
        /\ stored' = stored /\ lost' = lost /\ lastSync' = lastSync
    BY <1>6, <1>t DEF FetchHeader, account, ghosts
  <2>2. h.msg = m  OBVIOUS
  <2> HIDE DEF h
  <2>3. /\ sync'[s].at = sync[s].at /\ sync'[s].since = sync[s].since
        /\ sync'[s].todo = sync[s].todo \ {m} /\ sync'[s].headers = sync[s].headers \cup {h}
    BY <1>t, <2>1 DEF SyncStates
  <2>4. \A n \in Missing' : Counted(s, n)'
    BY <1>c, <1>n, <1>w, <2>1, <2>2, <2>3 DEF Missing, Counted
  <2> QED  BY <1>m, <1>w, <2>1, <2>3, <2>4, WindowFrame
<1> QED  BY <1>1, <1>2, <1>3, <1>4, <1>5, <1>6

LEMMA LabelWindow ==
    ASSUME TypeInv, WindowInv, NEW s \in Syncs,
           \/ ReadPosition(s) \/ ListHistory(s) \/ ResetPosition(s) \/ Apply(s)
           \/ SavePosition(s) \/ ListOlder(s) \/ EndBackfill(s)
           \/ PositionExpired(s) \/ Abandon(s) \/ HistoryFails(s)
    PROVE  WindowInv'
<1>m. SyncMoves(s)
  BY LabelMoves, FaultMoves DEF SyncFault
<1>t. /\ sync \in [Syncs -> SyncStates] /\ sync[s] \in SyncStates /\ now \in Nat
      /\ sync[s].since <= now
  BY Times, SyncFacts DEF WindowInv, Clocks
<1>1. stored' = stored /\ lost' = lost /\ lastSync' = lastSync
  BY DEF ReadPosition, ListHistory, ResetPosition, Apply, SavePosition, ListOlder,
         EndBackfill, PositionExpired, Abandon, HistoryFails, account, ghosts
<1>2. \/ sync'[s] \in {At("reset"), At("backfill"), At("idle")}
      \/ sync'[s] = AfterPage(s)
      \/ \E n \in Nat : sync'[s] = [sync[s] EXCEPT !.at = "history", !.from = n]
      \/ \E n \in Nat, at \in {"apply", "page", "save"} :
           sync'[s] = [sync[s] EXCEPT !.at = at, !.to = n]
      \/ \E T \in SUBSET Messages : sync'[s] = [sync[s] EXCEPT !.at = "older", !.todo = T]
  <2>1. CASE ReadPosition(s)
    BY <1>t, <2>1, SyncFacts DEF ReadPosition
  <2>2. CASE Apply(s) \/ SavePosition(s) \/ EndBackfill(s)
               \/ PositionExpired(s) \/ Abandon(s) \/ HistoryFails(s)
    BY <1>t, <2>2 DEF Apply, SavePosition, EndBackfill, PositionExpired, Abandon,
                      HistoryFails, Idle
  <2>3. CASE ListHistory(s)
    <3>1. PICK n \in Nat, at \in {"apply", "page"} :
            sync' = [sync EXCEPT ![s] = [sync[s] EXCEPT !.at = at, !.to = n]]
      BY <2>3, PageListed
    <3>2. sync'[s] = [sync[s] EXCEPT !.at = at, !.to = n]
      BY <1>t, <3>1
    <3> QED  BY <3>2
  <2>4. CASE ResetPosition(s)
    <3>1. sync'[s] = [sync[s] EXCEPT !.at = "save", !.to = Len(history)]
      BY <1>t, <2>4 DEF ResetPosition
    <3> QED  BY <3>1, SyncFacts
  <2>5. CASE ListOlder(s)
    <3>1. \/ sync' = [sync EXCEPT ![s] = Idle]
          \/ \E page \in SUBSET Older :
               sync' = [sync EXCEPT ![s] = [sync[s] EXCEPT !.at = "older", !.todo = page]]
      BY <2>5 DEF ListOlder
    <3>2. Older \subseteq Messages  BY DEF Older
    <3> QED  BY <1>t, <3>1, <3>2 DEF Idle
  <2> QED  BY <2>1, <2>2, <2>3, <2>4, <2>5
<1>3. /\ sync'[s].since <= now
      /\ sync'[s].at \notin {"list", "headers"}
  <2>1. CASE sync'[s] \in {At("reset"), At("backfill"), At("idle")}
    BY <1>t, <2>1 DEF At
  <2>2. CASE sync'[s] = AfterPage(s)
    BY <1>t, <2>2 DEF AfterPage, At
  <2>3. CASE \E n \in Nat : sync'[s] = [sync[s] EXCEPT !.at = "history", !.from = n]
    BY <1>t, <2>3 DEF SyncStates
  <2>4. CASE \E n \in Nat, at \in {"apply", "page", "save"} :
               sync'[s] = [sync[s] EXCEPT !.at = at, !.to = n]
    BY <1>t, <2>4 DEF SyncStates
  <2>5. CASE \E T \in SUBSET Messages :
               sync'[s] = [sync[s] EXCEPT !.at = "older", !.todo = T]
    BY <1>t, <2>5 DEF SyncStates
  <2> QED  BY <1>2, <2>1, <2>2, <2>3, <2>4, <2>5
<1> QED  BY <1>m, <1>1, <1>3, NothingHeld

\* The bodies have no part in it.
LEMMA FetchWindow ==
    ASSUME WindowInv, NEW m \in Messages,
           \/ WorkerStep(m) \/ ReaderStep(m)
           \/ \E p \in {"worker", "reader"} : BodyErrs(p, m) \/ FetchFails(p, m)
    PROVE  WindowInv'
<1>1. UNCHANGED <<now, arrived, stored, lastSync, sync, lost>>
  BY DEF WorkerStep, ReaderStep, Take, FetchBody, BodyErrs, UpdateBody, SaveAttachments,
         MarkChecked, FetchFails, gmail, account, ghosts
<1> QED  BY <1>1 DEF WindowInv, Clocks, InWindow, Counted, Came

LEMMA WindowStep == TypeInv /\ WindowInv /\ [Next]_vars => WindowInv'
<1> SUFFICES ASSUME TypeInv, WindowInv, [Next]_vars PROVE WindowInv'  OBVIOUS
<1>1. CASE UNCHANGED vars
  BY <1>1 DEF vars, gmail, account, ghosts, WindowInv, Clocks, InWindow, Counted, Came
<1>2. CASE Tick \/ \E m \in Messages : Arrive(m) \/ Relabel(m)
  BY <1>2, GmailWindow
<1>3. ASSUME NEW s \in Syncs, Start(s) \/ SyncStep(s) \/ SyncFault(s) PROVE WindowInv'
  BY <1>3, NewMailWindow, LabelWindow DEF SyncStep, SyncFault
<1>4. ASSUME NEW m \in Messages,
             \/ WorkerStep(m) \/ ReaderStep(m)
             \/ \E p \in {"worker", "reader"} : BodyErrs(p, m) \/ FetchFails(p, m)
      PROVE WindowInv'
  BY <1>4, FetchWindow
<1> QED  BY <1>1, <1>2, <1>3, <1>4 DEF Next

-----------------------------------------------------------------------------
(* What is marked as checked is there, or its absence has an excuse *)

CheckedInv == SavedInTurn /\ UnsavedIsExcused

LEMMA InitChecked == Init => CheckedInv
BY DEF Init, NoFetch, CheckedInv, SavedInTurn, Saved, UnsavedIsExcused

\* A step that leaves the bodies alone.
LEMMA CheckedFrame ==
    ASSUME CheckedInv, UNCHANGED bodies, botched' = botched
    PROVE  CheckedInv'
BY DEF CheckedInv, SavedInTurn, Saved, UnsavedIsExcused, bodies

\* A row that is marked: complete, or botched, or marked by a reader that has not come
\* to its attachments.
Excusable(m) ==
    /\ body[m] # "none"
    /\ body[m] = "text" \/ m \in botched
    /\ m \in attached \cup botched \/ fetching["reader"][m].at = "updated"

LEMMA FetchChecked ==
    ASSUME TypeInv, CheckedInv, NEW m \in Messages, NEW p \in {"worker", "reader"},
           \/ Take(p, m) \/ FetchBody(p, m) \/ BodyErrs(p, m) \/ UpdateBody(p, m)
           \/ SaveAttachments(p, m) \/ FetchFails(p, m) \/ (p = "worker" /\ MarkChecked(m))
    PROVE  CheckedInv'
<1>t. /\ fetching \in [{"worker", "reader"} -> [Messages -> Fetches]]
      /\ fetching[p][m] \in Fetches
      /\ body \in [Messages -> {"none", "text", "blank"}] /\ checked \subseteq Messages
  BY TypeUnfolded DEF TypeInv
<1>i. /\ \A q \in {"worker", "reader"}, n \in Messages : Saved(q, n)
      /\ \A n \in Messages : body[n] = "blank" => n \in botched
      /\ \A n \in checked : Excusable(n)
  BY DEF CheckedInv, SavedInTurn, UnsavedIsExcused, Excusable
<1>o. \A q \in {"worker", "reader"}, n \in Messages :
         q # p \/ n # m => fetching'[q][n] = fetching[q][n]
  BY <1>t DEF Take, FetchBody, BodyErrs, UpdateBody, SaveAttachments, FetchFails, MarkChecked
<1>b. /\ botched \subseteq botched' /\ attached \subseteq attached'
      /\ \A n \in Messages : body'[n] = IF n = m THEN body'[m] ELSE body[n]
      /\ body'[m] = body[m] \/ body'[m] \in {"text", "blank"}
      /\ \A n \in checked' : n \in checked \/ n = m
  <2>1. CASE UpdateBody(p, m)
    <3>1. body' = [body EXCEPT ![m] = IF fetching[p][m].given THEN "text" ELSE "blank"]
      BY <2>1 DEF UpdateBody
    <3>2. /\ botched' = botched /\ attached' = attached
          /\ \A n \in checked' : n \in checked \/ n = m
      BY <2>1 DEF UpdateBody, ghosts
    <3> QED  BY <1>t, <3>1, <3>2
  <2>2. CASE SaveAttachments(p, m) \/ (p = "worker" /\ MarkChecked(m))
    BY <2>2 DEF SaveAttachments, MarkChecked, ghosts
  <2>3. CASE Take(p, m) \/ FetchBody(p, m) \/ BodyErrs(p, m) \/ FetchFails(p, m)
    <3>1. UNCHANGED <<body, checked, attached>> /\ botched \subseteq botched'
      BY <2>3 DEF Take, FetchBody, BodyErrs, FetchFails, ghosts
    <3> QED  BY <3>1
  <2> QED  BY <2>1, <2>2, <2>3
\* Only the message in question has anything to show.
<1>s. SUFFICES /\ Saved(p, m)'
               /\ body'[m] = "blank" => m \in botched'
               /\ m \in checked' => Excusable(m)'
  <2>1. ASSUME NEW q \in {"worker", "reader"}, NEW n \in Messages, q # p \/ n # m
        PROVE  Saved(q, n)'
    <3>1. Saved(q, n) /\ fetching'[q][n] = fetching[q][n]
      BY <1>i, <1>o, <2>1
    <3> QED  BY <1>b, <3>1 DEF Saved
  <2>2. ASSUME NEW n \in checked', n # m PROVE Excusable(n)'
    <3>1. n \in checked /\ n \in Messages /\ Excusable(n)
      BY <1>b, <1>i, <1>t, <2>2
    <3>2. fetching'["reader"][n] = fetching["reader"][n] /\ body'[n] = body[n]
      BY <1>b, <1>o, <2>2, <3>1
    <3> QED  BY <1>b, <3>1, <3>2 DEF Excusable
  <2>3. \A n \in Messages : body'[n] = "blank" => n \in botched'
    BY <1>b, <1>i, <1>s
  <2> QED  BY <1>s, <2>1, <2>2, <2>3 DEF CheckedInv, SavedInTurn, UnsavedIsExcused, Excusable
<1>v. Saved(p, m) /\ (body[m] = "blank" => m \in botched) /\ (m \in checked => Excusable(m))
  BY <1>i
<1>1. CASE Take(p, m)
  <2>1. fetching[p][m].at = "none" /\ fetching'[p][m].at = "taken"
    BY <1>t, <1>1 DEF Take, Fetches
  <2>2. UNCHANGED <<body, checked, attached, botched>>
    BY <1>1 DEF Take, ghosts
  <2>3. fetching["reader"][m].at = "updated" => fetching'["reader"][m].at = "updated"
    BY <1>o, <2>1
  <2> QED  BY <1>v, <2>1, <2>2, <2>3 DEF Saved, Excusable
<1>2. CASE FetchBody(p, m) \/ BodyErrs(p, m)
  <2>1. /\ fetching[p][m].at = "taken" /\ fetching'[p][m].at = "fetched"
        /\ fetching'[p][m].given \/ m \in botched'
    BY <1>t, <1>2 DEF FetchBody, BodyErrs
  <2>2. UNCHANGED <<body, checked, attached>>
    BY <1>2 DEF FetchBody, BodyErrs
  <2>3. fetching["reader"][m].at = "updated" => fetching'["reader"][m].at = "updated"
    BY <1>o, <2>1
  <2> QED  BY <1>b, <1>v, <2>1, <2>2, <2>3 DEF Saved, Excusable
<1>3. CASE UpdateBody(p, m)
  <2>1. /\ fetching[p][m].at = "fetched" /\ fetching'[p][m].at = "updated"
        /\ fetching'[p][m].given = fetching[p][m].given
        /\ attached' = attached /\ botched' = botched
    BY <1>t, <1>3 DEF UpdateBody, Fetches, ghosts
  <2>2. fetching[p][m].given \/ m \in botched
    BY <1>v, <2>1 DEF Saved
  <2>3. body'[m] = IF fetching[p][m].given THEN "text" ELSE "blank"
    BY <1>3, <1>t DEF UpdateBody
  <2>4. checked' = IF p = "reader" THEN checked \cup {m} ELSE checked
    BY <1>3 DEF UpdateBody
  <2>5. Saved(p, m)'
    BY <2>1, <2>2, <2>3 DEF Saved
  <2>6. body'[m] # "none" /\ (body'[m] = "text" \/ m \in botched')
    BY <2>1, <2>2, <2>3
  <2>7. CASE p = "reader"
    BY <2>1, <2>5, <2>6, <2>7 DEF Excusable
  <2>8. CASE p = "worker"
    <3>1. m \in checked' => m \in checked  BY <2>4, <2>8
    <3>2. fetching'["reader"][m] = fetching["reader"][m]  BY <1>o, <2>8
    <3>3. m \in checked' => Excusable(m)'
      BY <1>v, <2>1, <2>6, <3>1, <3>2 DEF Excusable
    <3> QED  BY <2>5, <2>6, <3>3
  <2> QED  BY <2>7, <2>8
<1>4. CASE SaveAttachments(p, m)
  <2>1. /\ fetching[p][m].at = "updated"
        /\ body' = body /\ checked' = checked /\ botched' = botched
    BY <1>4 DEF SaveAttachments, ghosts
  <2>2. fetching[p][m].given \/ m \in botched
    BY <1>v, <2>1 DEF Saved
  <2>3. m \in attached' \cup botched
    BY <1>4, <2>2 DEF SaveAttachments
  <2>4. \/ p = "reader" /\ fetching'[p][m] = NoFetch
        \/ fetching'[p][m] = [fetching[p][m] EXCEPT !.at = "saved"]
    BY <1>t, <1>4 DEF SaveAttachments
  <2>5. /\ fetching'[p][m].at \in {"none", "saved"}
        /\ fetching'[p][m].at = "saved" => fetching'[p][m].given = fetching[p][m].given
    BY <1>t, <2>4 DEF NoFetch, Fetches
  <2>6. Saved(p, m)'
    BY <1>v, <2>1, <2>2, <2>3, <2>5 DEF Saved
  <2>7. m \in checked' => Excusable(m)'
    BY <1>v, <2>1, <2>3 DEF Excusable
  <2> QED  BY <1>v, <2>1, <2>6, <2>7
<1>5. CASE p = "worker" /\ MarkChecked(m)
  <2>1. /\ fetching[p][m].at = "saved" /\ fetching'[p][m].at = "none"
        /\ body' = body /\ attached' = attached /\ botched' = botched
    BY <1>t, <1>5 DEF MarkChecked, NoFetch, ghosts
  <2>2. body[m] # "none" /\ m \in attached \cup botched
    BY <1>5, <1>v, <2>1 DEF Saved
  <2>3. body[m] = "text" \/ m \in botched
    BY <1>t, <1>v, <2>2
  <2> QED  BY <1>v, <2>1, <2>2, <2>3 DEF Saved, Excusable
<1>6. CASE FetchFails(p, m)
  <2>0. UNCHANGED <<body, checked, attached>>
    BY <1>6 DEF FetchFails
  <2>1. CASE fetching' = [fetching EXCEPT ![p][m] = NoFetch]
             /\ botched' = IF p = "reader" /\ fetching[p][m].at = "updated"
                           THEN botched \cup {m} ELSE botched
    <3>1. fetching'[p][m].at = "none"
      BY <1>t, <2>1 DEF NoFetch
    <3>2. fetching["reader"][m].at = "updated" => \/ fetching'["reader"][m].at = "updated"
                                                  \/ m \in botched'
      BY <1>o, <2>1
    <3> QED  BY <1>b, <1>v, <2>0, <3>1, <3>2 DEF Saved, Excusable
  <2>2. CASE p = "reader" /\ fetching[p][m].at = "fetched"
             /\ fetching' = [fetching EXCEPT ![p][m].at = "updated"] /\ botched' = botched
    <3>1. fetching'[p][m].at = "updated" /\ fetching'[p][m].given = fetching[p][m].given
      BY <1>t, <2>2 DEF Fetches
    <3> QED  BY <1>v, <2>0, <2>2, <3>1 DEF Saved, Excusable
  <2>3. CASE p = "worker" /\ fetching[p][m].at = "updated"
             /\ fetching' = [fetching EXCEPT ![p][m].at = "saved"]
             /\ botched' = botched \cup {m}
    <3>1. fetching'[p][m].at = "saved"
      BY <1>t, <2>3 DEF Fetches
    <3> QED  BY <1>v, <2>0, <2>3, <3>1 DEF Saved, Excusable
  <2> QED  BY <1>6, <2>1, <2>2, <2>3 DEF FetchFails
<1> QED  BY <1>1, <1>2, <1>3, <1>4, <1>5, <1>6

LEMMA CheckedStep == TypeInv /\ CheckedInv /\ [Next]_vars => CheckedInv'
<1> SUFFICES ASSUME TypeInv, CheckedInv, [Next]_vars PROVE CheckedInv'  OBVIOUS
<1>1. CASE UNCHANGED vars
  BY <1>1, CheckedFrame DEF vars, ghosts
<1>2. CASE Tick \/ \E m \in Messages : Arrive(m) \/ Relabel(m)
  BY <1>2, CheckedFrame DEF Tick, Arrive, Relabel, ghosts
<1>3. ASSUME NEW s \in Syncs, Start(s) \/ SyncStep(s) \/ SyncFault(s) PROVE CheckedInv'
  <2>1. UNCHANGED bodies
    BY <1>3, EachSyncMoves DEF SyncMoves
  <2>2. botched' = botched
    BY <1>3 DEF SyncStep, SyncFault, Start, ListIds, Store, Stamp, FetchHeader, ReadPosition,
                ListHistory, ResetPosition, Apply, SavePosition, ListOlder, EndBackfill,
                GmailErrs, PositionExpired, Abandon, HistoryFails, ghosts
  <2> QED  BY <2>1, <2>2, CheckedFrame
<1>4. ASSUME NEW m \in Messages, WorkerStep(m) \/ ReaderStep(m) PROVE CheckedInv'
  <2>1. CASE WorkerStep(m)
    <3>1. \/ Take("worker", m) \/ FetchBody("worker", m) \/ UpdateBody("worker", m)
          \/ SaveAttachments("worker", m) \/ ("worker" = "worker" /\ MarkChecked(m))
      BY <2>1 DEF WorkerStep
    <3>2. "worker" \in {"worker", "reader"}  OBVIOUS
    <3> QED  BY <3>1, <3>2, FetchChecked, Zenon
  <2>2. CASE ReaderStep(m)
    <3>1. \/ Take("reader", m) \/ FetchBody("reader", m) \/ UpdateBody("reader", m)
          \/ SaveAttachments("reader", m)
      BY <2>2 DEF ReaderStep
    <3>2. "reader" \in {"worker", "reader"}  OBVIOUS
    <3> QED  BY <3>1, <3>2, FetchChecked, Zenon
  <2> QED  BY <1>4, <2>1, <2>2
<1>5. ASSUME NEW m \in Messages, NEW p \in {"worker", "reader"},
             BodyErrs(p, m) \/ FetchFails(p, m)
      PROVE CheckedInv'
  BY <1>5, FetchChecked
<1> QED  BY <1>1, <1>2, <1>3, <1>4, <1>5 DEF Next

-----------------------------------------------------------------------------
(* The labels of the rows follow Gmail's *)

\* Message m was relabelled after position p, or before the position was reset: its
\* row need not agree.
Ahead(m, p) == \E k \in 1..Len(history) : history[k].msg = m /\ (p = None \/ k > p)
Before(m) == \E k \in 1..Len(history) : history[k].msg = m /\ k <= began
Agrees(m) == m \in labelled <=> m \in inbox
Excused(m, p) == Agrees(m) \/ Ahead(m, p) \/ Before(m)

\* The last change to a message says whether it is in the inbox, and a message that
\* has not come has no change.
LastChange(m, k) == /\ k \in 1..Len(history) /\ history[k].msg = m
                    /\ \A j \in 1..Len(history) : history[j].msg = m => j <= k
HistoryTells ==
    \A m \in Messages :
        /\ \A k \in 1..Len(history) : LastChange(m, k) => (history[k].added <=> m \in inbox)
        /\ ~Came(m) => \A k \in 1..Len(history) : history[k].msg # m

\* What a sync has in hand has come, and it has nothing in hand but while it fetches.
InHand(s) ==
    /\ \A m \in sync[s].todo : Came(m)
    /\ \A h \in sync[s].headers : Came(h.msg)
    /\ sync[s].at \notin {"headers", "older"} => sync[s].todo = {} /\ sync[s].headers = {}

\* What a sync works with is Gmail's history up to now, and begins at the position or
\* past it when no other sync moves it.
InPlace(s) ==
    /\ sync[s].at \in {"page", "apply", "save"} => sync[s].to <= Len(history)
    /\ ~raced /\ sync[s].at \in {"history", "page", "apply"} =>
          /\ position # None /\ position <= sync[s].from /\ sync[s].from <= Len(history)
          /\ sync[s].at # "history" => sync[s].from <= sync[s].to

\* How far the pages have been applied.
Reached(s) == IF sync[s].at = "save" THEN sync[s].to ELSE sync[s].from
Paging == {"history", "page", "apply", "save"}

\* What Store will write, and what the rows are like when the sync has come this far.
HeadersExcused(s) ==
    ~raced => \A h \in sync[s].headers : (h.inbox <=> h.msg \in inbox) \/ Ahead(h.msg, position)
SaveExcused(s) ==
    ~raced /\ sync[s].at \in Paging => \A m \in stored : Excused(m, Reached(s))

Alone == ~raced => \A s, t \in Syncs : sync[s].at # "idle" /\ sync[t].at # "idle" => s = t
RowsExcused == ~raced => \A m \in stored : Excused(m, position)
PositionsPast == /\ position # None => position <= Len(history)
                 /\ began <= Len(history)
                 /\ \A m \in stored : Came(m)

LabelInv ==
    /\ HistoryTells /\ Alone /\ PositionsPast /\ RowsExcused
    /\ \A s \in Syncs : InHand(s) /\ InPlace(s) /\ HeadersExcused(s) /\ SaveExcused(s)

LEMMA InitLabels == Init => LabelInv
<1> SUFFICES ASSUME Init PROVE LabelInv  OBVIOUS
<1>1. Len(history) = 0  BY EmptySeq DEF Init
<1>2. \A s \in Syncs : /\ sync[s].at = "idle" /\ sync[s].todo = {} /\ sync[s].headers = {}
  BY DEF Init, Idle, At
<1>3. HistoryTells  BY <1>1 DEF HistoryTells
<1>4. PositionsPast  BY <1>1 DEF Init, PositionsPast
<1>5. Alone /\ RowsExcused
  BY <1>2 DEF Init, Alone, RowsExcused
<1>6. \A s \in Syncs : InHand(s) /\ InPlace(s) /\ HeadersExcused(s) /\ SaveExcused(s)
  BY <1>2 DEF InHand, InPlace, HeadersExcused, SaveExcused, Paging
<1> QED  BY <1>3, <1>4, <1>5, <1>6 DEF LabelInv

LEMMA LabelTypes ==
    ASSUME TypeInv
    PROVE  /\ Len(history) \in Nat /\ position \in Nat \cup {None} /\ began \in Nat
           /\ \A k \in 1..Len(history) : history[k].msg \in Messages /\ history[k].added \in BOOLEAN
           /\ stored \subseteq Messages /\ labelled \subseteq stored /\ inbox \subseteq Messages
           /\ \A s \in Syncs : /\ sync[s].at \in Stages /\ sync[s].todo \subseteq Messages
                               /\ sync[s].headers \subseteq [msg : Messages, inbox : BOOLEAN]
                               /\ sync[s].from \in Nat /\ sync[s].to \in Nat
<1>1. Len(history) \in Nat  BY HistoryLength DEF TypeInv
<1>2. ASSUME NEW k \in 1..Len(history) PROVE history[k] \in [msg : Messages, added : BOOLEAN]
  BY ElementOfSeq DEF TypeInv, TypeOK
<1>3. \A s \in Syncs : sync[s] \in SyncStates
  BY SyncFacts
<1> QED  BY <1>1, <1>2, <1>3 DEF TypeInv, TypeOK, SyncStates

\* Mail arrives, or its user relabels it: what was excused stays so, and the change
\* is ahead of every position.
LEMMA GmailLabels ==
    ASSUME TypeInv, LabelInv, Tick \/ \E m \in Messages : Arrive(m) \/ Relabel(m)
    PROVE  LabelInv'
<1>t. /\ Len(history) \in Nat /\ position \in Nat \cup {None} /\ began \in Nat
      /\ stored \subseteq Messages
      /\ \A s \in Syncs : sync[s].to \in Nat /\ sync[s].from \in Nat
                          /\ sync[s].headers \subseteq [msg : Messages, inbox : BOOLEAN]
  BY LabelTypes
<1>1. CASE Tick
  <2>1. UNCHANGED <<arrived, inbox, history, stored, labelled, position, sync, raced, began>>
    BY <1>1 DEF Tick, account, ghosts
  <2> QED  BY <2>1 DEF LabelInv, HistoryTells, LastChange, Came, Alone, PositionsPast,
                       RowsExcused, InHand, InPlace, HeadersExcused, SaveExcused, Reached, Excused,
                       Agrees, Ahead, Before
<1>2. ASSUME NEW n \in Messages, Arrive(n) PROVE LabelInv'
  <2>1. /\ ~Came(n) /\ inbox' = inbox \cup {n}
        /\ UNCHANGED <<history, stored, labelled, position, sync, raced, began>>
    BY <1>2 DEF Arrive, account, ghosts
  <2>2. /\ \A m \in Messages : Came(m) => Came(m)'
        /\ \A m \in Messages : Came(m) => m # n
    <3>1. \A m \in Messages \ {n} : arrived'[m] = arrived[m]
      BY <1>2 DEF Arrive, TypeInv, TypeOK
    <3> QED  BY <2>1, <3>1 DEF Came
  <2>3. HistoryTells'
    <3>1. \A k \in 1..Len(history) : history[k].msg # n
      BY <2>1 DEF LabelInv, HistoryTells
    <3>2. \A m \in Messages : ~Came(m)' => ~Came(m)
      BY <2>2
    <3>3. ASSUME NEW m \in Messages
          PROVE  /\ \A k \in 1..Len(history) :
                       LastChange(m, k) => (history[k].added <=> m \in inbox')
                 /\ ~Came(m)' => \A k \in 1..Len(history) : history[k].msg # m
      BY <2>1, <3>1, <3>2 DEF LabelInv, HistoryTells, LastChange
    <3> QED  BY <2>1, <3>3 DEF HistoryTells, LastChange
  <2>4. \A m \in Messages : Came(m) => (m \in inbox' <=> m \in inbox)
    BY <2>1, <2>2
  <2>5. PositionsPast' /\ Alone'
    BY <1>t, <2>1, <2>2 DEF LabelInv, PositionsPast, Alone
  <2>6. RowsExcused'
    BY <1>t, <2>1, <2>4 DEF LabelInv, PositionsPast, RowsExcused, Excused, Agrees, Ahead, Before
  <2>7. ASSUME NEW s \in Syncs
        PROVE  InHand(s)' /\ InPlace(s)' /\ HeadersExcused(s)' /\ SaveExcused(s)'
    <3>1. InHand(s) /\ InPlace(s) /\ HeadersExcused(s) /\ SaveExcused(s)
      BY DEF LabelInv
    <3>2. sync[s].todo \subseteq Messages  BY LabelTypes
    <3>3. InHand(s)' /\ InPlace(s)'
      BY <1>t, <2>1, <2>2, <3>1, <3>2 DEF InHand, InPlace
    <3>4. HeadersExcused(s)'
      BY <1>t, <2>1, <2>4, <3>1 DEF InHand, HeadersExcused, Ahead
    <3>5. SaveExcused(s)'
      BY <1>t, <2>1, <2>4, <3>1 DEF LabelInv, PositionsPast, SaveExcused, Reached, Excused,
                                    Agrees, Ahead, Before
    <3> QED  BY <3>3, <3>4, <3>5
  <2> QED  BY <2>3, <2>5, <2>6, <2>7 DEF LabelInv
<1>3. ASSUME NEW n \in Messages, Relabel(n) PROVE LabelInv'
  <2> DEFINE N == Len(history) + 1
  <2>1. /\ Came(n) /\ UNCHANGED <<arrived, stored, labelled, position, sync, raced, began>>
        /\ inbox' = IF n \in inbox THEN inbox \ {n} ELSE inbox \cup {n}
    BY <1>3 DEF Relabel, account, ghosts
  <2>2. [msg |-> n, added |-> n \notin inbox] \in [msg : Messages, added : BOOLEAN]
    BY Zenon
  <2>3. /\ Len(history') = N /\ history'[N] = [msg |-> n, added |-> n \notin inbox]
        /\ \A k \in 1..Len(history) : history'[k] = history[k]
    BY <1>3, <2>2, AppendProperties DEF Relabel, TypeInv, TypeOK
  <2>4. \A k \in 1..Len(history') : k = N \/ k \in 1..Len(history)
    BY <1>t, <2>3
  <2>5. /\ history'[N].msg = n /\ (history'[N].added <=> n \notin inbox)
        /\ N \in 1..Len(history')
    <3>1. history'[N].msg = n /\ (history'[N].added <=> n \notin inbox)
      <4> DEFINE out == n \notin inbox
      <4>1. history'[N] = [msg |-> n, added |-> out]  BY <2>3
      <4> HIDE DEF out
      <4>2. history'[N].msg = n /\ history'[N].added = out  BY <4>1
      <4> QED  BY <4>2 DEF out
    <3>2. N \in 1..Len(history')
      BY <1>t, <2>3
    <3> QED  BY <3>1, <3>2
  <2>6. 1..Len(history) \subseteq 1..Len(history') /\ \A k \in 1..Len(history) : k < N
    BY <1>t, <2>3
  <2>7. \A m : m # n => (m \in inbox' <=> m \in inbox)
    BY <2>1
  <2> HIDE DEF N
  <2>8. HistoryTells'
    <3> SUFFICES ASSUME NEW m \in Messages
                 PROVE  /\ \A k \in 1..Len(history') :
                             LastChange(m, k)' => (history'[k].added <=> m \in inbox')
                        /\ ~Came(m) => \A k \in 1..Len(history') : history'[k].msg # m
      BY <2>1 DEF HistoryTells, Came
    <3>1. CASE m = n
      <4>1. \A k \in 1..Len(history') : LastChange(n, k)' => k = N
        BY <1>t, <2>4, <2>5, <2>6 DEF LastChange
      <4>2. n \in inbox' <=> n \notin inbox  BY <2>1
      <4> QED  BY <2>1, <2>5, <3>1, <4>1, <4>2
    <3>2. CASE m # n
      <4>1. \A k \in 1..Len(history') : LastChange(m, k)' => k # N /\ LastChange(m, k)
        BY <2>3, <2>4, <2>5, <2>6, <3>2 DEF LastChange
      <4> QED  BY <2>3, <2>4, <2>5, <2>7, <3>2, <4>1 DEF LabelInv, HistoryTells
    <3> QED  BY <3>1, <3>2
  <2>9. \A m \in Messages, p \in Nat \cup {None} : Ahead(m, p) => Ahead(m, p)'
    BY <2>3, <2>6 DEF Ahead
  <2>10. \A p \in Nat \cup {None} : p = None \/ p <= Len(history) => Ahead(n, p)'
    <3> SUFFICES ASSUME NEW p \in Nat \cup {None}, p = None \/ p <= Len(history)
                 PROVE  p = None \/ N > p
      BY <2>5 DEF Ahead
    <3> QED  BY <1>t, NoneAssumption DEF N
  <2>11. \A m \in Messages : Before(m) => Before(m)'
    BY <2>1, <2>3, <2>6 DEF Before
  <2>12. \A m \in Messages, p \in Nat \cup {None} :
            (p = None \/ p <= Len(history)) /\ Excused(m, p) => Excused(m, p)'
    BY <2>1, <2>7, <2>9, <2>10, <2>11 DEF Excused, Agrees
  <2>13. PositionsPast' /\ Alone'
    BY <1>t, <2>1, <2>3, NoneAssumption DEF LabelInv, PositionsPast, Alone, N, Came
  <2>14. RowsExcused'
    <3> SUFFICES ASSUME ~raced, NEW m \in stored PROVE Excused(m, position)'
      BY <2>1 DEF RowsExcused
    <3>1. Excused(m, position) /\ (position = None \/ position <= Len(history))
      BY DEF LabelInv, RowsExcused, PositionsPast
    <3>2. Excused(m, position)' <=> \E p \in {position} : Excused(m, p)'
      BY <2>1 DEF Excused, Ahead
    <3> QED  BY <1>t, <2>12, <3>1, <3>2
  <2>15. ASSUME NEW s \in Syncs
         PROVE  InHand(s)' /\ InPlace(s)' /\ HeadersExcused(s)' /\ SaveExcused(s)'
    <3>1. InHand(s) /\ InPlace(s) /\ HeadersExcused(s) /\ SaveExcused(s)
      BY DEF LabelInv
    <3>2. sync[s].todo \subseteq Messages  BY LabelTypes
    <3>3. InHand(s)'
      BY <2>1, <3>1 DEF InHand, Came
    <3>4. InPlace(s)'
      BY <1>t, <2>1, <2>3, <3>1 DEF InPlace, N
    <3>5. HeadersExcused(s)'
      <4> SUFFICES ASSUME ~raced, NEW h \in sync[s].headers
                   PROVE  (h.inbox <=> h.msg \in inbox') \/ Ahead(h.msg, position)'
        BY <2>1 DEF HeadersExcused
      <4>1. h.msg \in Messages  BY <1>t
      <4>2. (h.inbox <=> h.msg \in inbox) \/ Ahead(h.msg, position)
        BY <3>1 DEF HeadersExcused
      <4>3. position = None \/ position <= Len(history)
        BY DEF LabelInv, PositionsPast
      <4>4. \A p \in {position} : Ahead(h.msg, position)' <=> Ahead(h.msg, p)'
        BY <2>1 DEF Ahead
      <4> QED  BY <1>t, <2>7, <2>9, <2>10, <4>1, <4>2, <4>3, <4>4
    <3>6. SaveExcused(s)'
      <4> SUFFICES ASSUME ~raced, sync[s].at \in Paging, NEW m \in stored
                   PROVE  Excused(m, Reached(s))'
        BY <2>1 DEF SaveExcused
      <4>1. Excused(m, Reached(s)) /\ Reached(s) \in Nat /\ Reached(s) <= Len(history)
        BY <1>t, <3>1 DEF SaveExcused, InPlace, Reached, Paging
      <4>2. \A p \in {Reached(s)} : Excused(m, Reached(s))' <=> Excused(m, p)'
        BY <2>1 DEF Excused, Ahead, Reached
      <4> QED  BY <1>t, <2>12, <4>1, <4>2
    <3> QED  BY <3>3, <3>4, <3>5, <3>6
  <2> QED  BY <2>8, <2>13, <2>14, <2>15 DEF LabelInv
<1> QED  BY <1>1, <1>2, <1>3

\* A sync that takes a step is not idle, and it does not make itself one of two.
LEMMA Working ==
    ASSUME TypeInv, LabelInv, NEW s \in Syncs, SyncStep(s) \/ SyncFault(s)
    PROVE  sync[s].at # "idle" /\ raced' = raced
<1>1. InHand(s)  BY DEF LabelInv
<1> QED  BY <1>1 DEF InHand, SyncStep, SyncFault, ListIds, Store, Stamp, FetchHeader,
                     ReadPosition, ListHistory, ResetPosition, Apply, SavePosition, ListOlder,
                     EndBackfill, GmailErrs, PositionExpired, Abandon, HistoryFails, ghosts

\* What a step of sync s has to say for itself: unless two have been at work, the
\* others are idle.
LEMMA LabelFrame ==
    ASSUME TypeInv, LabelInv, NEW s \in Syncs, SyncMoves(s),
           ~raced' => ~raced /\ \A t \in Syncs \ {s} : sync[t].at = "idle",
           \A m \in stored' : Came(m),
           position' # None => position' <= Len(history), began' <= Len(history),
           RowsExcused', InHand(s)', InPlace(s)', HeadersExcused(s)', SaveExcused(s)'
    PROVE  LabelInv'
<1>1. /\ history' = history /\ inbox' = inbox /\ arrived' = arrived
      /\ \A t \in Syncs \ {s} : sync'[t] = sync[t]
  BY SyncFacts DEF SyncMoves, gmail
<1>2. HistoryTells'
  BY <1>1 DEF LabelInv, HistoryTells, LastChange, Came
<1>3. PositionsPast'
  BY <1>1 DEF PositionsPast, Came
<1>4. Alone'
  BY <1>1 DEF Alone
<1>5. ASSUME NEW t \in Syncs \ {s}
      PROVE  InHand(t)' /\ InPlace(t)' /\ HeadersExcused(t)' /\ SaveExcused(t)'
  <2>1. InHand(t) /\ InPlace(t)  BY DEF LabelInv
  <2>2. InHand(t)'  BY <1>1, <2>1 DEF InHand, Came
  <2>3. InPlace(t)'  BY <1>1, <2>1 DEF InPlace
  <2>4. HeadersExcused(t)' /\ SaveExcused(t)'
    BY <1>1, <2>1 DEF InHand, HeadersExcused, SaveExcused, Paging
  <2> QED  BY <2>2, <2>3, <2>4
<1> QED  BY <1>2, <1>3, <1>4, <1>5 DEF LabelInv

\* A step that leaves rows, labels and the position alone has only its own state to
\* account for.
LEMMA SameRows ==
    ASSUME TypeInv, LabelInv, NEW s \in Syncs, SyncMoves(s),
           ~raced' => ~raced /\ \A t \in Syncs \ {s} : sync[t].at = "idle",
           UNCHANGED <<stored, labelled, position, began>>,
           InHand(s)', InPlace(s)', HeadersExcused(s)',
           sync'[s].at \notin Paging \/ SaveExcused(s)'
    PROVE  LabelInv'
<1>1. history' = history /\ inbox' = inbox
  BY DEF SyncMoves, gmail
<1>2. RowsExcused'
  BY <1>1 DEF LabelInv, RowsExcused, Excused, Agrees, Ahead, Before
<1>3. SaveExcused(s)'
  BY DEF SaveExcused
<1> QED  BY <1>2, <1>3, LabelFrame DEF LabelInv, PositionsPast

\* Nothing in hand, and no history either.
LEMMA EmptyHanded ==
    ASSUME TypeInv, LabelInv, NEW s \in Syncs, SyncMoves(s),
           ~raced' => ~raced /\ \A t \in Syncs \ {s} : sync[t].at = "idle",
           UNCHANGED <<stored, labelled, position, began>>,
           sync'[s].todo = {}, sync'[s].headers = {},
           sync'[s].at \notin Paging
    PROVE  LabelInv'
<1>1. InHand(s)' /\ InPlace(s)' /\ HeadersExcused(s)'
  BY DEF InHand, InPlace, HeadersExcused, Paging
<1> QED  BY <1>1, SameRows

LEMMA AtFields ==
    /\ \A stage : At(stage).at = stage /\ At(stage).todo = {} /\ At(stage).headers = {}
    /\ \A stage, n, T : /\ [At(stage) EXCEPT !.since = n, !.todo = T].at = stage
                        /\ [At(stage) EXCEPT !.since = n, !.todo = T].todo = T
                        /\ [At(stage) EXCEPT !.since = n, !.todo = T].headers = {}
BY DEF At

\* Start to FetchHeader, and a header that does not come.
LEMMA FetchLabels ==
    ASSUME TypeInv, LabelInv, NEW s \in Syncs,
           Start(s) \/ ListIds(s) \/ Stamp(s) \/ GmailErrs(s)
             \/ \E m \in Messages : FetchHeader(s, m)
    PROVE  LabelInv'
<1>m. SyncMoves(s)
  BY NewMailMoves, FaultMoves DEF SyncFault
<1>t. sync \in [Syncs -> SyncStates] /\ sync[s] \in SyncStates
  BY SyncFacts
<1>g. gmail' = gmail /\ arrived' = arrived /\ inbox' = inbox /\ history' = history
  BY <1>m DEF SyncMoves, gmail
<1>l. InHand(s) /\ InPlace(s) /\ HeadersExcused(s) /\ Alone
  BY DEF LabelInv
<1>u. UNCHANGED <<stored, labelled, position, began>>
  BY DEF Start, ListIds, Stamp, GmailErrs, FetchHeader, account, ghosts
<1>a. ~raced' => ~raced /\ \A t \in Syncs \ {s} : sync[t].at = "idle"
  <2>1. CASE Start(s)
    BY <2>1 DEF Start
  <2>2. CASE SyncStep(s) \/ SyncFault(s)
    BY <1>l, <2>2, Working DEF Alone
  <2> QED  BY <2>1, <2>2 DEF SyncStep, SyncFault
<1>1. CASE Start(s)
  <2>1. sync[s].at = "idle" /\ sync'[s] = [sync[s] EXCEPT !.at = "list", !.since = lastSync]
    BY <1>t, <1>1 DEF Start
  <2>2. /\ sync'[s].at = "list" /\ sync'[s].todo = sync[s].todo
        /\ sync'[s].headers = sync[s].headers
    BY <1>t, <2>1 DEF SyncStates
  <2> QED  BY <1>a, <1>l, <1>m, <1>u, <2>1, <2>2, EmptyHanded DEF InHand, Paging
<1>2. CASE ListIds(s)
  <2>1. sync'[s] = [At("headers") EXCEPT !.since = now, !.todo = AskedBy(s)]
    BY <1>t, <1>2 DEF ListIds
  <2>2. sync'[s].at = "headers" /\ sync'[s].todo = AskedBy(s) /\ sync'[s].headers = {}
    BY <2>1, AtFields
  <2>3. InHand(s)'
    BY <1>g, <2>2 DEF InHand, AskedBy, Came
  <2>4. InPlace(s)' /\ HeadersExcused(s)'
    BY <2>2 DEF InPlace, HeadersExcused
  <2> QED  BY <1>a, <1>m, <1>u, <2>2, <2>3, <2>4, SameRows DEF Paging
<1>3. CASE Stamp(s)
  <2>1. sync'[s] = At("position")  BY <1>t, <1>3 DEF Stamp
  <2> QED  BY <1>a, <1>m, <1>u, <2>1, AtFields, EmptyHanded DEF Paging
<1>4. CASE GmailErrs(s)
  <2>1. ASSUME NEW listed \in SUBSET AskedBy(s),
               sync' = [sync EXCEPT ![s] = [At("headers") EXCEPT !.since = now, !.todo = listed]]
        PROVE  LabelInv'
    <3>1. sync'[s] = [At("headers") EXCEPT !.since = now, !.todo = listed]  BY <1>t, <2>1
    <3>2. sync'[s].at = "headers" /\ sync'[s].todo = listed /\ sync'[s].headers = {}
      BY <3>1, AtFields
    <3>3. InHand(s)'
      BY <1>g, <3>2 DEF InHand, AskedBy, Came
    <3>4. InPlace(s)' /\ HeadersExcused(s)'
      BY <3>2 DEF InPlace, HeadersExcused
    <3> QED  BY <1>a, <1>m, <1>u, <3>2, <3>3, <3>4, SameRows DEF Paging
  <2>2. ASSUME NEW m \in sync[s].todo, sync' = [sync EXCEPT ![s].todo = @ \ {m}]
        PROVE  LabelInv'
    <3>1. sync'[s] = [sync[s] EXCEPT !.todo = @ \ {m}]  BY <1>t, <2>2
    <3>2. /\ sync'[s].at = sync[s].at /\ sync'[s].todo = sync[s].todo \ {m}
          /\ sync'[s].headers = sync[s].headers
      BY <1>t, <3>1 DEF SyncStates
    <3>3. sync[s].at \in {"headers", "older"}
      BY <1>l DEF InHand
    <3>4. InHand(s)'
      BY <1>g, <1>l, <3>2, <3>3 DEF InHand, Came
    <3>5. HeadersExcused(s)'
      BY <1>a, <1>g, <1>l, <1>u, <3>2 DEF HeadersExcused, Ahead
    <3>6. InPlace(s)'
      BY <3>2, <3>3 DEF InPlace
    <3> QED  BY <1>a, <1>m, <1>u, <3>2, <3>3, <3>4, <3>5, <3>6, SameRows DEF Paging
  <2> QED  BY <1>4, <2>1, <2>2 DEF GmailErrs
<1>5. ASSUME NEW m \in Messages, FetchHeader(s, m) PROVE LabelInv'
  <2> DEFINE listed == m \in inbox
             h == [msg |-> m, inbox |-> listed]
  <2>0. sync' = [sync EXCEPT ![s].todo = @ \ {m}, ![s].headers = @ \cup {h}]
    BY <1>5 DEF FetchHeader
  <2>1. sync'[s] = [sync[s] EXCEPT !.todo = @ \ {m}, !.headers = @ \cup {h}]
    BY <1>t, <2>0
  <2>2. h.msg = m /\ h.inbox = listed
    <3> HIDE DEF listed
    <3> QED  OBVIOUS
  <2>3. h.msg = m /\ (h.inbox <=> m \in inbox)
    <3> HIDE DEF h
    <3> QED  BY <2>2
  <2> HIDE DEF h, listed
  <2>4. /\ sync'[s].at = sync[s].at /\ sync'[s].todo = sync[s].todo \ {m}
        /\ sync'[s].headers = sync[s].headers \cup {h}
    BY <1>t, <2>1 DEF SyncStates
  <2>5. m \in sync[s].todo  BY <1>5 DEF FetchHeader
  <2>6. sync[s].at \in {"headers", "older"} /\ Came(m)
    BY <1>l, <2>5 DEF InHand
  <2>7. InHand(s)'
    BY <1>g, <1>l, <2>3, <2>4, <2>6 DEF InHand, Came
  <2>8. HeadersExcused(s)'
    <3>1. \A g \in sync[s].headers : Ahead(g.msg, position)' <=> Ahead(g.msg, position)
      BY <1>g, <1>u DEF Ahead
    <3> QED  BY <1>a, <1>g, <1>l, <2>3, <2>4, <3>1 DEF HeadersExcused
  <2>9. InPlace(s)'
    BY <2>4, <2>6 DEF InPlace
  <2> QED  BY <1>a, <1>m, <1>u, <2>4, <2>6, <2>7, <2>8, <2>9, SameRows DEF Paging
<1> QED  BY <1>1, <1>2, <1>3, <1>4, <1>5

\* process_batch: a label as the header has it is Gmail's, or one that was changed
\* since the header came.
LEMMA StoreLabels ==
    ASSUME TypeInv, LabelInv, NEW s \in Syncs, Store(s)
    PROVE  LabelInv'
<1>m. SyncMoves(s)  BY NewMailMoves
<1>t. sync \in [Syncs -> SyncStates] /\ sync[s] \in SyncStates
  BY SyncFacts
<1>g. arrived' = arrived /\ inbox' = inbox /\ history' = history
  BY <1>m DEF SyncMoves, gmail
<1>l. InHand(s) /\ HeadersExcused(s) /\ Alone /\ RowsExcused /\ PositionsPast
  BY DEF LabelInv
<1>u. UNCHANGED <<position, began, raced>>
  BY DEF Store, account, ghosts
<1>f. sync[s].at \in {"headers", "older"}
  BY <1>l DEF InHand, Store
<1>a. ~raced' => ~raced /\ \A t \in Syncs \ {s} : sync[t].at = "idle"
  BY <1>f, <1>l, <1>u DEF InHand, Alone
<1>0. PICK B \in SUBSET sync[s].headers :
        /\ stored' = stored \cup {h.msg : h \in B}
        /\ labelled' = (labelled \ {h.msg : h \in B}) \cup {h.msg : h \in {g \in B : g.inbox}}
        /\ sync' = [sync EXCEPT ![s].headers = @ \ B]
  BY DEF Store
<1> DEFINE batch == {h.msg : h \in B}
           listed == {h.msg : h \in {g \in B : g.inbox}}
<1>1. stored' = stored \cup batch /\ labelled' = (labelled \ batch) \cup listed
  BY <1>0
<1>2. /\ \A m \in batch : Came(m)
      /\ \A m \in listed : \E h \in sync[s].headers : h.msg = m /\ h.inbox
      /\ \A m \in batch \ listed : \E h \in sync[s].headers : h.msg = m /\ ~h.inbox
  BY <1>l DEF InHand
<1> HIDE DEF batch, listed
<1>3. /\ sync'[s].at = sync[s].at /\ sync'[s].todo = sync[s].todo
      /\ sync'[s].headers = sync[s].headers \ B
  <2>1. sync'[s] = [sync[s] EXCEPT !.headers = sync[s].headers \ B]
    BY <1>0, <1>t
  <2> QED  BY <1>t, <2>1 DEF SyncStates
<1>4. RowsExcused'
  <2> SUFFICES ASSUME ~raced, NEW m \in stored' PROVE Excused(m, position)'
    BY <1>u DEF RowsExcused
  <2>1. /\ Ahead(m, position)' <=> Ahead(m, position)
        /\ Before(m)' <=> Before(m)
    BY <1>g, <1>u DEF Ahead, Before
  <2>2. CASE m \in listed
    <3>1. m \in inbox \/ Ahead(m, position)
      BY <1>2, <1>l, <2>2 DEF HeadersExcused
    <3> QED  BY <1>1, <1>g, <2>1, <2>2, <3>1 DEF Excused, Agrees
  <2>3. CASE m \in batch \ listed
    <3>1. m \notin inbox \/ Ahead(m, position)
      BY <1>2, <1>l, <2>3 DEF HeadersExcused
    <3> QED  BY <1>1, <1>g, <2>1, <2>3, <3>1 DEF Excused, Agrees
  <2>4. CASE m \notin batch \cup listed
    <3>1. m \in stored /\ (m \in labelled' <=> m \in labelled)
      BY <1>1, <2>4
    <3> QED  BY <1>g, <1>l, <2>1, <3>1 DEF RowsExcused, Excused, Agrees
  <2> QED  BY <2>2, <2>3, <2>4
<1>5. \A m \in stored' : Came(m)
  BY <1>1, <1>2, <1>l DEF PositionsPast
<1>6. InHand(s)' /\ InPlace(s)' /\ HeadersExcused(s)' /\ SaveExcused(s)'
  <2>1. \A m : Came(m)' <=> Came(m)  BY <1>g DEF Came
  <2>2. HeadersExcused(s)'
    BY <1>3, <1>g, <1>l, <1>u DEF HeadersExcused, Ahead
  <2>3. InHand(s)'
    BY <1>3, <1>f, <1>l, <2>1 DEF InHand
  <2>4. InPlace(s)' /\ SaveExcused(s)'
    BY <1>3, <1>f DEF InPlace, SaveExcused, Paging
  <2> QED  BY <2>2, <2>3, <2>4
<1> QED  BY <1>a, <1>g, <1>l, <1>m, <1>u, <1>4, <1>5, <1>6, LabelFrame DEF PositionsPast

\* The changes a sync makes: the last of them is the last of all, or one lies ahead
\* of what it has read.
LEMMA ChangesDecide ==
    ASSUME TypeInv, HistoryTells, NEW s \in Syncs, NEW m \in Messages,
           sync[s].to <= Len(history), Changes(s, m) # {}
    PROVE  /\ history[Max(Changes(s, m))].added <=> m \in inbox
           \/ Ahead(m, sync[s].to)
<1>t. Len(history) \in Nat /\ sync[s].from \in Nat /\ sync[s].to \in Nat
  BY LabelTypes
<1> DEFINE C == Changes(s, m)
<1>1. C \in SUBSET (0..sync[s].to) /\ C # {}
  BY <1>t DEF Changes
<1>2. \E x \in C : \A y \in C : x >= y
  <2> HIDE DEF C
  <2> QED  BY <1>1, <1>t, GreatestNat
<1>3. Max(C) \in C /\ \A y \in C : Max(C) >= y
  <2> HIDE DEF C
  <2> QED  BY <1>2 DEF Max
<1>4. Max(C) \in sync[s].from + 1 .. sync[s].to /\ history[Max(C)].msg = m
  <2>1. \A k \in C : k \in sync[s].from + 1 .. sync[s].to /\ history[k].msg = m
    BY DEF Changes
  <2> HIDE DEF C
  <2> QED  BY <1>3, <2>1
<1>5. ASSUME ~Ahead(m, sync[s].to) PROVE LastChange(m, Max(C))
  <2>1. ASSUME NEW j \in 1..Len(history), history[j].msg = m PROVE j <= Max(C)
    <3>1. j <= sync[s].to  BY <1>5, <1>t, <2>1, NoneAssumption DEF Ahead
    <3>2. CASE j > sync[s].from
      <4>1. j \in C  BY <1>t, <2>1, <3>1, <3>2 DEF Changes
      <4> HIDE DEF C
      <4> QED  BY <1>3, <1>4, <1>t, <4>1
    <3>3. CASE j <= sync[s].from
      <4> HIDE DEF C
      <4> QED  BY <1>4, <1>t, <3>3
    <3> QED  BY <1>t, <3>2, <3>3
  <2>2. Max(C) \in 1..Len(history)
    <3> HIDE DEF C
    <3> QED  BY <1>4, <1>t
  <2> HIDE DEF C
  <2> QED  BY <1>4, <2>1, <2>2 DEF LastChange
<1>6. LastChange(m, Max(C)) => (history[Max(C)].added <=> m \in inbox)
  <2> HIDE DEF C
  <2> QED  BY DEF HistoryTells, LastChange
<1> QED  BY <1>5, <1>6

\* Apply: a row it changes is Gmail's up to what the sync has read; of the others,
\* none was excused by a change in between.
LEMMA ApplyLabels ==
    ASSUME TypeInv, LabelInv, NEW s \in Syncs, Apply(s)
    PROVE  LabelInv'
<1>m. SyncMoves(s)  BY LabelMoves
<1>t. /\ sync \in [Syncs -> SyncStates] /\ sync[s] \in SyncStates /\ stored \subseteq Messages
      /\ Len(history) \in Nat /\ position \in Nat \cup {None}
      /\ sync[s].to \in Nat /\ sync[s].from \in Nat
  BY SyncFacts, LabelTypes
<1>g. arrived' = arrived /\ inbox' = inbox /\ history' = history
  BY <1>m DEF SyncMoves, gmail
<1>l. InPlace(s) /\ SaveExcused(s) /\ HistoryTells /\ Alone /\ RowsExcused /\ PositionsPast
  BY DEF LabelInv
<1>u. UNCHANGED <<stored, position, began, raced>>
  BY DEF Apply, account, ghosts
<1>a. /\ ~raced' => ~raced /\ \A t \in Syncs \ {s} : sync[t].at = "idle"
      /\ sync[s].at \in {"page", "apply"}
  BY <1>l, <1>u DEF Apply, Alone
<1>1. /\ sync'[s].at = (IF sync[s].at = "page" THEN "history" ELSE "save")
      /\ sync[s].at = "page" => sync'[s].from = sync[s].to
      /\ sync[s].at = "apply" => sync'[s].to = sync[s].to
      /\ sync'[s].todo = {} /\ sync'[s].headers = {}
  <2>1. sync'[s] = AfterPage(s)
    BY <1>t DEF Apply
  <2> QED  BY <1>a, <2>1 DEF AfterPage, At
<1>r. Reached(s)' = sync[s].to /\ Reached(s) = sync[s].from
  BY <1>1, <1>a DEF Reached
<1>2. ASSUME ~raced, NEW m \in stored
      PROVE  Excused(m, Reached(s))' /\ Excused(m, position)'
  <2>1. /\ Ahead(m, position)' <=> Ahead(m, position)
        /\ Ahead(m, Reached(s))' <=> Ahead(m, sync[s].to)
        /\ Before(m)' <=> Before(m)
    BY <1>g, <1>r, <1>u DEF Ahead, Before
  <2>2. /\ Excused(m, position) /\ Excused(m, sync[s].from)
        /\ position # None /\ position <= sync[s].from
        /\ sync[s].from <= sync[s].to /\ sync[s].to <= Len(history)
    BY <1>2, <1>a, <1>l, <1>r DEF RowsExcused, SaveExcused, InPlace, Paging
  <2>3. m \in labelled' <=> IF Changes(s, m) = {} THEN m \in labelled
                            ELSE history[Max(Changes(s, m))].added
    BY <1>2 DEF Apply
  <2>4. CASE Changes(s, m) = {}
    <3>1. Agrees(m)' <=> Agrees(m)
      BY <1>g, <2>3, <2>4 DEF Agrees
    <3>2. Ahead(m, sync[s].from) => Ahead(m, sync[s].to)
      BY <1>t, <2>2, <2>4, NoneAssumption DEF Ahead, Changes
    <3> QED  BY <2>1, <2>2, <3>1, <3>2 DEF Excused
  <2>5. CASE Changes(s, m) # {}
    <3>1. Agrees(m)' \/ Ahead(m, sync[s].to)
      BY <1>g, <1>l, <1>t, <2>2, <2>3, <2>5, ChangesDecide DEF Agrees
    <3>2. Ahead(m, position)
      BY <1>t, <2>2, <2>5, NoneAssumption DEF Ahead, Changes
    <3> QED  BY <2>1, <3>1, <3>2 DEF Excused
  <2> QED  BY <2>4, <2>5
<1>3. RowsExcused'
  BY <1>2, <1>u DEF RowsExcused
<1>4. SaveExcused(s)'
  BY <1>2, <1>u DEF SaveExcused
<1>5. InHand(s)' /\ InPlace(s)' /\ HeadersExcused(s)'
  BY <1>1, <1>a, <1>g, <1>l, <1>t, <1>u DEF InHand, InPlace, HeadersExcused
<1> QED  BY <1>a, <1>g, <1>l, <1>m, <1>u, <1>3, <1>4, <1>5, LabelFrame DEF PositionsPast

\* The position is read, reset or saved.
LEMMA PositionLabels ==
    ASSUME TypeInv, LabelInv, NEW s \in Syncs,
           \/ ReadPosition(s) \/ ListHistory(s) \/ ResetPosition(s) \/ SavePosition(s)
    PROVE  LabelInv'
<1>m. SyncMoves(s)  BY LabelMoves
<1>t. /\ sync \in [Syncs -> SyncStates] /\ sync[s] \in SyncStates /\ stored \subseteq Messages
      /\ Len(history) \in Nat /\ position \in Nat \cup {None} /\ began \in Nat
      /\ sync[s].to \in Nat /\ sync[s].from \in Nat
  BY SyncFacts, LabelTypes
<1>g. arrived' = arrived /\ inbox' = inbox /\ history' = history
  BY <1>m DEF SyncMoves, gmail
<1>l. /\ InHand(s) /\ InPlace(s) /\ SaveExcused(s) /\ Alone /\ RowsExcused /\ PositionsPast
  BY DEF LabelInv
<1>a. /\ ~raced' => ~raced /\ \A t \in Syncs \ {s} : sync[t].at = "idle"
      /\ raced' = raced
  BY <1>l, Working DEF SyncStep, Alone
<1>h. sync[s].todo = {} /\ sync[s].headers = {}
  BY <1>l DEF InHand, ReadPosition, ListHistory, ResetPosition, SavePosition
<1>1. CASE ReadPosition(s)
  <2>1. UNCHANGED <<stored, labelled, position, began>>
    BY <1>1 DEF ReadPosition, account, ghosts
  <2>2. CASE position = None
    <3>1. sync'[s] = At("reset")  BY <1>1, <1>t, <2>2 DEF ReadPosition
    <3>2. sync'[s].at = "reset" /\ sync'[s].todo = {} /\ sync'[s].headers = {}
      BY <3>1 DEF At
    <3> QED  BY <1>a, <1>m, <2>1, <3>2, EmptyHanded DEF Paging
  <2>3. CASE position # None
    <3>1. sync'[s] = [sync[s] EXCEPT !.at = "history", !.from = position]
      BY <1>1, <1>t, <2>3 DEF ReadPosition
    <3>2. /\ sync'[s].at = "history" /\ sync'[s].todo = {} /\ sync'[s].headers = {}
          /\ sync'[s].from = position
      BY <1>h, <1>t, <3>1 DEF SyncStates
    <3>3. InHand(s)' /\ InPlace(s)' /\ HeadersExcused(s)'
      BY <1>g, <1>l, <1>t, <2>1, <2>3, <3>2 DEF InHand, InPlace, HeadersExcused, PositionsPast
    <3>4. SaveExcused(s)'
      <4> SUFFICES ASSUME ~raced, NEW m \in stored PROVE Excused(m, Reached(s))'
        BY <1>a, <2>1 DEF SaveExcused
      <4>1. Excused(m, position)  BY <1>l DEF RowsExcused
      <4>2. Reached(s)' = position  BY <3>2 DEF Reached
      <4> QED  BY <1>g, <2>1, <4>1, <4>2 DEF Excused, Agrees, Ahead, Before
    <3> QED  BY <1>a, <1>m, <2>1, <3>3, <3>4, SameRows
  <2> QED  BY <2>2, <2>3
<1>2. CASE ListHistory(s)
  <2>1. UNCHANGED <<stored, labelled, position, began>> /\ sync[s].at = "history"
    BY <1>2 DEF ListHistory, account, ghosts
  <2>2. PICK n \in Nat, at \in {"apply", "page"} :
          /\ n <= Len(history) /\ (sync[s].from <= Len(history) => sync[s].from <= n)
          /\ sync' = [sync EXCEPT ![s] = [sync[s] EXCEPT !.at = at, !.to = n]]
    BY <1>2, PageListed
  <2>3. /\ sync'[s].at = at /\ sync'[s].todo = {} /\ sync'[s].headers = {}
        /\ sync'[s].from = sync[s].from /\ sync'[s].to = n
    <3>1. sync'[s] = [sync[s] EXCEPT !.at = at, !.to = n]
      BY <1>t, <2>2
    <3> QED  BY <1>h, <1>t, <3>1 DEF SyncStates
  <2>4. InHand(s)' /\ InPlace(s)' /\ HeadersExcused(s)'
    BY <1>a, <1>g, <1>l, <1>t, <2>1, <2>2, <2>3 DEF InHand, InPlace, HeadersExcused
  <2>5. SaveExcused(s)'
    <3> SUFFICES ASSUME ~raced, NEW m \in stored PROVE Excused(m, Reached(s))'
      BY <1>a, <2>1 DEF SaveExcused
    <3>1. Reached(s) = sync[s].from /\ Reached(s)' = sync[s].from
      BY <2>1, <2>3 DEF Reached
    <3>2. Excused(m, sync[s].from)
      BY <1>l, <2>1, <3>1 DEF SaveExcused, Paging
    <3> QED  BY <1>g, <2>1, <3>1, <3>2 DEF Excused, Agrees, Ahead, Before
  <2> QED  BY <1>a, <1>m, <2>1, <2>4, <2>5, SameRows
<1>3. CASE ResetPosition(s)
  <2>1. UNCHANGED <<stored, labelled, position>> /\ began' = Len(history)
    BY <1>3 DEF ResetPosition, account
  <2>2. sync'[s] = [sync[s] EXCEPT !.at = "save", !.to = Len(history)]
    BY <1>3, <1>t DEF ResetPosition
  <2>3. /\ sync'[s].at = "save" /\ sync'[s].todo = {} /\ sync'[s].headers = {}
        /\ sync'[s].to = Len(history)
    BY <1>h, <1>t, <2>2 DEF SyncStates
  <2>4. InHand(s)' /\ InPlace(s)' /\ HeadersExcused(s)'
    BY <1>g, <1>t, <2>3 DEF InHand, InPlace, HeadersExcused
  <2>5. ASSUME ~raced, NEW m \in stored
        PROVE  Excused(m, position)' /\ Excused(m, Reached(s))'
    <3>1. Excused(m, position)  BY <1>l, <2>5 DEF RowsExcused
    <3>2. /\ Ahead(m, position)' <=> Ahead(m, position)
          /\ Agrees(m)' <=> Agrees(m)
      BY <1>g, <2>1 DEF Ahead, Agrees
    <3>3. Before(m) \/ Ahead(m, position) => Before(m)'
      BY <1>g, <1>l, <1>t, <2>1 DEF Ahead, Before, PositionsPast
    <3> QED  BY <3>1, <3>2, <3>3 DEF Excused
  <2>6. RowsExcused' /\ SaveExcused(s)'
    BY <1>a, <2>1, <2>5 DEF RowsExcused, SaveExcused
  <2> QED  BY <1>a, <1>g, <1>l, <1>m, <1>t, <2>1, <2>4, <2>6, LabelFrame DEF PositionsPast
<1>4. CASE SavePosition(s)
  <2>1. /\ UNCHANGED <<stored, labelled, began>> /\ position' = sync[s].to
        /\ sync[s].at = "save"
    BY <1>4 DEF SavePosition, ghosts
  <2>2. sync'[s] = At("backfill")
    BY <1>4, <1>t DEF SavePosition
  <2>3. sync'[s].at = "backfill" /\ sync'[s].todo = {} /\ sync'[s].headers = {}
    BY <2>2 DEF At
  <2>4. InHand(s)' /\ InPlace(s)' /\ HeadersExcused(s)' /\ SaveExcused(s)'
    BY <2>3 DEF InHand, InPlace, HeadersExcused, SaveExcused, Paging
  <2>5. RowsExcused'
    <3> SUFFICES ASSUME ~raced, NEW m \in stored PROVE Excused(m, position)'
      BY <1>a, <2>1 DEF RowsExcused
    <3>1. Excused(m, sync[s].to)  BY <1>l, <2>1 DEF SaveExcused, Reached, Paging
    <3> QED  BY <1>g, <2>1, <3>1 DEF Excused, Agrees, Ahead, Before
  <2>6. position' <= Len(history)
    BY <1>l, <2>1 DEF InPlace
  <2> QED  BY <1>a, <1>g, <1>l, <1>m, <2>1, <2>4, <2>5, <2>6, LabelFrame DEF PositionsPast
<1> QED  BY <1>1, <1>2, <1>3, <1>4

\* The page of older mail, and what ends a sync early.
LEMMA EndLabels ==
    ASSUME TypeInv, LabelInv, NEW s \in Syncs,
           ListOlder(s) \/ EndBackfill(s) \/ PositionExpired(s) \/ Abandon(s) \/ HistoryFails(s)
    PROVE  LabelInv'
<1>m. SyncMoves(s)  BY LabelMoves, FaultMoves DEF SyncFault
<1>t. sync \in [Syncs -> SyncStates] /\ sync[s] \in SyncStates
  BY SyncFacts
<1>g. arrived' = arrived /\ inbox' = inbox /\ history' = history
  BY <1>m DEF SyncMoves, gmail
<1>l. InHand(s) /\ Alone
  BY DEF LabelInv
<1>a. ~raced' => ~raced /\ \A t \in Syncs \ {s} : sync[t].at = "idle"
  BY <1>l, Working DEF SyncStep, SyncFault, Alone
<1>u. UNCHANGED <<stored, labelled, position, began>>
  BY DEF ListOlder, EndBackfill, PositionExpired, Abandon, HistoryFails, account, ghosts
<1>1. CASE \E stage \in {"idle", "reset", "backfill"} : sync'[s] = At(stage)
  <2>1. /\ sync'[s].at \in {"idle", "reset", "backfill"}
        /\ sync'[s].todo = {} /\ sync'[s].headers = {}
    BY <1>1 DEF At
  <2> QED  BY <1>a, <1>m, <1>u, <2>1, EmptyHanded DEF Paging
<1>2. ASSUME NEW T \in SUBSET Messages, \A m \in T : Came(m), sync[s].at = "backfill",
             sync'[s] = [sync[s] EXCEPT !.at = "older", !.todo = T]
      PROVE  LabelInv'
  <2>1. sync'[s].at = "older" /\ sync'[s].todo = T /\ sync'[s].headers = {}
    BY <1>2, <1>l, <1>t DEF InHand, SyncStates
  <2>2. InHand(s)' /\ InPlace(s)' /\ HeadersExcused(s)'
    BY <1>2, <1>g, <2>1 DEF InHand, InPlace, HeadersExcused, Came
  <2> QED  BY <1>a, <1>m, <1>u, <2>1, <2>2, SameRows DEF Paging
<1>3. CASE ListOlder(s)
  <2>1. Older \subseteq Messages /\ \A m \in Older : Came(m)
    BY DEF Older
  <2>2. /\ sync[s].at = "backfill"
        /\ \/ sync' = [sync EXCEPT ![s] = Idle]
           \/ \E page \in SUBSET Older :
                sync' = [sync EXCEPT ![s] = [sync[s] EXCEPT !.at = "older", !.todo = page]]
    BY <1>3 DEF ListOlder
  <2>3. \/ sync'[s] = At("idle")
        \/ \E page \in SUBSET Older :
             sync'[s] = [sync[s] EXCEPT !.at = "older", !.todo = page]
    BY <1>t, <2>2 DEF Idle
  <2>4. CASE sync'[s] = At("idle")
    BY <1>1, <2>4
  <2>5. ASSUME NEW page \in SUBSET Older,
               sync'[s] = [sync[s] EXCEPT !.at = "older", !.todo = page]
        PROVE  LabelInv'
    BY <1>2, <2>1, <2>2, <2>5
  <2> QED  BY <2>3, <2>4, <2>5
<1>4. CASE EndBackfill(s) \/ PositionExpired(s) \/ Abandon(s) \/ HistoryFails(s)
  BY <1>1, <1>4, <1>t DEF EndBackfill, PositionExpired, Abandon, HistoryFails, Idle
<1> QED  BY <1>3, <1>4

LEMMA BodyLabels ==
    ASSUME LabelInv, NEW m \in Messages,
           \/ WorkerStep(m) \/ ReaderStep(m)
           \/ \E p \in {"worker", "reader"} : BodyErrs(p, m) \/ FetchFails(p, m)
    PROVE  LabelInv'
<1>1. UNCHANGED <<arrived, inbox, history, stored, labelled, position, sync, raced, began>>
  BY DEF WorkerStep, ReaderStep, Take, FetchBody, BodyErrs, UpdateBody, SaveAttachments,
         MarkChecked, FetchFails, gmail, account, ghosts
<1> QED  BY <1>1 DEF LabelInv, HistoryTells, LastChange, Came, Alone, PositionsPast,
                     RowsExcused, InHand, InPlace, HeadersExcused, SaveExcused, Reached, Excused,
                     Agrees, Ahead, Before

LEMMA LabelStep == TypeInv /\ LabelInv /\ [Next]_vars => LabelInv'
<1> SUFFICES ASSUME TypeInv, LabelInv, [Next]_vars PROVE LabelInv'  OBVIOUS
<1>1. CASE UNCHANGED vars
  BY <1>1 DEF vars, gmail, account, ghosts, LabelInv, HistoryTells, LastChange, Came, Alone,
              PositionsPast, RowsExcused, InHand, InPlace, HeadersExcused, SaveExcused, Reached,
              Excused, Agrees, Ahead, Before
<1>2. CASE Tick \/ \E m \in Messages : Arrive(m) \/ Relabel(m)
  BY <1>2, GmailLabels
<1>3. ASSUME NEW s \in Syncs, Start(s) \/ SyncStep(s) \/ SyncFault(s) PROVE LabelInv'
  BY <1>3, FetchLabels, StoreLabels, ApplyLabels, PositionLabels, EndLabels
     DEF SyncStep, SyncFault
<1>4. ASSUME NEW m \in Messages,
             \/ WorkerStep(m) \/ ReaderStep(m)
             \/ \E p \in {"worker", "reader"} : BodyErrs(p, m) \/ FetchFails(p, m)
      PROVE LabelInv'
  BY <1>4, BodyLabels
<1> QED  BY <1>1, <1>2, <1>3, <1>4 DEF Next

-----------------------------------------------------------------------------
(* Theorems *)

Inv == TypeInv /\ WindowInv /\ CheckedInv /\ LabelInv

\* The inductive invariant: types, a row behind every fetch, what a message without a
\* row can count on, and how far a fetch has come.
THEOREM Invariance == Spec => []Inv
<1>1. Init => Inv
  BY InitType, InitWindow, InitChecked, InitLabels DEF Inv
<1>2. Inv /\ [Next]_vars => Inv'
  BY TypeStep, WindowStep, CheckedStep, LabelStep DEF Inv
<1> QED  BY <1>1, <1>2, PTL DEF Spec

\* Rows, marks and a sync's local data keep their types: labels, marks and
\* attachments belong to rows that exist.
THEOREM TypeCorrect == Spec => []TypeOK
<1>1. Inv => TypeOK  BY DEF Inv, TypeInv
<1> QED  BY <1>1, Invariance, PTL

\* fetch_ids and the stamp of sync_account: however many syncs overlap, fail or
\* die, last_sync leaves no message behind that Gmail has answered for.
THEOREM NoMessageSkipped == Spec => []NothingSkipped
<1>1. Inv => NothingSkipped
  BY DEF Inv, WindowInv, InWindow, NothingSkipped
<1> QED  BY <1>1, Invariance, PTL

\* The worker and get_email_body, on one message at the same time and with any faults: a
\* row that is marked and lacks its text or its attachments was answered with an error,
\* failed to be saved, or is between the two statements of get_email_body.
THEOREM CheckedRowsSaved == Spec => []UnsavedIsExcused
<1>1. Inv => UnsavedIsExcused  BY DEF Inv, CheckedInv
<1> QED  BY <1>1, Invariance, PTL

\* process_batch, sync_label_changes and the position it keeps: as long as no two syncs
\* have been at work at a time, the rows carry Gmail's labels at rest, but for changes
\* the position still has before it and those from before a reset.
THEOREM LabelsFollow == Spec => []LabelsAgree
<1>1. Inv => LabelsAgree
  <2> SUFFICES ASSUME TypeInv, LabelInv, ~raced, NEW m \in stored
               PROVE  \/ m \in labelled <=> m \in inbox
                      \/ position = None
                      \/ \E k \in 1..Len(history) :
                           history[k].msg = m /\ (k > position \/ k <= began)
    BY DEF Inv, LabelsAgree
  <2>1. Excused(m, position)  BY DEF LabelInv, RowsExcused
  <2> QED  BY <2>1 DEF Excused, Agrees, Ahead, Before
<1> QED  BY <1>1, Invariance, PTL
=============================================================================
