------------------------------ MODULE Mailbox ------------------------------
(***************************************************************************)
(* One Gmail account that is kept in step with Gmail (email/sync.rs,       *)
(* label_history.rs) and whose bodies and attachments are fetched later    *)
(* (body_worker.rs, body_handlers.rs).                                     *)
(*                                                                         *)
(* A sync is started by the worker's tick, by /email/wake or by a push,    *)
(* and nothing keeps two of them apart.  It asks Gmail for the messages    *)
(* since last_sync, less an hour, upserts their headers batch by batch,    *)
(* moves last_sync to the present, replays the label changes after         *)
(* label_history_id page by page, and fetches a page of mail older than    *)
(* the oldest stored.  One action per request to Gmail or statement.  A    *)
(* message has one label, INBOX, and one attachment.                       *)
(***************************************************************************)
EXTENDS Naturals, Sequences, FiniteSets, FiniteSetsExt

CONSTANTS
    Messages,
    Syncs,         \* the syncs that may run at a time
    None,
    Overlap,       \* the hour fetch_ids goes back behind last_sync
    MaxTime, MaxChanges, MaxFaults     \* bounds

ASSUME OverlapAssumption == Overlap \in Nat \ {0}
ASSUME BoundsAssumption == {MaxTime, MaxChanges, MaxFaults} \subseteq Nat
ASSUME NoneAssumption == None \notin Nat

VARIABLES
    now,
    arrived,     \* Gmail: when a message came, or None
    inbox,       \* Gmail: the messages labelled INBOX
    history,     \* Gmail: the label changes, oldest first: [msg, added]
    stored,      \* emails: the messages that have a row
    labelled,    \* emails: the rows labelled INBOX
    body,        \* emails.body_encrypted: "none", "text", or "blank"
    checked,     \* emails: the rows with attachments_checked
    attached,    \* email_attachments: the messages whose attachments are there
    lastSync, position,     \* email_accounts: last_sync, label_history_id
    sync,        \* what a sync is at
    fetching,    \* what the body worker and get_email_body are at, per message
    lost,        \* ghost: messages Gmail was asked for and did not give
    raced,       \* ghost: two syncs have been at work at a time
    began,       \* ghost: the changes made before the position was last reset
    botched,     \* ghost: messages an attachment of which could not be saved, or
                 \* that were taken from an answer of Gmail's that was an error
    faults

gmail == <<now, arrived, inbox, history>>
bodies == <<body, checked, attached, fetching>>
account == <<lastSync, position>>
ghosts == <<lost, raced, began, botched, faults>>
vars == <<gmail, stored, labelled, bodies, account, sync, ghosts>>

\* since: last_sync as the sync has read it, then when it asked Gmail.
At(stage) == [at |-> stage, since |-> 0, todo |-> {}, headers |-> {},
              from |-> 0, to |-> 0]
Idle == At("idle")
NoFetch == [at |-> "none", given |-> FALSE]

Came(m) == arrived[m] # None
Fault == faults < MaxFaults /\ faults' = faults + 1

-----------------------------------------------------------------------------
(* Gmail and its user *)

Arrive(m) ==
    /\ ~Came(m)
    /\ arrived' = [arrived EXCEPT ![m] = now]
    /\ inbox' = inbox \cup {m}
    /\ UNCHANGED <<now, history, stored, labelled, bodies, account, sync, ghosts>>

\* The user archives a message in Gmail, or moves it back.
Relabel(m) ==
    /\ Came(m) /\ Len(history) < MaxChanges
    /\ inbox' = IF m \in inbox THEN inbox \ {m} ELSE inbox \cup {m}
    /\ history' = Append(history, [msg |-> m, added |-> m \notin inbox])
    /\ UNCHANGED <<now, arrived, stored, labelled, bodies, account, sync, ghosts>>

\* A pass over new mail takes less than the overlap.
Tick ==
    /\ now < MaxTime /\ now' = now + 1
    /\ \A s \in Syncs : sync[s].at = "headers" => now < sync[s].since + Overlap
    /\ UNCHANGED <<arrived, inbox, history, stored, labelled, bodies, account,
                   sync, ghosts>>

-----------------------------------------------------------------------------
(* sync_account: new mail *)

\* The account is loaded and its token refreshed.
Start(s) ==
    /\ sync[s].at = "idle"
    /\ sync' = [sync EXCEPT ![s].at = "list", ![s].since = lastSync]
    /\ raced' = (raced \/ \E t \in Syncs \ {s} : sync[t].at # "idle")
    /\ UNCHANGED <<gmail, stored, labelled, bodies, account, lost, began,
                   botched, faults>>

\* Seeded fault: the query starts at last_sync itself.
AskedBySince(s) == {m \in Messages : Came(m) /\ arrived[m] >= sync[s].since}

\* fetch_ids: "after:" last_sync - 3600.
AskedBy(s) == {m \in Messages : Came(m) /\ arrived[m] + Overlap >= sync[s].since}

\* The pages of the list, newest first: what is there when the first is asked for.
ListIds(s) ==
    /\ sync[s].at = "list"
    /\ sync' = [sync EXCEPT ![s] = [At("headers") EXCEPT !.since = now,
                                                          !.todo = AskedBy(s)]]
    /\ UNCHANGED <<gmail, stored, labelled, bodies, account, ghosts>>

\* fetch_headers_only, one of up to 20 at a time.
FetchHeader(s, m) ==
    /\ m \in sync[s].todo
    /\ sync' = [sync EXCEPT ![s].todo = @ \ {m},
                  ![s].headers = @ \cup {[msg |-> m, inbox |-> m \in inbox]}]
    /\ UNCHANGED <<gmail, stored, labelled, bodies, account, ghosts>>

\* An answer that is an error: a page is read as the last one, and empty; a
\* header is dropped from its batch.
GmailErrs(s) ==
    /\ Fault
    /\ \/ /\ sync[s].at = "list"
          /\ \E listed \in SUBSET AskedBy(s) :
               /\ lost' = lost \cup (AskedBy(s) \ listed)
               /\ sync' = [sync EXCEPT ![s] = [At("headers") EXCEPT !.since = now,
                                                                     !.todo = listed]]
       \/ \E m \in sync[s].todo :
            /\ lost' = lost \cup {m}
            /\ sync' = [sync EXCEPT ![s].todo = @ \ {m}]
    /\ UNCHANGED <<gmail, stored, labelled, bodies, account, raced, began, botched>>

\* process_batch: one upsert of some of the headers that have come, while the others
\* are still fetched; it overwrites the labels of a row that exists and leaves its
\* body alone.
Store(s) ==
    /\ \E batch \in SUBSET sync[s].headers :
         /\ batch # {}
         /\ stored' = stored \cup {h.msg : h \in batch}
         /\ labelled' = (labelled \ {h.msg : h \in batch})
                          \cup {h.msg : h \in {g \in batch : g.inbox}}
         /\ sync' = [sync EXCEPT ![s].headers = @ \ batch]
    /\ UNCHANGED <<gmail, bodies, account, ghosts>>

AllStored(s) == sync[s].todo = {} /\ sync[s].headers = {}

Stamp(s) ==
    /\ sync[s].at = "headers" /\ AllStored(s)
    /\ lastSync' = now
    /\ sync' = [sync EXCEPT ![s] = At("position")]
    /\ UNCHANGED <<gmail, stored, labelled, bodies, position, ghosts>>

-----------------------------------------------------------------------------
(* sync_label_changes *)

ReadPosition(s) ==
    /\ sync[s].at = "position"
    /\ sync' = IF position = None THEN [sync EXCEPT ![s] = At("reset")]
               ELSE [sync EXCEPT ![s].at = "history", ![s].from = position]
    /\ UNCHANGED <<gmail, stored, labelled, bodies, account, ghosts>>

\* A page of history.list: the changes after `from`, up to the present if it is
\* the last page.
ListHistory(s) ==
    /\ sync[s].at = "history"
    /\ \E to \in (sync[s].from + 1 .. Len(history)) \cup {Len(history)} :
         sync' = [sync EXCEPT ![s].at = IF to = Len(history) THEN "apply" ELSE "page",
                              ![s].to = to]
    /\ UNCHANGED <<gmail, stored, labelled, bodies, account, ghosts>>

\* 404: the position is too old for Gmail to answer.
PositionExpired(s) ==
    /\ Fault
    /\ sync[s].at = "history"
    /\ sync' = [sync EXCEPT ![s] = At("reset")]
    /\ UNCHANGED <<gmail, stored, labelled, bodies, account, lost, raced,
                   began, botched>>

\* current_history_id
ResetPosition(s) ==
    /\ sync[s].at = "reset"
    /\ sync' = [sync EXCEPT ![s].at = "save", ![s].to = Len(history)]
    /\ began' = Len(history)
    /\ UNCHANGED <<gmail, stored, labelled, bodies, account, lost, raced,
                   botched, faults>>

\* The last change that sync s makes to message m, if any.
Changes(s, m) == {k \in sync[s].from + 1 .. sync[s].to : history[k].msg = m}

\* The next page, or the position to save.
AfterPage(s) ==
    IF sync[s].at = "page" THEN [At("history") EXCEPT !.from = sync[s].to]
    ELSE [At("save") EXCEPT !.to = sync[s].to]

\* Seeded fault: a change to a message that has no row is applied too.
ApplyToAll(s) ==
    /\ sync[s].at \in {"page", "apply"}
    /\ labelled' = {m \in stored \cup {history[k].msg : k \in 1..sync[s].to} :
                      IF Changes(s, m) = {} THEN m \in labelled
                      ELSE history[Max(Changes(s, m))].added}
    /\ sync' = [sync EXCEPT ![s] = AfterPage(s)]
    /\ UNCHANGED <<gmail, stored, bodies, account, ghosts>>

\* The changes of one page, in a transaction of its own.
Apply(s) ==
    /\ sync[s].at \in {"page", "apply"}
    /\ labelled' = {m \in stored :
                      IF Changes(s, m) = {} THEN m \in labelled
                      ELSE history[Max(Changes(s, m))].added}
    /\ sync' = [sync EXCEPT ![s] = AfterPage(s)]
    /\ UNCHANGED <<gmail, stored, bodies, account, ghosts>>

\* Seeded fault: the position moves to where Gmail's history stands by now.
SavePositionNow(s) ==
    /\ sync[s].at = "save"
    /\ position' = Len(history)
    /\ sync' = [sync EXCEPT ![s] = At("backfill")]
    /\ UNCHANGED <<gmail, stored, labelled, bodies, lastSync, ghosts>>

SavePosition(s) ==
    /\ sync[s].at = "save"
    /\ position' = sync[s].to
    /\ sync' = [sync EXCEPT ![s] = At("backfill")]
    /\ UNCHANGED <<gmail, stored, labelled, bodies, lastSync, ghosts>>

-----------------------------------------------------------------------------
(* backfill_older, and what ends a sync early *)

Older == {m \in Messages : Came(m) /\ \A n \in stored : arrived[m] < arrived[n]}

\* One page of what is older than the oldest row, the newest of it; without a row,
\* nothing, and a sync started by a push stops here.
ListOlder(s) ==
    /\ sync[s].at = "backfill"
    /\ \/ sync' = [sync EXCEPT ![s] = Idle]
       \/ /\ stored # {}
          /\ \E page \in SUBSET Older :
               /\ \A m \in page, n \in Older \ page : arrived[n] <= arrived[m]
               /\ sync' = [sync EXCEPT ![s].at = "older", ![s].todo = page]
    /\ UNCHANGED <<gmail, stored, labelled, bodies, account, ghosts>>

EndBackfill(s) ==
    /\ sync[s].at = "older" /\ AllStored(s)
    /\ sync' = [sync EXCEPT ![s] = Idle]
    /\ UNCHANGED <<gmail, stored, labelled, bodies, account, ghosts>>

\* A step fails, or the process dies: what is left of the sync is not done.
Abandon(s) ==
    /\ Fault
    /\ sync[s].at # "idle"
    /\ sync' = [sync EXCEPT ![s] = Idle]
    /\ UNCHANGED <<gmail, stored, labelled, bodies, account, lost, raced,
                   began, botched>>

\* A failure in the label changes costs only them.
HistoryFails(s) ==
    /\ Fault
    /\ sync[s].at \in {"position", "history", "page", "reset",
                       "apply", "save"}
    /\ sync' = [sync EXCEPT ![s] = At("backfill")]
    /\ UNCHANGED <<gmail, stored, labelled, bodies, account, lost, raced,
                   began, botched>>

-----------------------------------------------------------------------------
(* Bodies: p is the worker, or the reader in get_email_body *)

\* The claim of process_account: a row without a body or not looked at.
Pending(m) == m \in stored /\ (body[m] = "none" \/ m \notin checked)

\* The worker takes pending rows; opening a message fetches it too, unless it
\* has what it needs, and always with ?live=true.
Take(p, m) ==
    /\ fetching[p][m].at = "none"
    /\ m \in stored /\ (p = "worker" => Pending(m))
    /\ fetching' = [fetching EXCEPT ![p][m].at = "taken"]
    /\ UNCHANGED <<gmail, stored, labelled, body, checked, attached, account,
                   sync, ghosts>>

\* messages.get with format=full
FetchBody(p, m) ==
    /\ fetching[p][m].at = "taken"
    /\ fetching' = [fetching EXCEPT ![p][m] = [at |-> "fetched", given |-> TRUE]]
    /\ UNCHANGED <<gmail, stored, labelled, body, checked, attached, account,
                   sync, ghosts>>

\* Nobody looks at the status: an error object is a message without a body and
\* without attachments.
BodyErrs(p, m) ==
    /\ Fault
    /\ fetching[p][m].at = "taken"
    /\ fetching' = [fetching EXCEPT ![p][m] = [at |-> "fetched", given |-> FALSE]]
    /\ botched' = botched \cup {m}
    /\ UNCHANGED <<gmail, stored, labelled, body, checked, attached, account,
                   sync, lost, raced, began>>

\* Seeded fault: the worker's UPDATE stamps attachments_checked too.
UpdateBodyStamps(p, m) ==
    /\ fetching[p][m].at = "fetched"
    /\ body' = [body EXCEPT ![m] = IF fetching[p][m].given THEN "text" ELSE "blank"]
    /\ checked' = checked \cup {m}
    /\ fetching' = [fetching EXCEPT ![p][m].at = "updated"]
    /\ UNCHANGED <<gmail, stored, labelled, attached, account, sync, ghosts>>

\* The UPDATE of the row; the reader's sets attachments_checked as well.
UpdateBody(p, m) ==
    /\ fetching[p][m].at = "fetched"
    /\ body' = [body EXCEPT ![m] = IF fetching[p][m].given THEN "text" ELSE "blank"]
    /\ checked' = IF p = "reader" THEN checked \cup {m} ELSE checked
    /\ fetching' = [fetching EXCEPT ![p][m].at = "updated"]
    /\ UNCHANGED <<gmail, stored, labelled, attached, account, sync, ghosts>>

\* save_email_attachments, the last step of the reader.
SaveAttachments(p, m) ==
    /\ fetching[p][m].at = "updated"
    /\ attached' = IF fetching[p][m].given THEN attached \cup {m} ELSE attached
    /\ fetching' = [fetching EXCEPT ![p][m] = IF p = "reader" THEN NoFetch
                                              ELSE [@ EXCEPT !.at = "saved"]]
    /\ UNCHANGED <<gmail, stored, labelled, body, checked, account, sync, ghosts>>

MarkChecked(m) ==
    /\ fetching["worker"][m].at = "saved"
    /\ checked' = checked \cup {m}
    /\ fetching' = [fetching EXCEPT !["worker"][m] = NoFetch]
    /\ UNCHANGED <<gmail, stored, labelled, body, attached, account, sync, ghosts>>

\* A step fails and ends it, or the process dies; a failed UPDATE of the reader
\* and a failed INSERT of an attachment are only logged.  The reader has then
\* marked the row, the worker is about to.
FetchFails(p, m) ==
    /\ Fault
    /\ \/ /\ fetching[p][m].at # "none"
          /\ fetching' = [fetching EXCEPT ![p][m] = NoFetch]
          /\ botched' = IF p = "reader" /\ fetching[p][m].at = "updated"
                        THEN botched \cup {m} ELSE botched
       \/ /\ p = "reader" /\ fetching[p][m].at = "fetched"
          /\ fetching' = [fetching EXCEPT ![p][m].at = "updated"]
          /\ UNCHANGED botched
       \/ /\ p = "worker" /\ fetching[p][m].at = "updated"
          /\ fetching' = [fetching EXCEPT ![p][m].at = "saved"]
          /\ botched' = botched \cup {m}
    /\ UNCHANGED <<gmail, stored, labelled, body, checked, attached, account,
                   sync, lost, raced, began>>

-----------------------------------------------------------------------------

\* An account just connected: last_sync is seeded with the present, mail that is
\* older is left out.
Init ==
    /\ now = 0 /\ arrived = [m \in Messages |-> None]
    /\ inbox = {} /\ history = <<>>
    /\ stored = {} /\ labelled = {}
    /\ body = [m \in Messages |-> "none"] /\ checked = {} /\ attached = {}
    /\ lastSync = 0 /\ position = None
    /\ sync = [s \in Syncs |-> Idle]
    /\ fetching = [p \in {"worker", "reader"} |-> [m \in Messages |-> NoFetch]]
    /\ lost = {} /\ raced = FALSE /\ began = 0 /\ botched = {} /\ faults = 0

SyncStep(s) ==
    \/ ListIds(s) \/ Store(s) \/ Stamp(s)
    \/ \E m \in Messages : FetchHeader(s, m)
    \/ ReadPosition(s) \/ ListHistory(s) \/ ResetPosition(s) \/ Apply(s)
    \/ SavePosition(s) \/ ListOlder(s) \/ EndBackfill(s)

SyncFault(s) == GmailErrs(s) \/ PositionExpired(s) \/ Abandon(s) \/ HistoryFails(s)

WorkerStep(m) ==
    \/ Take("worker", m) \/ FetchBody("worker", m) \/ UpdateBody("worker", m)
    \/ SaveAttachments("worker", m) \/ MarkChecked(m)

ReaderStep(m) ==
    \/ Take("reader", m) \/ FetchBody("reader", m) \/ UpdateBody("reader", m)
    \/ SaveAttachments("reader", m)

Next ==
    \/ Tick
    \/ \E s \in Syncs : Start(s) \/ SyncStep(s) \/ SyncFault(s)
    \/ \E m \in Messages : Arrive(m) \/ Relabel(m) \/ WorkerStep(m) \/ ReaderStep(m)
    \/ \E m \in Messages, p \in {"worker", "reader"} : BodyErrs(p, m) \/ FetchFails(p, m)

Spec == Init /\ [][Next]_vars

-----------------------------------------------------------------------------
(* Properties *)

Stages == {"idle", "list", "headers", "position", "history", "page", "reset",
           "apply", "save", "backfill", "older"}

TypeOK ==
    /\ now \in Nat /\ arrived \in [Messages -> Nat \cup {None}]
    /\ inbox \subseteq Messages
    /\ history \in Seq([msg : Messages, added : BOOLEAN])
    /\ labelled \subseteq stored /\ stored \subseteq Messages
    /\ body \in [Messages -> {"none", "text", "blank"}]
    /\ checked \subseteq stored /\ attached \subseteq stored
    /\ lastSync \in Nat /\ position \in Nat \cup {None}
    /\ sync \in [Syncs -> [at : Stages, since : Nat,
                           todo : SUBSET Messages,
                           headers : SUBSET [msg : Messages, inbox : BOOLEAN],
                           from : Nat, to : Nat]]
    /\ fetching \in [{"worker", "reader"} -> [Messages ->
          [at : {"none", "taken", "fetched", "updated", "saved"}, given : BOOLEAN]]]
    /\ lost \subseteq Messages /\ raced \in BOOLEAN
    /\ botched \subseteq Messages /\ began \in Nat /\ faults \in Nat

\* A message that has no row is still in the window the next sync asks for,
\* however the syncs overlap and whichever of them die: last_sync never moves
\* past it.  Gmail has answered every request about it.
NothingSkipped ==
    \A m \in Messages \ (stored \cup lost) :
        Came(m) => arrived[m] + Overlap >= lastSync

\* When no sync is under way, the label of a row is Gmail's, but for changes that
\* lie ahead of the position and changes made before it was reset.  Two syncs
\* have never run at a time.
LabelsAgree ==
    ~raced /\ (\A s \in Syncs : sync[s].at = "idle") =>
        \A m \in stored :
            \/ m \in labelled <=> m \in inbox
            \/ position = None
            \/ \E k \in 1..Len(history) : history[k].msg = m /\ (k > position \/ k <= began)

\* body_worker.rs:202-203 and 262-265 say that the mark is set only after a successful
\* save; get_email_body sets it before, and save_email_attachments only logs what
\* fails.  What is left of the promise, whatever the worker and the readers of a
\* message do to each other and wherever they die: a marked row lacks its text or its
\* attachments only if Gmail's answer was an error, a save failed, or a reader died
\* or is between its two statements.
UnsavedIsExcused ==
    \A m \in checked :
        /\ body[m] # "none"
        /\ body[m] = "text" \/ m \in botched
        /\ m \in attached \cup botched \/ fetching["reader"][m].at = "updated"
=============================================================================
