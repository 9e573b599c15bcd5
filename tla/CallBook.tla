------------------------------ MODULE CallBook ------------------------------
(***************************************************************************)
(* What the call relay promises, whatever its sockets, actors and locks    *)
(* do: at most one call per pair of users, which rings, may be answered    *)
(* once, and is resolved with one audit row that says what it came to.     *)
(* CallRelay implements this specification.                                *)
(***************************************************************************)
CONSTANTS
    Pairs,      \* pairs of users
    Clerks      \* those who may resolve a call and record it later

VARIABLES
    state,          \* the call of each pair
    due,            \* the audit rows each clerk has still to record
    rows            \* the audit rows the step just taken recorded

Outcomes == {"rejected", "completed", "missed"}

\* A call counts as completed only if it was answered, as missed only if not.
Fits(outcome, s) ==
    /\ outcome \in Outcomes
    /\ outcome = "completed" => s = "connected"
    /\ outcome = "missed" => s = "ringing"

Init ==
    /\ state = [p \in Pairs |-> "none"]
    /\ due = [c \in Clerks |-> {}] /\ rows = {}

\* A new call takes the place of the one there was.
Place(p) ==
    /\ state' = [state EXCEPT ![p] = "ringing"]
    /\ rows' = {} /\ UNCHANGED due

Answer(p) ==
    /\ state[p] = "ringing"
    /\ state' = [state EXCEPT ![p] = "connected"]
    /\ rows' = {} /\ UNCHANGED due

\* The calls that end in this step, with one fitting row each among the records.
Ended == {p \in Pairs : state'[p] # state[p]}
OneRowEach(records) ==
    /\ \A p \in Ended : state'[p] = "none"
    /\ {r.pair : r \in records} = Ended
    /\ \A r \in records : Fits(r.outcome, state[r.pair])
    /\ \A q, r \in records : q.pair = r.pair => q = r

\* A signal resolves a call and records it.
Resolve == OneRowEach(rows') /\ UNCHANGED due

\* A closing tab resolves all of its calls at once, and owes their rows.
Close(c) ==
    /\ due[c] = {} /\ OneRowEach(due'[c])
    /\ \A d \in Clerks \ {c} : due'[d] = due[d]
    /\ rows' = {}

Record(c) ==
    /\ \E r \in due[c] : due' = [due EXCEPT ![c] = @ \ {r}] /\ rows' = {r}
    /\ UNCHANGED state

Next ==
    \/ \E p \in Pairs : Place(p) \/ Answer(p)
    \/ Resolve
    \/ \E c \in Clerks : Close(c) \/ Record(c)

Spec == Init /\ [][Next]_<<state, due, rows>>
=============================================================================
