----------------------------- MODULE MCMailbox -----------------------------
EXTENDS Mailbox, TLC

\* Two syncs are alike, and so are two messages.
Alike == Permutations(Syncs) \cup Permutations(Messages)

\* A bound.  Syncs and the fetching of bodies write disjoint columns and share
\* only the rows, which do not go away, so that they commute: bodies are fetched
\* in the states a first sync leaves, and nothing follows them.
Untouched == \A p \in DOMAIN fetching, m \in Messages :
                fetching[p][m] = NoFetch /\ body[m] = "none"
BodiesLast ==
    /\ fetching' # fetching =>
          /\ now = 0 /\ history = <<>> /\ lastSync = 0
          /\ \A s \in Syncs : sync[s].at = "idle"
    /\ <<gmail, stored, sync>>' # <<gmail, stored, sync>> => Untouched

\* A bound.  Once two syncs have been at work at a time, no property but TypeOK looks
\* at labels, and nothing else in a sync depends on them.
RacesUnlabelled == raced => history = <<>>
=============================================================================
