--------------------------- MODULE VersionHistory ---------------------------
(***************************************************************************)
(* What the document store promises to those who read it, however it       *)
(* stores documents: each has a history of numbered versions that only     *)
(* grows, one version at a time.  A version is the content that readers    *)
(* get for its number and the kind of change that made it; the last one is *)
(* what the document is now.                                               *)
(***************************************************************************)
EXTENDS Naturals, Sequences

CONSTANTS DocumentId, Content, None

VARIABLES
    history,    \* of every document, its versions
    latest,     \* the content it has now, None before it is created
    deleted     \* it is not to be seen

vars == <<history, latest, deleted>>

Init ==
    /\ history = [d \in DocumentId |-> << >>]
    /\ latest = [d \in DocumentId |-> None]
    /\ deleted = [d \in DocumentId |-> FALSE]

Exists(d) == latest[d] # None
Active(d) == Exists(d) /\ ~deleted[d]

\* A document gets a version with this content, and nothing else changes.
NewVersion(d, type, content) ==
    /\ latest' = [latest EXCEPT ![d] = content]
    /\ history' = [history EXCEPT ![d] = Append(@, [type |-> type, content |-> content])]

Create(d, content) ==
    /\ ~Exists(d)
    /\ UNCHANGED deleted
    /\ NewVersion(d, "create", content)

\* Nobody updates a deleted document, and no update leaves the content as it is.
Update(d, content) ==
    /\ Active(d)
    /\ content # latest[d]
    /\ UNCHANGED deleted
    /\ NewVersion(d, "update", content)

\* Rolling back adds a version with the content of an earlier one.
Rollback(d, target) ==
    /\ Active(d)
    /\ target + 1 \in DOMAIN history[d]
    /\ UNCHANGED deleted
    /\ NewVersion(d, "rollback", history[d][target].content)

\* Deleting and restoring are versions too; the content stays.
Delete(d) ==
    /\ Active(d)
    /\ deleted' = [deleted EXCEPT ![d] = TRUE]
    /\ NewVersion(d, "delete", latest[d])

Restore(d) ==
    /\ Exists(d) /\ deleted[d]
    /\ deleted' = [deleted EXCEPT ![d] = FALSE]
    /\ NewVersion(d, "restore", latest[d])

Next ==
    \E d \in DocumentId :
        \/ \E content \in Content : Create(d, content) \/ Update(d, content)
        \/ \E target \in DOMAIN history[d] : Rollback(d, target)
        \/ Delete(d)
        \/ Restore(d)

Spec == Init /\ [][Next]_vars
=============================================================================
