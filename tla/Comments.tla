----------------------------- MODULE Comments -----------------------------
(***************************************************************************)
(* Comment threads on the documents of a project and on their events:      *)
(* app/comment_service.py, together with the members and the reviews.      *)
(***************************************************************************)
EXTENDS ReviewWorkflow

CONSTANTS
    MaxThreads,     \* bound on the threads, and the reviews they come after
    MaxComments     \* bound on the comments of a thread

VARIABLE threads    \* comment_threads with their comments, by number

teamVars == <<reviewVars, threads>>

TeamInit == ReviewInit /\ threads = << >>

\* An event is known by its document and version; threads on a document, or on a path
\* in it, have no event.
NoEvent == << >>
Events == { <<d, v>> : d \in Document, v \in 1..MaxVersion }
IsEvent(event) == event \in Events /\ event[2] <= Version(event[1])

\* A mutant: any event will do.
ValidAnchorOfAny(d, event) == event = NoEvent \/ IsEvent(event)

\* _validate_anchor
ValidAnchor(d, event) == event = NoEvent \/ (IsEvent(event) /\ event[1] = d)

\* create_comment_thread, with its first comment.
CreateCommentThread(actor, d, event) ==
    /\ ~Deleted(d)
    /\ MayDo(actor, "comment:write")
    /\ ValidAnchor(d, event)
    /\ Len(reviews) + Len(threads) < MaxThreads
    /\ threads' = Append(threads, [ document |-> d, event |-> event, status |-> "open",
                                    resolved_by |-> {}, comments |-> <<actor>> ])

\* add_comment: also to a resolved thread, and on a deleted document.
AddComment(actor, t) ==
    /\ MayDo(actor, "comment:write")
    /\ Len(threads[t].comments) < MaxComments
    /\ threads' = [threads EXCEPT ![t].comments = Append(@, actor)]

\* resolve_comment_thread
ResolveCommentThread(actor, t) ==
    /\ MayDo(actor, "comment:write")
    /\ threads' = [threads EXCEPT ![t].status = "resolved", ![t].resolved_by = {actor}]

\* reopen_comment_thread
ReopenCommentThread(actor, t) ==
    /\ MayDo(actor, "comment:write")
    /\ threads' = [threads EXCEPT ![t].status = "open", ![t].resolved_by = {}]

TeamNext ==
    \/ ReviewNext /\ UNCHANGED threads
    \/ /\ Len(audit) <= MaxAuditAtWork
       /\ \E actor \in Members :
            \/ \E d \in Document, event \in Events \cup {NoEvent} :
                    CreateCommentThread(actor, d, event)
            \/ \E t \in DOMAIN threads :
                    AddComment(actor, t) \/ ResolveCommentThread(actor, t)
                    \/ ReopenCommentThread(actor, t)
       /\ UNCHANGED reviewVars

TeamSpec == TeamInit /\ [][TeamNext]_teamVars

-----------------------------------------------------------------------------
\* A thread on an event is listed with the document that has the event: the two
\* references of its row never come to name different documents, nor does the event
\* go away.
AnchorsBelong ==
    \A t \in DOMAIN threads :
        threads[t].event # NoEvent =>
            IsEvent(threads[t].event) /\ threads[t].event[1] = threads[t].document
=============================================================================
