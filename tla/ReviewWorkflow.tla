-------------------------- MODULE ReviewWorkflow --------------------------
(***************************************************************************)
(* Review requests on the documents of a project, among members whose      *)
(* roles change: app/review_service.py. A document is the list of its      *)
(* events, each with the review it applies or none; its version is their   *)
(* number. What a version contains, and the writes that make it, are the   *)
(* subject of DocumentStore.                                               *)
(***************************************************************************)
EXTENDS Membership

CONSTANTS
    Document,
    MaxVersion,     \* bound on the versions of a document
    MaxReviews,     \* bound on the review requests
    MaxDecisions,   \* bound on the decisions on one review request
    MaxAuditAtWork  \* bound on the audit log while documents change and are reviewed

ASSUME ReviewAssumption ==
    MaxVersion \in Nat \ {0} /\ MaxReviews \in Nat /\ MaxDecisions \in Nat

VARIABLES
    events,         \* document_events: kind, and the review it applies or 0
    reviews         \* review_requests with their changes and decisions, by number

reviewVars == <<memberVars, events, reviews>>

\* Every document is at its first version, as create_document leaves it.
ReviewInit ==
    /\ MemberInit
    /\ events = [d \in Document |-> <<[kind |-> "created", review |-> 0]>>]
    /\ reviews = << >>

Version(d) == Len(events[d])

Deleted(d) == events[d][Version(d)].kind = "deleted"

-----------------------------------------------------------------------------
(* Writes to the documents other than reviews                              *)

WriteEvent(d, kind) ==
    /\ Version(d) < MaxVersion
    /\ events' = [events EXCEPT ![d] = Append(@, [kind |-> kind, review |-> 0])]
    /\ UNCHANGED <<memberVars, reviews>>

EditDocument(actor, d) ==
    MayDo(actor, "document:write") /\ ~Deleted(d) /\ WriteEvent(d, "patched")

DeleteDocument(actor, d) ==
    MayDo(actor, "document:delete") /\ ~Deleted(d) /\ WriteEvent(d, "deleted")

RestoreDocument(actor, d) ==
    MayDo(actor, "document:restore") /\ Deleted(d) /\ WriteEvent(d, "restored")

-----------------------------------------------------------------------------
(* Reviews                                                                 *)

NewReview(author, changes) ==
    [ author |-> author, status |-> "open", changes |-> changes,
      decisions |-> << >>, applied_by |-> {} ]

\* A change proposed for a document is a patch of its current version, which has been
\* checked against that version.
ProposedChanges ==
    { [d \in docs |-> Version(d)] : docs \in { ds \in SUBSET Document :
                                    ds # {} /\ \A d \in ds : ~Deleted(d) } }

\* create_review_request
CreateReviewRequest(actor) ==
    /\ MayDo(actor, "review:create")
    /\ Len(reviews) < MaxReviews
    /\ \E changes \in ProposedChanges :
            reviews' = Append(reviews, NewReview(actor, changes))
    /\ UNCHANGED <<memberVars, events>>

Terminal(review) == review.status \in {"applied", "closed"}

\* _insert_decision, and the status it brings.
Decide(actor, r, type, status) ==
    /\ MayDo(actor, "review:decide")
    /\ Len(reviews[r].decisions) < MaxDecisions
    /\ reviews' = [reviews EXCEPT ![r].status = status,
                                  ![r].decisions = Append(@, [actor |-> actor, type |-> type])]
    /\ UNCHANGED <<memberVars, events>>

\* A mutant: authors approve their own requests.
ApproveOwn(actor, r) ==
    /\ reviews[r].status \in {"open", "changes_requested"}
    /\ Decide(actor, r, "approve", "approved")

\* approve_review_request
ApproveReviewRequest(actor, r) ==
    /\ ~Terminal(reviews[r])
    /\ reviews[r].author # actor
    /\ reviews[r].status \in {"open", "changes_requested"}
    /\ Decide(actor, r, "approve", "approved")

\* request_review_changes
RequestReviewChanges(actor, r) ==
    /\ ~Terminal(reviews[r])
    /\ reviews[r].status \in {"open", "approved"}
    /\ Decide(actor, r, "request_changes", "changes_requested")

\* comment_on_review_request
CommentOnReviewRequest(actor, r) ==
    ~Terminal(reviews[r]) /\ Decide(actor, r, "comment", reviews[r].status)

\* A mutant: the changes whose document has moved on are passed over.
ApplyCurrentChanges(actor, r) ==
    LET changes == reviews[r].changes
        current == { d \in DOMAIN changes : ~Deleted(d) /\ Version(d) = changes[d] }
    IN  /\ MayDo(actor, "review:apply") /\ MayDo(actor, "document:write")
        /\ reviews[r].status = "approved"
        /\ current # {} /\ \A d \in current : Version(d) < MaxVersion
        /\ events' = [d \in Document |->
                IF d \in current THEN Append(events[d], [kind |-> "patched", review |-> r])
                ELSE events[d]]
        /\ reviews' = [reviews EXCEPT ![r].status = "applied", ![r].applied_by = {actor}]
        /\ UNCHANGED memberVars

\* apply_review_request: every change, in one transaction, or none.
ApplyReviewRequest(actor, r) ==
    LET changes == reviews[r].changes
    IN  /\ MayDo(actor, "review:apply") /\ MayDo(actor, "document:write")
        /\ reviews[r].status = "approved"
        /\ \A d \in DOMAIN changes :
                ~Deleted(d) /\ Version(d) = changes[d] /\ Version(d) < MaxVersion
        /\ events' = [d \in Document |->
                IF d \in DOMAIN changes THEN Append(events[d], [kind |-> "patched", review |-> r])
                ELSE events[d]]
        /\ reviews' = [reviews EXCEPT ![r].status = "applied", ![r].applied_by = {actor}]
        /\ UNCHANGED memberVars

ReviewNext ==
    \/ /\ MemberNext
       /\ UNCHANGED <<events, reviews>>
       /\ reviews # << >> => Len(audit') <= MaxAuditAtWork
    \/ /\ Len(audit) <= MaxAuditAtWork
       /\ \E actor \in Members :
            \/ \E d \in Document :
                EditDocument(actor, d) \/ DeleteDocument(actor, d) \/ RestoreDocument(actor, d)
            \/ CreateReviewRequest(actor)
            \/ \E r \in DOMAIN reviews :
                \/ ApproveReviewRequest(actor, r) \/ RequestReviewChanges(actor, r)
                \/ CommentOnReviewRequest(actor, r) \/ ApplyReviewRequest(actor, r)

ReviewSpec == ReviewInit /\ [][ReviewNext]_reviewVars

-----------------------------------------------------------------------------
(* Properties                                                              *)

ReviewTypeOK ==
    /\ DOMAIN events = Document
    /\ \A d \in Document : Version(d) \in 1..MaxVersion
    /\ \A r \in DOMAIN reviews :
        /\ DOMAIN reviews[r].changes \subseteq Document
        /\ reviews[r].status \in {"open", "approved", "changes_requested", "applied"}

\* The decision that settles a review's status: the last one that is no comment.
Verdict(decisions, i) ==
    /\ decisions[i].type # "comment"
    /\ \A j \in (i + 1)..Len(decisions) : decisions[j].type = "comment"

\* The status column tells what the decisions say, and an approval that counts is never
\* the author's: a review is applied only on the approval of somebody else that no later
\* request for changes has withdrawn.
StatusTellsDecisions ==
    \A r \in DOMAIN reviews :
        LET decisions == reviews[r].decisions
        IN  CASE reviews[r].status = "open" ->
                    \A i \in DOMAIN decisions : decisions[i].type = "comment"
              [] reviews[r].status = "changes_requested" ->
                    \E i \in DOMAIN decisions :
                        Verdict(decisions, i) /\ decisions[i].type = "request_changes"
              [] reviews[r].status \in {"approved", "applied"} ->
                    \E i \in DOMAIN decisions :
                        /\ Verdict(decisions, i) /\ decisions[i].type = "approve"
                        /\ decisions[i].actor # reviews[r].author

\* A document has the change of a review exactly if the review is applied and proposed
\* it, once, as the successor of the version it was reviewed on: not some changes of a
\* review without the others, and none after the document has moved on.
AppliedAsReviewed ==
    \A r \in DOMAIN reviews : \A d \in Document :
        { v \in 1..Version(d) : events[d][v].review = r } =
            IF reviews[r].status = "applied" /\ d \in DOMAIN reviews[r].changes
            THEN {reviews[r].changes[d] + 1} ELSE {}
=============================================================================
