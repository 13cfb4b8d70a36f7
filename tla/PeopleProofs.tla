---------------------------- MODULE PeopleProofs ----------------------------
(***************************************************************************)
(* Theorems about Membership, ReviewWorkflow and Comments, for any people, *)
(* documents and bounds: a project keeps an owner, the audit log is true,  *)
(* a review's status tells what its decisions say, a review is applied     *)
(* whole, once and on the versions that were reviewed, and a comment's     *)
(* event is its document's.                                                *)
(* And about Sessions and Requests, for any people, projects, limits and   *)
(* bounds: of every login only the newest session and refresh token are of *)
(* use, a login that has ended stays ended, and an OIDC login gives at     *)
(* most one session; no key gets more requests through than its limit, and *)
(* a handler acts for the user whose live credential the request came      *)
(* with.                                                                   *)
(***************************************************************************)
EXTENDS Comments, Requests, FoldLemmas

-----------------------------------------------------------------------------
(* The members.                                                            *)

Invitation == [email : User, role : Role, status : {"pending", "accepted", "expired"}]

\* Somebody counts owners, so the members are finitely many; and what waits to be
\* recorded are refusals, which change no role.  There are no invitations to a
\* project before it exists.
MemberInv ==
    /\ MemberTypeOK
    /\ IsFiniteSet(Members)
    /\ \A entry \in refused : entry.outcome = "failure"
    /\ invitations \in Seq(Invitation)
    /\ Members = {} => invitations = << >>
    /\ KeepsAnOwner

\* A new member takes nobody's role away.
LEMMA NewMemberKeepsOwner ==
    ASSUME KeepsAnOwner, Members # {} , NEW user, user \notin Members, NEW role,
           roles' = WithRole(roles, user, role)
    PROVE  KeepsAnOwner' /\ Members' # {}
BY DEF KeepsAnOwner, Owners, WithRole, Members

\* _ensure_not_last_owner_change: when an owner goes there is another one.
LEMMA AnotherOwner ==
    ASSUME MemberInv, NEW user \in Members, NEW role, role # "owner",
           NotLastOwnerChange(user, role)
    PROVE  \E other \in Members : other # user /\ roles[other] = "owner"
<1>1. PICK owner \in Members : roles[owner] = "owner"
  BY DEF MemberInv, KeepsAnOwner, Owners, Members
<1>2. CASE owner # user
  BY <1>1, <1>2
<1>3. CASE owner = user
  <2>1. Cardinality(Owners(roles)) > 1
    BY <1>1, <1>3 DEF NotLastOwnerChange
  <2>2. Owners(roles) # {user}
    BY <2>1, FS_Singleton
  <2> QED BY <1>1, <1>3, <2>2 DEF Owners, Members
<1> QED BY <1>2, <1>3

LEMMA ChangedMemberKeepsOwner ==
    ASSUME MemberInv, NEW user \in Members, NEW role, NotLastOwnerChange(user, role),
           \/ roles' = WithRole(roles, user, role)
           \/ role # "owner" /\ roles' = Without(roles, user)
    PROVE  KeepsAnOwner' /\ Members' # {}
<1>1. CASE role = "owner"
  BY <1>1 DEF MemberInv, KeepsAnOwner, Owners, WithRole, Members
<1>2. CASE role # "owner"
  <2>1. PICK other \in Members : other # user /\ roles[other] = "owner"
    BY <1>2, AnotherOwner
  <2> QED BY <2>1 DEF KeepsAnOwner, Owners, WithRole, Without, Members
<1> QED BY <1>1, <1>2

\* What the members are after one more, or one with another role, or one fewer.
LEMMA MembersAfter ==
    ASSUME MemberInv, NEW user \in accounts, NEW role \in Role,
           roles' = WithRole(roles, user, role) \/ roles' = Without(roles, user) \/ roles' = roles,
           accounts' = accounts
    PROVE  /\ IsFiniteSet(Members)' /\ Members' \subseteq accounts'
           /\ \A u \in Members' : roles'[u] \in Role
<1>1. Members' \subseteq Members \cup {user}
  BY DEF WithRole, Without, Members
<1>2. IsFiniteSet(Members')
  BY <1>1, FS_AddElement, FS_Subset DEF MemberInv
<1> QED BY <1>1, <1>2 DEF MemberInv, MemberTypeOK, WithRole, Without, Members

\* MemberTypeOK, of the invitations.
InvitationsTyped ==
    /\ DOMAIN invitations = 1..Len(invitations)
    /\ \A i \in DOMAIN invitations : invitations[i].email \in User /\ invitations[i].role \in Role

LEMMA InvitationsOK ==
    ASSUME invitations' \in Seq(Invitation)
    PROVE  InvitationsTyped'
<1>1. \A i \in DOMAIN invitations' : invitations'[i] \in Invitation
  OBVIOUS
<1> QED BY <1>1 DEF InvitationsTyped, Invitation

LEMMA MemberInvInit == ASSUME MemberInit PROVE MemberInv
<1>1. Members = {}
  BY DEF MemberInit, Members
<1> QED BY <1>1, FS_EmptySet, MembershipAssumption
        DEF MemberInit, MemberInv, MemberTypeOK, KeepsAnOwner, Members

LEMMA MemberInvNext == ASSUME MemberInv, [MemberNext]_memberVars PROVE MemberInv'
<1>0. /\ WorkspaceOwner \in User /\ GrantedRole \subseteq Role /\ "owner" \in Role
      /\ accounts \subseteq User /\ WorkspaceOwner \in accounts
      /\ "none" # "owner"
  BY MembershipAssumption DEF MemberInv, MemberTypeOK, Role
<1>1. CASE UNCHANGED memberVars
  BY <1>1 DEF memberVars, MemberInv, MemberTypeOK, KeepsAnOwner, Members
<1>2. CASE CreateProject
  <2>1. roles' = WithRole(roles, WorkspaceOwner, "owner") /\ UNCHANGED <<accounts, invitations, audit, refused>>
    BY <1>2 DEF CreateProject
  <2>2. KeepsAnOwner' /\ Members' # {}
    BY <2>1 DEF KeepsAnOwner, Owners, WithRole, Members
  <2> QED BY <2>1, <2>2, <1>0, MembersAfter DEF MemberInv, MemberTypeOK
<1>3. CASE RecordFailure
  <2>1. PICK entry \in refused : Commit(entry) /\ refused' = refused \ {entry}
    BY <1>3 DEF RecordFailure
  <2>2. entry.outcome = "failure"
    BY DEF MemberInv
  <2>3. roles' = roles
    BY <2>1, <2>2 DEF Commit, AfterEntry
  <2> QED BY <2>1, <2>3, <1>3 DEF RecordFailure, MemberInv, MemberTypeOK, KeepsAnOwner, Members
<1>4. ASSUME NEW user \in User, CreateUser(user)
      PROVE  MemberInv'
  BY <1>4 DEF CreateUser, MemberInv, MemberTypeOK, KeepsAnOwner, Members
<1>5. ASSUME NEW user \in User, NEW i \in DOMAIN invitations, AcceptInvitation(user, i)
      PROVE  MemberInv'
  <2>1. /\ user \in accounts /\ UNCHANGED <<accounts, refused>>
        /\ invitations' = [invitations EXCEPT ![i].status = "accepted"]
    BY <1>5 DEF AcceptInvitation
  <2>2. invitations[i] \in Invitation /\ Members # {}
    BY DEF MemberInv
  <2>3. invitations' \in Seq(Invitation) /\ InvitationsTyped'
    <3>1. [invitations[i] EXCEPT !.status = "accepted"] \in Invitation
      BY <2>2 DEF Invitation
    <3>2. invitations' \in Seq(Invitation)
      BY <2>1, <3>1 DEF MemberInv
    <3> QED BY <3>2, InvitationsOK
  <2>4. CASE user \in Members
    <3>1. roles' = roles
      BY <1>5, <2>4 DEF AcceptInvitation
    <3> QED BY <2>1, <2>2, <2>3, <3>1 DEF InvitationsTyped, MemberInv, MemberTypeOK, KeepsAnOwner, Members
  <2>5. CASE user \notin Members
    <3>1. roles' = WithRole(roles, user, invitations[i].role)
      <4>1. Commit(AcceptEntry(user, i))
        BY <1>5, <2>5 DEF AcceptInvitation
      <4>2. /\ AcceptEntry(user, i).outcome = "success" /\ AcceptEntry(user, i).action = "accept"
            /\ AcceptEntry(user, i).target = user
            /\ AcceptEntry(user, i).role = invitations[i].role
        BY DEF AcceptEntry, Entry
      <4> QED BY <4>1, <4>2 DEF Commit, AfterEntry
    <3>2. KeepsAnOwner' /\ Members' # {}
      BY <2>2, <2>5, <3>1, NewMemberKeepsOwner DEF MemberInv
    <3>3. invitations[i].role \in Role
      BY <2>2 DEF Invitation
    <3> QED BY <2>1, <2>3, <3>1, <3>2, <3>3, MembersAfter
           DEF InvitationsTyped, MemberInv, MemberTypeOK
  <2> QED BY <2>4, <2>5
<1>6. ASSUME NEW i \in DOMAIN invitations, ExpireInvitation(i)
      PROVE  MemberInv'
  <2>1. invitations[i] \in Invitation /\ Members # {}
    BY DEF MemberInv
  <2>2. [invitations[i] EXCEPT !.status = "expired"] \in Invitation
    BY <2>1 DEF Invitation
  <2>3. invitations' \in Seq(Invitation)
    BY <1>6, <2>2 DEF MemberInv, ExpireInvitation
  <2> QED BY <1>6, <2>1, <2>3, InvitationsOK DEF InvitationsTyped, ExpireInvitation, MemberInv, MemberTypeOK,
                                                KeepsAnOwner, Members
<1>7. ASSUME NEW actor \in accounts, NEW user \in User, NEW role \in GrantedRole,
             AddProjectMember(actor, user, role)
      PROVE  MemberInv'
  <2>1. /\ user \in accounts /\ user \notin Members /\ Members # {}
        /\ roles' = WithRole(roles, user, role)
        /\ UNCHANGED <<accounts, invitations, refused>>
    BY <1>7 DEF AddProjectMember, CanAdd, MayDo, Commit, AfterEntry, Entry
  <2>2. KeepsAnOwner' /\ Members' # {}
    BY <2>1, NewMemberKeepsOwner DEF MemberInv
  <2> QED BY <2>1, <2>2, <1>0, MembersAfter DEF MemberInv, MemberTypeOK
<1>8. ASSUME NEW actor \in accounts, NEW user \in User, NEW role \in GrantedRole,
             UpdateProjectMember(actor, user, role)
      PROVE  MemberInv'
  <2>1. /\ user \in Members /\ NotLastOwnerChange(user, role)
        /\ roles' = WithRole(roles, user, role)
        /\ UNCHANGED <<accounts, invitations, refused>>
    BY <1>8 DEF UpdateProjectMember, CanChange, Commit, AfterEntry, Entry
  <2>2. KeepsAnOwner' /\ Members' # {}
    BY <2>1, ChangedMemberKeepsOwner
  <2>3. user \in accounts
    BY <2>1 DEF MemberInv, MemberTypeOK
  <2> QED BY <2>1, <2>2, <2>3, <1>0, MembersAfter DEF MemberInv, MemberTypeOK
<1>9. ASSUME NEW actor \in accounts, NEW user \in User, RemoveProjectMember(actor, user)
      PROVE  MemberInv'
  <2>1. /\ user \in Members /\ NotLastOwnerChange(user, "none")
        /\ roles' = Without(roles, user)
        /\ UNCHANGED <<accounts, invitations, refused>>
    BY <1>9 DEF RemoveProjectMember, CanChange, Commit, AfterEntry, Entry
  <2>2. KeepsAnOwner' /\ Members' # {}
    BY <2>1, <1>0, ChangedMemberKeepsOwner
  <2>3. user \in accounts
    BY <2>1 DEF MemberInv, MemberTypeOK
  <2> QED BY <2>1, <2>2, <2>3, <1>0, MembersAfter DEF MemberInv, MemberTypeOK
<1>10. ASSUME NEW actor \in accounts, NEW user \in User, RefuseMemberChange(actor, user)
       PROVE  MemberInv'
  <2>1. \A entry \in refused' : entry.outcome = "failure"
    BY <1>10 DEF RefuseMemberChange, Entry, MemberInv
  <2> QED BY <1>10, <2>1 DEF RefuseMemberChange, MemberInv, MemberTypeOK, KeepsAnOwner, Members
<1>11. ASSUME NEW actor \in accounts, NEW user \in User, NEW role \in GrantedRole,
              CreateInvitation(actor, user, role)
       PROVE  MemberInv'
  <2> DEFINE new == [email |-> user, role |-> role, status |-> "pending"]
  <2>1. /\ roles' = roles /\ Members # {}
        /\ invitations' = Append(invitations, new)
        /\ UNCHANGED <<accounts, refused>>
    BY <1>11 DEF CreateInvitation, MayDo, Commit, AfterEntry, Entry
  <2>2. new \in Invitation
    BY <1>0 DEF Invitation
  <2> HIDE DEF new
  <2>3. invitations' \in Seq(Invitation)
    BY <2>1, <2>2 DEF MemberInv
  <2> QED BY <2>1, <2>3, InvitationsOK DEF InvitationsTyped, MemberInv, MemberTypeOK, KeepsAnOwner,
                                           Members
<1> QED
  BY <1>1, <1>2, <1>3, <1>4, <1>5, <1>6, <1>7, <1>8, <1>9, <1>10, <1>11 DEF MemberNext

-----------------------------------------------------------------------------
(* The reviews.                                                            *)

Status == {"open", "approved", "changes_requested", "applied"}

Decision == [actor : User, type : {"approve", "request_changes", "comment"}]

Review ==
    [ author : User, status : Status,
      changes : UNION { [docs -> Nat] : docs \in SUBSET Document },
      decisions : Seq(Decision), applied_by : SUBSET User ]

EventOf == [kind : {"created", "patched", "deleted", "restored"}, review : Nat]

\* No event is of a review that has yet to be made.
EventsTyped ==
    /\ events \in [Document -> Seq(EventOf)]
    /\ \A d \in Document :
        /\ Version(d) \in 1..MaxVersion
        /\ \A v \in 1..Version(d) : events[d][v].review <= Len(reviews)

ReviewInv ==
    /\ MemberInv
    /\ reviews \in Seq(Review)
    /\ EventsTyped
    /\ StatusTellsDecisions
    /\ AppliedAsReviewed

\* StatusTellsDecisions, of one review.
StatusTold(review) ==
    LET decisions == review.decisions
    IN  CASE review.status = "open" ->
                \A i \in DOMAIN decisions : decisions[i].type = "comment"
          [] review.status = "changes_requested" ->
                \E i \in DOMAIN decisions :
                    Verdict(decisions, i) /\ decisions[i].type = "request_changes"
          [] review.status \in {"approved", "applied"} ->
                \E i \in DOMAIN decisions :
                    /\ Verdict(decisions, i) /\ decisions[i].type = "approve"
                    /\ decisions[i].actor # review.author

LEMMA StatusToldOfEach ==
    StatusTellsDecisions <=> \A r \in DOMAIN reviews : StatusTold(reviews[r])
BY DEF StatusTellsDecisions, StatusTold

LEMMA MemberIsUser == ASSUME MemberInv PROVE Members \subseteq User
BY DEF MemberInv, MemberTypeOK

\* A step that changes one review, with its new status told, and no event.
LEMMA OneReviewKeeps ==
    ASSUME ReviewInv, NEW r \in DOMAIN reviews, NEW review \in Review,
           reviews' = [reviews EXCEPT ![r] = review],
           review.changes = reviews[r].changes,
           review.status = "applied" <=> reviews[r].status = "applied",
           StatusTold(review), UNCHANGED <<memberVars, events>>
    PROVE  ReviewInv'
<1>1. /\ reviews' \in Seq(Review) /\ Len(reviews') = Len(reviews)
      /\ DOMAIN reviews' = DOMAIN reviews /\ reviews'[r] = review
      /\ \A q \in DOMAIN reviews : q # r => reviews'[q] = reviews[q]
  BY DEF ReviewInv
<1>2. MemberInv'
  BY DEF ReviewInv, memberVars, MemberInv, MemberTypeOK, KeepsAnOwner, Members
<1>3. EventsTyped'
  BY <1>1 DEF ReviewInv, EventsTyped, Version
<1>4. StatusTellsDecisions'
  <2>1. \A q \in DOMAIN reviews : StatusTold(reviews[q])
    BY StatusToldOfEach DEF ReviewInv
  <2>2. \A q \in DOMAIN reviews' : StatusTold(reviews'[q])
    BY <1>1, <2>1
  <2> QED BY <2>2 DEF StatusTellsDecisions, StatusTold
<1>5. AppliedAsReviewed'
  BY <1>1 DEF ReviewInv, AppliedAsReviewed, Version
<1> QED BY <1>1, <1>2, <1>3, <1>4, <1>5 DEF ReviewInv

\* A decision that is no comment is the one that counts from then on; a comment
\* changes nothing about it.
LEMMA NewVerdict ==
    ASSUME NEW decisions \in Seq(Decision), NEW decision \in Decision, decision.type # "comment"
    PROVE  LET after == Append(decisions, decision)
           IN  /\ Len(after) \in DOMAIN after /\ after[Len(after)] = decision
               /\ Verdict(after, Len(after))
BY DEF Verdict

LEMMA VerdictAfterComment ==
    ASSUME NEW decisions \in Seq(Decision), NEW comment \in Decision, comment.type = "comment",
           NEW i \in DOMAIN decisions, Verdict(decisions, i)
    PROVE  LET after == Append(decisions, comment)
           IN  i \in DOMAIN after /\ after[i] = decisions[i] /\ Verdict(after, i)
<1> DEFINE after == Append(decisions, comment)
<1>1. /\ Len(after) = Len(decisions) + 1 /\ DOMAIN after = 1..(Len(decisions) + 1)
      /\ DOMAIN decisions = 1..Len(decisions) /\ Len(decisions) \in Nat
      /\ \A j \in DOMAIN decisions : after[j] = decisions[j]
      /\ after[Len(decisions) + 1] = comment
  OBVIOUS
<1> HIDE DEF after
<1>2. \A j \in (i + 1)..Len(after) : after[j].type = "comment"
  BY <1>1 DEF Verdict
<1> QED BY <1>1, <1>2 DEF Verdict, after

LEMMA DecideKeeps ==
    ASSUME ReviewInv, NEW actor \in Members, NEW r \in DOMAIN reviews,
           NEW type \in {"approve", "request_changes", "comment"}, NEW status \in Status,
           Decide(actor, r, type, status),
           reviews[r].status # "applied", status # "applied",
           \/ type = "approve" /\ status = "approved" /\ reviews[r].author # actor
           \/ type = "request_changes" /\ status = "changes_requested"
           \/ type = "comment" /\ status = reviews[r].status
    PROVE  ReviewInv'
<1> DEFINE decision == [actor |-> actor, type |-> type]
           old == reviews[r]
           review == [old EXCEPT !.status = status, !.decisions = Append(@, decision)]
<1>1. old \in Review /\ old.decisions \in Seq(Decision) /\ decision \in Decision
  <2>1. old \in Review
    BY DEF ReviewInv
  <2>2. actor \in User
    BY MemberIsUser DEF ReviewInv
  <2> QED BY <2>1, <2>2 DEF Review, Decision
<1>2. reviews' = [reviews EXCEPT ![r] = review] /\ UNCHANGED <<memberVars, events>>
  BY <1>1 DEF Decide, ReviewInv, Review
<1>3. decision.type = type /\ decision.actor = actor
  OBVIOUS
<1> HIDE DEF decision
<1>4. /\ review.changes = old.changes /\ review.status = status /\ review.author = old.author
      /\ review.decisions = Append(old.decisions, decision)
  BY <1>1 DEF Review
<1>5. review \in Review
  <2>1. Append(old.decisions, decision) \in Seq(Decision)
    BY <1>1
  <2> QED BY <1>1, <2>1 DEF Review
<1>6. StatusTold(old)
  BY StatusToldOfEach DEF ReviewInv
<1> HIDE DEF review
<1>7. StatusTold(review)
  <2> DEFINE after == Append(old.decisions, decision)
  <2>1. CASE type # "comment"
    <3>1. /\ Len(after) \in DOMAIN after /\ after[Len(after)] = decision
          /\ Verdict(after, Len(after))
      BY <2>1, <1>1, <1>3, NewVerdict
    <3> HIDE DEF after
    <3>2. review.decisions = after
      BY <1>4 DEF after
    <3> QED BY <3>1, <3>2, <2>1, <1>3, <1>4 DEF StatusTold
  <2>2. CASE type = "comment" /\ status = "open"
    <3>1. \A i \in DOMAIN old.decisions : old.decisions[i].type = "comment"
      BY <1>6, <2>2 DEF StatusTold
    <3>2. \A i \in DOMAIN after : after[i].type = "comment"
      BY <3>1, <2>2, <1>1, <1>3
    <3> QED BY <3>2, <2>2, <1>4 DEF StatusTold
  <2>3. CASE type = "comment" /\ status # "open"
    <3>0. status = old.status
      BY <2>3
    <3>1. PICK i \in DOMAIN old.decisions :
            /\ Verdict(old.decisions, i)
            /\ status = "changes_requested" => old.decisions[i].type = "request_changes"
            /\ status = "approved" => /\ old.decisions[i].type = "approve"
                                      /\ old.decisions[i].actor # old.author
      BY <3>0, <2>3, <1>6 DEF StatusTold, Status
    <3>2. i \in DOMAIN after /\ after[i] = old.decisions[i] /\ Verdict(after, i)
      BY <3>1, <2>3, <1>1, <1>3, VerdictAfterComment
    <3> HIDE DEF after
    <3>3. review.decisions = after
      BY <1>4 DEF after
    <3> QED BY <3>1, <3>2, <3>3, <2>3, <1>4 DEF StatusTold, Status
  <2> QED BY <2>1, <2>2, <2>3
<1> QED BY <1>2, <1>4, <1>5, <1>7, OneReviewKeeps

\* A write that is no review's.
LEMMA WriteKeeps ==
    ASSUME ReviewInv, NEW d \in Document, NEW kind \in {"patched", "deleted", "restored"},
           WriteEvent(d, kind)
    PROVE  ReviewInv'
<1> DEFINE event == [kind |-> kind, review |-> 0]
<1>1. /\ events' = [events EXCEPT ![d] = Append(@, event)] /\ UNCHANGED <<memberVars, reviews>>
      /\ event \in EventOf /\ event.review = 0 /\ Version(d) < MaxVersion
  BY DEF WriteEvent, EventOf
<1> HIDE DEF event
<1>2. /\ events \in [Document -> Seq(EventOf)]
      /\ \A e \in Document : Version(e) = Len(events[e]) /\ Len(events[e]) \in Nat
  BY DEF ReviewInv, EventsTyped, Version
<1>3. /\ events' \in [Document -> Seq(EventOf)]
      /\ \A e \in Document \ {d} : events'[e] = events[e]
      /\ Len(events'[d]) = Len(events[d]) + 1
      /\ events'[d][Len(events[d]) + 1] = event
      /\ \A v \in 1..Len(events[d]) : events'[d][v] = events[d][v]
  BY <1>1, <1>2
<1>4. MemberInv'
  BY <1>1 DEF ReviewInv, memberVars, MemberInv, MemberTypeOK, KeepsAnOwner, Members
<1>5. Len(reviews) \in Nat /\ DOMAIN reviews = 1..Len(reviews)
  BY DEF ReviewInv
<1>6. EventsTyped'
  BY <1>1, <1>2, <1>3, <1>5, ReviewAssumption DEF ReviewInv, EventsTyped, Version
<1>7. AppliedAsReviewed'
  <2> SUFFICES ASSUME NEW r \in DOMAIN reviews, NEW e \in Document
               PROVE  { v \in 1..Len(events'[e]) : events'[e][v].review = r } =
                      { v \in 1..Len(events[e]) : events[e][v].review = r }
    BY <1>1 DEF AppliedAsReviewed, ReviewInv, Version
  <2> QED BY <1>1, <1>2, <1>3, <1>5
<1> QED BY <1>1, <1>4, <1>6, <1>7 DEF ReviewInv, StatusTellsDecisions

LEMMA CreateKeeps ==
    ASSUME ReviewInv, NEW actor \in Members, CreateReviewRequest(actor)
    PROVE  ReviewInv'
<1>1. PICK changes \in ProposedChanges : reviews' = Append(reviews, NewReview(actor, changes))
  BY DEF CreateReviewRequest
<1> DEFINE new == NewReview(actor, changes)
<1>2. /\ new.status = "open" /\ new.decisions = << >>
  BY DEF NewReview
<1>3. new \in Review
  <2>1. changes \in UNION { [docs -> Nat] : docs \in SUBSET Document }
    <3>1. \A d \in Document : Version(d) \in Nat
      BY DEF ReviewInv, EventsTyped, Version
    <3>2. PICK docs \in SUBSET Document : changes = [d \in docs |-> Version(d)]
      BY <1>1 DEF ProposedChanges
    <3>3. changes \in [docs -> Nat]
      BY <3>1, <3>2
    <3> QED BY <3>2, <3>3
  <2>2. actor \in User
    BY MemberIsUser DEF ReviewInv
  <2>3. << >> \in Seq(Decision)
    OBVIOUS
  <2> QED BY <2>1, <2>2, <2>3 DEF NewReview, Review, Status
<1> HIDE DEF new
<1>4. /\ reviews' \in Seq(Review) /\ Len(reviews') = Len(reviews) + 1 /\ Len(reviews) \in Nat
      /\ DOMAIN reviews' = 1..(Len(reviews) + 1) /\ DOMAIN reviews = 1..Len(reviews)
      /\ \A q \in DOMAIN reviews : reviews'[q] = reviews[q]
      /\ reviews'[Len(reviews) + 1] = new
  BY <1>1, <1>3 DEF ReviewInv, new
<1>5. MemberInv' /\ events' = events
  BY DEF CreateReviewRequest, ReviewInv, memberVars, MemberInv, MemberTypeOK, KeepsAnOwner, Members
<1>6. \A d \in Document : \A v \in 1..Len(events[d]) :
            events[d][v].review \in Nat /\ events[d][v].review <= Len(reviews)
  <2> TAKE d \in Document
  <2> TAKE v \in 1..Len(events[d])
  <2>1. events[d][v] \in EventOf
    BY DEF ReviewInv, EventsTyped
  <2> QED BY <2>1 DEF ReviewInv, EventsTyped, Version, EventOf
<1>7. EventsTyped'
  BY <1>4, <1>5, <1>6 DEF ReviewInv, EventsTyped, Version
<1>8. StatusTellsDecisions'
  <2>1. StatusTold(new)
    BY <1>2 DEF StatusTold
  <2>2. \A q \in DOMAIN reviews : StatusTold(reviews[q])
    BY StatusToldOfEach DEF ReviewInv
  <2>3. \A q \in DOMAIN reviews' : StatusTold(reviews'[q])
    BY <1>4, <2>1, <2>2
  <2> QED BY <2>3 DEF StatusTellsDecisions, StatusTold
<1>9. AppliedAsReviewed'
  <2> SUFFICES ASSUME NEW r \in DOMAIN reviews', NEW d \in Document
               PROVE  { v \in 1..Len(events[d]) : events[d][v].review = r } =
                        IF reviews'[r].status = "applied" /\ d \in DOMAIN reviews'[r].changes
                        THEN {reviews'[r].changes[d] + 1} ELSE {}
    BY <1>5 DEF AppliedAsReviewed, Version
  <2>1. CASE r \in DOMAIN reviews
    BY <2>1, <1>4 DEF ReviewInv, AppliedAsReviewed, Version
  <2>2. CASE r = Len(reviews) + 1
    BY <2>2, <1>2, <1>4, <1>6
  <2> QED BY <2>1, <2>2, <1>4
<1> QED BY <1>4, <1>5, <1>7, <1>8, <1>9 DEF ReviewInv

\* The changes of a review, on the versions they were proposed for.
LEMMA ApplyKeeps ==
    ASSUME ReviewInv, NEW actor \in Members, NEW r \in DOMAIN reviews,
           ApplyReviewRequest(actor, r)
    PROVE  ReviewInv'
<1> DEFINE old == reviews[r]
           event == [kind |-> "patched", review |-> r]
           review == [old EXCEPT !.status = "applied", !.applied_by = {actor}]
<1>1. /\ events' = [d \in Document |-> IF d \in DOMAIN old.changes THEN Append(events[d], event)
                                       ELSE events[d]]
      /\ old.status = "approved" /\ UNCHANGED memberVars
      /\ \A d \in DOMAIN old.changes : Version(d) = old.changes[d] /\ Version(d) < MaxVersion
  BY DEF ApplyReviewRequest
<1>2. /\ reviews \in Seq(Review) /\ old \in Review
      /\ Len(reviews) \in Nat /\ DOMAIN reviews = 1..Len(reviews)
  BY DEF ReviewInv
<1>3. reviews' = [reviews EXCEPT ![r] = review]
  BY <1>2 DEF ApplyReviewRequest, Review
<1>4. /\ review \in Review /\ review.status = "applied" /\ review.changes = old.changes
      /\ review.decisions = old.decisions /\ review.author = old.author
  <2>1. actor \in User
    BY MemberIsUser DEF ReviewInv
  <2> QED BY <1>2, <2>1 DEF Review, Status
<1>5. event \in EventOf /\ event.review = r
  BY <1>2 DEF EventOf
<1> HIDE DEF review, event
<1>6. /\ reviews' \in Seq(Review) /\ Len(reviews') = Len(reviews)
      /\ DOMAIN reviews' = DOMAIN reviews /\ reviews'[r] = review
      /\ \A q \in DOMAIN reviews : q # r => reviews'[q] = reviews[q]
  BY <1>2, <1>3, <1>4
<1>7. MemberInv'
  BY <1>1 DEF ReviewInv, memberVars, MemberInv, MemberTypeOK, KeepsAnOwner, Members
<1>8. /\ events \in [Document -> Seq(EventOf)]
      /\ \A d \in Document : Version(d) = Len(events[d]) /\ Len(events[d]) \in Nat
  BY DEF ReviewInv, EventsTyped, Version
<1>9. events' \in [Document -> Seq(EventOf)]
  BY <1>1, <1>5, <1>8
<1>10. \A d \in Document : d \in DOMAIN old.changes =>
            /\ Len(events'[d]) = Len(events[d]) + 1 /\ events'[d][Len(events[d]) + 1] = event
            /\ \A v \in 1..Len(events[d]) : events'[d][v] = events[d][v]
  BY <1>1, <1>5, <1>8
<1>11. \A d \in Document : d \notin DOMAIN old.changes => events'[d] = events[d]
  BY <1>1
<1>12. EventsTyped'
  BY <1>1, <1>2, <1>5, <1>6, <1>8, <1>9, <1>10, <1>11, ReviewAssumption
     DEF ReviewInv, EventsTyped, Version
<1>13. StatusTellsDecisions'
  <2>1. \A q \in DOMAIN reviews : StatusTold(reviews[q])
    BY StatusToldOfEach DEF ReviewInv
  <2>2. StatusTold(review)
    BY <2>1, <1>1, <1>4 DEF StatusTold
  <2>3. \A q \in DOMAIN reviews' : StatusTold(reviews'[q])
    BY <1>6, <2>1, <2>2
  <2> QED BY <2>3 DEF StatusTellsDecisions, StatusTold
<1>14. AppliedAsReviewed'
  <2> SUFFICES ASSUME NEW q \in DOMAIN reviews, NEW d \in Document
               PROVE  { v \in 1..Len(events'[d]) : events'[d][v].review = q } =
                        IF reviews'[q].status = "applied" /\ d \in DOMAIN reviews'[q].changes
                        THEN {reviews'[q].changes[d] + 1} ELSE {}
    BY <1>6 DEF AppliedAsReviewed, Version
  <2>1. { v \in 1..Len(events[d]) : events[d][v].review = q } =
            IF reviews[q].status = "applied" /\ d \in DOMAIN reviews[q].changes
            THEN {reviews[q].changes[d] + 1} ELSE {}
    BY DEF ReviewInv, AppliedAsReviewed, Version
  <2>2. CASE d \notin DOMAIN old.changes
    BY <2>1, <2>2, <1>1, <1>4, <1>6, <1>11
  <2>3. CASE d \in DOMAIN old.changes /\ q # r
    <3>1. { v \in 1..Len(events'[d]) : events'[d][v].review = q } =
          { v \in 1..Len(events[d]) : events[d][v].review = q }
      BY <2>3, <1>5, <1>8, <1>10
    <3> QED BY <3>1, <2>1, <2>3, <1>6
  <2>4. CASE d \in DOMAIN old.changes /\ q = r
    <3>1. { v \in 1..Len(events[d]) : events[d][v].review = r } = {}
      BY <2>1, <2>4, <1>1
    <3>2. { v \in 1..Len(events'[d]) : events'[d][v].review = r } = {Len(events[d]) + 1}
      BY <3>1, <2>4, <1>5, <1>8, <1>10
    <3>3. old.changes[d] = Len(events[d])
      BY <2>4, <1>1, <1>8
    <3> QED BY <3>2, <3>3, <2>4, <1>4, <1>6
  <2> QED BY <2>2, <2>3, <2>4
<1> QED BY <1>6, <1>7, <1>12, <1>13, <1>14 DEF ReviewInv

LEMMA ReviewInvInit == ReviewInit => ReviewInv
<1> SUFFICES ASSUME ReviewInit PROVE ReviewInv
  OBVIOUS
<1>1. MemberInv
  BY MemberInvInit DEF ReviewInit
<1>2. EventsTyped
  <2>1. [kind |-> "created", review |-> 0] \in EventOf
    BY DEF EventOf
  <2> QED BY <2>1, ReviewAssumption DEF ReviewInit, EventsTyped, Version
<1> QED BY <1>1, <1>2 DEF ReviewInit, ReviewInv, StatusTellsDecisions, AppliedAsReviewed

LEMMA ReviewInvNext == ReviewInv /\ [ReviewNext]_reviewVars => ReviewInv'
<1> SUFFICES ASSUME ReviewInv, [ReviewNext]_reviewVars
             PROVE  ReviewInv'
  OBVIOUS
<1>1. ASSUME [MemberNext]_memberVars, UNCHANGED <<events, reviews>>
      PROVE  ReviewInv'
  <2>1. MemberInv'
    BY <1>1, MemberInvNext DEF ReviewInv
  <2> QED BY <2>1, <1>1 DEF ReviewInv, EventsTyped, Version, StatusTellsDecisions, AppliedAsReviewed
<1>2. ASSUME NEW actor \in Members, NEW d \in Document,
             EditDocument(actor, d) \/ DeleteDocument(actor, d) \/ RestoreDocument(actor, d)
      PROVE  ReviewInv'
  BY <1>2, WriteKeeps DEF EditDocument, DeleteDocument, RestoreDocument
<1>3. ASSUME NEW actor \in Members, NEW r \in DOMAIN reviews,
             \/ ApproveReviewRequest(actor, r) \/ RequestReviewChanges(actor, r)
             \/ CommentOnReviewRequest(actor, r)
      PROVE  ReviewInv'
  <2>1. reviews[r].status \in Status
    <3>1. reviews[r] \in Review
      BY DEF ReviewInv
    <3> QED BY <3>1 DEF Review
  <2>2. CASE ApproveReviewRequest(actor, r)
    BY <2>2, DecideKeeps DEF ApproveReviewRequest, Status
  <2>3. CASE RequestReviewChanges(actor, r)
    BY <2>3, DecideKeeps DEF RequestReviewChanges, Status
  <2>4. CASE CommentOnReviewRequest(actor, r)
    BY <2>1, <2>4, DecideKeeps DEF CommentOnReviewRequest, Terminal
  <2> QED BY <1>3, <2>2, <2>3, <2>4
<1> QED BY <1>1, <1>2, <1>3, CreateKeeps, ApplyKeeps DEF ReviewNext, reviewVars

THEOREM ReviewInvariant == ReviewSpec => []ReviewInv
BY ReviewInvInit, ReviewInvNext, PTL DEF ReviewSpec

\* A project that exists has an owner, whatever its owners and admins do to each other
\* (update_project_member, remove_project_member, accept_project_invitation).
THEOREM KeepsAnOwnerHolds == ReviewSpec => []KeepsAnOwner
<1>1. ReviewInv => KeepsAnOwner
  BY DEF ReviewInv, MemberInv
<1> QED BY <1>1, ReviewInvariant, PTL

\* The types of the members, the invitations, the documents and the reviews.
THEOREM TeamTypeCorrect == ReviewSpec => [](MemberTypeOK /\ ReviewTypeOK)
<1>1. ReviewInv => MemberTypeOK /\ ReviewTypeOK
  <2> SUFFICES ASSUME ReviewInv PROVE MemberTypeOK /\ ReviewTypeOK
    OBVIOUS
  <2>1. \A r \in DOMAIN reviews : reviews[r] \in Review
    BY DEF ReviewInv
  <2>2. \A r \in DOMAIN reviews :
            DOMAIN reviews[r].changes \subseteq Document /\ reviews[r].status \in Status
    BY <2>1 DEF Review
  <2> QED BY <2>2 DEF ReviewInv, MemberInv, EventsTyped, ReviewTypeOK, Status
<1> QED BY <1>1, ReviewInvariant, PTL

\* The status that apply_review_request relies on is what the last decision that is no
\* comment says, and an approval is never its author's own.
THEOREM StatusTellsDecisionsHolds == ReviewSpec => []StatusTellsDecisions
<1>1. ReviewInv => StatusTellsDecisions
  BY DEF ReviewInv
<1> QED BY <1>1, ReviewInvariant, PTL

\* apply_review_request leaves each change once, right after the version it was reviewed
\* on, and all changes of a review or none.
THEOREM AppliedAsReviewedHolds == ReviewSpec => []AppliedAsReviewed
<1>1. ReviewInv => AppliedAsReviewed
  BY DEF ReviewInv
<1> QED BY <1>1, ReviewInvariant, PTL

-----------------------------------------------------------------------------
(* The audit log: the roles that a log tells, and the one step by which it *)
(* grows.                                                                  *)

AuditEntry ==
  [ action : {"add", "update", "remove", "invite", "accept"}, actor : User, target : User,
    role : Role \cup {"none"}, invitation : Nat, outcome : {"success", "failure"} ]

Founded == WithRole(<< >>, WorkspaceOwner, "owner")

\* g is the table of the members after each of the first n entries.
IsRoles(g, log, n) ==
    g = [i \in 0..n |-> IF i = 0 THEN Founded ELSE AfterEntry(g[i - 1], log[i])]

\* RolesAfter, of any log.
RolesIn(log, n) ==
    LET after[i \in 0..n] ==
            IF i = 0 THEN WithRole(<< >>, WorkspaceOwner, "owner")
            ELSE AfterEntry(after[i - 1], log[i])
    IN  after[n]

LEMMA RolesTableExists ==
    ASSUME NEW log, NEW n \in Nat
    PROVE  \E g : IsRoles(g, log, n)
<1> DEFINE S == {k \in Nat : \E g : IsRoles(g, log, k)}
<1>1. 0 \in S
  <2> DEFINE g == [i \in 0..0 |-> Founded]
  <2>1. IsRoles(g, log, 0)
    BY DEF IsRoles
  <2> QED BY <2>1
<1>2. ASSUME NEW k \in S
      PROVE  k + 1 \in S
  <2>1. PICK g : IsRoles(g, log, k)
    OBVIOUS
  <2> DEFINE h == [i \in 0..(k + 1) |->
                      IF i = k + 1 THEN AfterEntry(g[k], log[k + 1]) ELSE g[i]]
  <2>2. ASSUME NEW i \in 0..(k + 1)
        PROVE  h[i] = IF i = 0 THEN Founded ELSE AfterEntry(h[i - 1], log[i])
    <3>1. CASE i = k + 1
      BY <3>1
    <3>2. CASE i # k + 1
      <4>1. i \in 0..k
        BY <3>2
      <4>2. g[i] = IF i = 0 THEN Founded ELSE AfterEntry(g[i - 1], log[i])
        BY <2>1, <4>1 DEF IsRoles
      <4>3. i # 0 => h[i - 1] = g[i - 1]
        BY <3>2, <4>1
      <4> QED BY <3>2, <4>2, <4>3
    <3> QED BY <3>1, <3>2
  <2>3. IsRoles(h, log, k + 1)
    BY <2>2 DEF IsRoles
  <2> QED BY <2>3
<1>3. S = Nat
  BY <1>1, <1>2, NatInduct
<1> QED BY <1>3

\* The first n entries of two logs are the same.
Agree(log, log2, n) == \A i \in 1..n : log[i] = log2[i]

\* Tables of logs that agree are the same, as far as both go.
LEMMA RolesTablesAgree ==
    ASSUME NEW log, NEW n \in Nat, NEW g, IsRoles(g, log, n),
           NEW log2, NEW m \in Nat, NEW h, IsRoles(h, log2, m),
           NEW k \in Nat, k <= n, k <= m, Agree(log, log2, k)
    PROVE  g[k] = h[k]
<1> DEFINE S == {i \in Nat : i <= k => g[i] = h[i]}
<1>1. 0 \in S
  BY DEF IsRoles
<1>2. ASSUME NEW i \in S
      PROVE  i + 1 \in S
  <2> SUFFICES ASSUME i + 1 <= k
               PROVE  g[i + 1] = h[i + 1]
    OBVIOUS
  <2>1. g[i] = h[i] /\ log[i + 1] = log2[i + 1]
    BY DEF Agree
  <2>0. i + 1 \in 0..n /\ i + 1 \in 0..m /\ i + 1 # 0 /\ (i + 1) - 1 = i
    OBVIOUS
  <2>2. g[i + 1] = AfterEntry(g[i], log[i + 1])
    BY <2>0 DEF IsRoles
  <2>3. h[i + 1] = AfterEntry(h[i], log2[i + 1])
    BY <2>0 DEF IsRoles
  <2> QED BY <2>1, <2>2, <2>3
<1>3. S = Nat
  BY <1>1, <1>2, NatInduct
<1> QED BY <1>3

\* The recursive function of RolesIn is such a table.
LEMMA RolesInIsLast ==
    ASSUME NEW log, NEW n \in Nat, NEW g, IsRoles(g, log, n)
    PROVE  RolesIn(log, n) = g[n]
<1> DEFINE f == CHOOSE f : f = [i \in 0..n |->
                    IF i = 0 THEN WithRole(<< >>, WorkspaceOwner, "owner")
                    ELSE AfterEntry(f[i - 1], log[i])]
<1>1. IsRoles(f, log, n)
  BY DEF IsRoles, Founded
<1>2. f[n] = g[n]
  <2> HIDE DEF f
  <2>1. n <= n /\ Agree(log, log, n)
    BY DEF Agree
  <2> QED BY <1>1, <2>1, RolesTablesAgree
<1> QED BY <1>2 DEF RolesIn

\* A project begins with its workspace's owner.
LEMMA RolesAtFirst == ASSUME NEW log PROVE RolesIn(log, 0) = Founded
<1>1. PICK g : IsRoles(g, log, 0)
  BY RolesTableExists
<1> QED BY <1>1, RolesInIsLast DEF IsRoles

\* Each entry has its effect on the roles before it ...
LEMMA RolesOneMore ==
    ASSUME NEW log, NEW n \in Nat
    PROVE  RolesIn(log, n + 1) = AfterEntry(RolesIn(log, n), log[n + 1])
<1>1. PICK g : IsRoles(g, log, n + 1)
  BY RolesTableExists
<1>2. PICK h : IsRoles(h, log, n)
  BY RolesTableExists
<1>3. g[n + 1] = AfterEntry(g[n], log[n + 1])
  BY <1>1 DEF IsRoles
<1>4. g[n] = h[n]
  <2>1. n <= n /\ n <= n + 1 /\ n + 1 \in Nat /\ Agree(log, log, n)
    BY DEF Agree
  <2> QED BY <1>1, <1>2, <2>1, RolesTablesAgree
<1> QED BY <1>1, <1>2, <1>3, <1>4, RolesInIsLast

\* ... and they depend on no later entry.
LEMMA RolesAgree ==
    ASSUME NEW log, NEW log2, NEW n \in Nat, Agree(log, log2, n)
    PROVE  RolesIn(log, n) = RolesIn(log2, n)
<1>1. PICK g : IsRoles(g, log, n)
  BY RolesTableExists
<1>2. PICK h : IsRoles(h, log2, n)
  BY RolesTableExists
<1>3. n <= n
  OBVIOUS
<1>4. g[n] = h[n]
  BY <1>1, <1>2, <1>3, RolesTablesAgree
<1> QED BY <1>1, <1>2, <1>4, RolesInIsLast

\* The entry at n is an invitation of this person, with this role.
Invites(log, n, invitation, user, role) ==
    /\ log[n].action = "invite" /\ log[n].outcome = "success"
    /\ log[n].invitation = invitation /\ log[n].target = user /\ log[n].role = role

Accepted(log, n, invitation) ==
    { i \in 1..n : log[i].action = "accept" /\ log[i].invitation = invitation }

\* An entry after the first n is authorised by them.
Authorised(log, n, entry) ==
    IF entry.action = "accept"
    THEN /\ Accepted(log, n, entry.invitation) = {}
         /\ \E i \in 1..n : Invites(log, i, entry.invitation, entry.actor, entry.role)
    ELSE /\ entry.actor \in DOMAIN RolesIn(log, n)
         /\ HasPermission(RolesIn(log, n)[entry.actor], "member:manage")

LogAuthorised(log) ==
    \A n \in 1..Len(log) : log[n].outcome = "success" => Authorised(log, n - 1, log[n])

\* Each invitation has its entry.
Recorded(log, invited) ==
    \A i \in DOMAIN invited : \E n \in 1..Len(log) :
        Invites(log, n, i, invited[i].email, invited[i].role)

UsedOnce(log, invited) ==
    \A n \in 1..Len(log) : log[n].action = "accept" =>
        log[n].invitation \in DOMAIN invited /\ invited[log[n].invitation].status = "accepted"

\* Every invitation was recorded; only an invitation marked as accepted was accepted; and
\* before there is a project nothing is recorded of it.
AuditInv ==
    /\ audit \in Seq(AuditEntry)
    /\ refused \subseteq {entry \in AuditEntry :
                            entry.outcome = "failure" /\ entry.action # "accept"}
    /\ Members = {} => audit = << >> /\ refused = {}
    /\ Members # {} => RolesIn(audit, Len(audit)) = roles
    /\ LogAuthorised(audit)
    /\ Recorded(audit, invitations) /\ UsedOnce(audit, invitations)

\* What is authorised stays so when the log grows.
LEMMA AuthorisedStays ==
    ASSUME NEW log, NEW log2, NEW n \in Nat, Agree(log, log2, n),
           NEW entry, Authorised(log, n, entry)
    PROVE  Authorised(log2, n, entry)
<1>1. RolesIn(log, n) = RolesIn(log2, n)
  BY RolesAgree
<1>2. Accepted(log, n, entry.invitation) = Accepted(log2, n, entry.invitation)
  BY DEF Accepted, Agree
<1>3. \A i \in 1..n :
        Invites(log, i, entry.invitation, entry.actor, entry.role)
          => Invites(log2, i, entry.invitation, entry.actor, entry.role)
  BY DEF Invites, Agree
<1> QED BY <1>1, <1>2, <1>3 DEF Authorised

\* A log with one more entry, which its members or its invitation authorise.
LEMMA EntryKeeps ==
    ASSUME AuditInv, Members # {}, NEW entry \in AuditEntry, Commit(entry),
           entry.outcome = "success" => Authorised(audit, Len(audit), entry)
    PROVE  /\ audit' \in Seq(AuditEntry) /\ Len(audit') = Len(audit) + 1
           /\ \A n \in 1..Len(audit) : audit'[n] = audit[n]
           /\ audit'[Len(audit')] = entry
           /\ RolesIn(audit', Len(audit')) = roles'
           /\ LogAuthorised(audit')
<1> DEFINE k == Len(audit)
<1>1. /\ audit \in Seq(AuditEntry) /\ k \in Nat /\ audit' = Append(audit, entry)
      /\ roles' = AfterEntry(roles, entry)
  BY DEF AuditInv, Commit
<1>2. /\ audit' \in Seq(AuditEntry) /\ Len(audit') = k + 1 /\ audit'[k + 1] = entry
      /\ \A n \in 1..k : audit'[n] = audit[n]
  BY <1>1
<1>3. Agree(audit, audit', k) /\ RolesIn(audit', k) = RolesIn(audit, k)
  BY <1>1, <1>2, RolesAgree DEF Agree
<1>4. RolesIn(audit', k + 1) = AfterEntry(RolesIn(audit', k), entry)
  BY <1>1, <1>2, RolesOneMore
<1>5. RolesIn(audit, k) = roles
  BY DEF AuditInv
<1>6. LogAuthorised(audit')
  <2> SUFFICES ASSUME NEW n \in 1..(k + 1), audit'[n].outcome = "success"
               PROVE  Authorised(audit', n - 1, audit'[n])
    BY <1>2 DEF LogAuthorised
  <2>1. CASE n = k + 1
    <3>1. Authorised(audit, k, entry)
      BY <1>2, <2>1
    <3>2. Authorised(audit', k, entry)
      BY <1>1, <1>3, <3>1, AuthorisedStays
    <3>3. n - 1 = k
      BY <1>1, <2>1
    <3> QED BY <1>2, <2>1, <3>2, <3>3
  <2>2. CASE n # k + 1
    <3>1. n \in 1..k /\ n - 1 \in Nat /\ Agree(audit, audit', n - 1)
      BY <1>1, <1>2, <2>2 DEF Agree
    <3>2. Authorised(audit, n - 1, audit[n])
      BY <1>2, <3>1 DEF AuditInv, LogAuthorised
    <3>3. Authorised(audit', n - 1, audit[n])
      BY <3>1, <3>2, AuthorisedStays
    <3> QED BY <1>2, <3>1, <3>3
  <2> QED BY <2>1, <2>2
<1>7. RolesIn(audit', Len(audit')) = roles'
  BY <1>1, <1>2, <1>3, <1>4, <1>5
<1> QED BY <1>2, <1>6, <1>7

\* What an invitation says stays, and one that was accepted stays accepted.
LEMMA SameInvitations ==
    ASSUME NEW log, NEW invited, NEW after, Recorded(log, invited), UsedOnce(log, invited),
           DOMAIN after = DOMAIN invited,
           \A i \in DOMAIN invited :
              /\ after[i].email = invited[i].email /\ after[i].role = invited[i].role
              /\ invited[i].status = "accepted" => after[i].status = "accepted"
    PROVE  Recorded(log, after) /\ UsedOnce(log, after)
BY DEF Recorded, UsedOnce

LEMMA MoreRecorded ==
    ASSUME NEW log, NEW log2, NEW invited, Recorded(log, invited), UsedOnce(log, invited),
           Len(log) \in Nat, Len(log2) = Len(log) + 1,
           \A n \in 1..Len(log) : log2[n] = log[n],
           log2[Len(log2)].action = "accept" =>
              /\ log2[Len(log2)].invitation \in DOMAIN invited
              /\ invited[log2[Len(log2)].invitation].status = "accepted"
    PROVE  Recorded(log2, invited) /\ UsedOnce(log2, invited)
<1>1. \A n \in 1..Len(log2) : n \in 1..Len(log) \/ n = Len(log2)
  OBVIOUS
<1>2. Recorded(log2, invited)
  <2> SUFFICES ASSUME NEW i \in DOMAIN invited
               PROVE  \E n \in 1..Len(log2) :
                          Invites(log2, n, i, invited[i].email, invited[i].role)
    BY DEF Recorded
  <2>1. PICK n \in 1..Len(log) : Invites(log, n, i, invited[i].email, invited[i].role)
    BY DEF Recorded
  <2> QED BY <2>1 DEF Invites
<1>3. UsedOnce(log2, invited)
  BY <1>1 DEF UsedOnce
<1> QED BY <1>2, <1>3

\* A step that records what a member who manages members does, or a refusal.
LEMMA ManagerKeeps ==
    ASSUME AuditInv, Members # {}, Members' # {}, NEW entry \in AuditEntry, Commit(entry),
           entry.action # "accept",
           entry.outcome = "success" => MayDo(entry.actor, "member:manage"),
           refused' \subseteq refused,
           invitations' = invitations
    PROVE  AuditInv'
<1>1. entry.outcome = "success" => Authorised(audit, Len(audit), entry)
  BY DEF AuditInv, Authorised, MayDo, Members
<1>2. /\ audit' \in Seq(AuditEntry) /\ Len(audit') = Len(audit) + 1 /\ Len(audit) \in Nat
      /\ \A n \in 1..Len(audit) : audit'[n] = audit[n]
      /\ audit'[Len(audit')] = entry
      /\ RolesIn(audit', Len(audit')) = roles'
      /\ LogAuthorised(audit')
  BY <1>1, EntryKeeps DEF AuditInv
<1>3. Recorded(audit', invitations) /\ UsedOnce(audit', invitations)
  BY <1>2, MoreRecorded DEF AuditInv
<1> QED BY <1>2, <1>3 DEF AuditInv

LEMMA AcceptKeeps ==
    ASSUME AuditInv, MemberInv, Members' # {}, NEW user \in User, NEW i \in DOMAIN invitations,
           AcceptInvitation(user, i)
    PROVE  AuditInv'
<1>1. /\ invitations \in Seq(Invitation) /\ invitations[i] \in Invitation /\ Members # {}
      /\ invitations[i].email = user /\ invitations[i].status = "pending"
      /\ invitations' = [invitations EXCEPT ![i].status = "accepted"] /\ refused' = refused
      /\ i \in Nat
  BY DEF MemberInv, AcceptInvitation
<1>2. /\ DOMAIN invitations' = DOMAIN invitations /\ invitations'[i].status = "accepted"
      /\ \A j \in DOMAIN invitations :
            /\ invitations'[j].email = invitations[j].email
            /\ invitations'[j].role = invitations[j].role
            /\ invitations[j].status = "accepted" => invitations'[j].status = "accepted"
  <2>1. [invitations[i] EXCEPT !.status = "accepted"].status = "accepted"
    BY <1>1 DEF Invitation
  <2> QED BY <1>1, <2>1 DEF Invitation
<1>3. Recorded(audit, invitations') /\ UsedOnce(audit, invitations')
  BY <1>2, SameInvitations DEF AuditInv
<1>4. CASE user \in Members
  <2>1. roles' = roles /\ audit' = audit
    BY <1>4 DEF AcceptInvitation
  <2> QED BY <1>1, <1>3, <2>1 DEF AuditInv, Members
<1>5. CASE user \notin Members
  <2> DEFINE entry == AcceptEntry(user, i)
  <2>1. Commit(entry)
    BY <1>5 DEF AcceptInvitation
  <2>2. /\ entry \in AuditEntry
        /\ entry.action = "accept" /\ entry.invitation = i
        /\ entry.actor = user /\ entry.role = invitations[i].role
    BY <1>1 DEF AcceptEntry, Entry, AuditEntry, Invitation
  <2> HIDE DEF entry
  <2>3. Authorised(audit, Len(audit), entry)
    <3>1. Accepted(audit, Len(audit), i) = {}
      BY <1>1 DEF AuditInv, UsedOnce, Accepted
    <3>2. \E n \in 1..Len(audit) : Invites(audit, n, i, user, invitations[i].role)
      BY <1>1 DEF AuditInv, Recorded
    <3> QED BY <2>2, <3>1, <3>2 DEF Authorised
  <2>4. /\ audit' \in Seq(AuditEntry) /\ Len(audit') = Len(audit) + 1 /\ Len(audit) \in Nat
        /\ \A n \in 1..Len(audit) : audit'[n] = audit[n]
        /\ audit'[Len(audit')] = entry
        /\ RolesIn(audit', Len(audit')) = roles'
        /\ LogAuthorised(audit')
    BY <1>1, <2>1, <2>2, <2>3, EntryKeeps DEF AuditInv
  <2>5. i \in DOMAIN invitations' /\ invitations'[i].status = "accepted"
    BY <1>2
  <2> DEFINE log == audit
             log2 == audit'
             invited == invitations'
  <2>6. /\ Recorded(log, invited) /\ UsedOnce(log, invited)
        /\ Len(log) \in Nat /\ Len(log2) = Len(log) + 1 /\ log2[Len(log2)] = entry
        /\ \A n \in 1..Len(log) : log2[n] = log[n]
    BY <1>3, <2>4
  <2>7. entry.invitation \in DOMAIN invited /\ invited[entry.invitation].status = "accepted"
    BY <2>2, <2>5
  <2> HIDE DEF log, log2, invited
  <2>8. Recorded(log2, invited) /\ UsedOnce(log2, invited)
    BY <2>6, <2>7, MoreRecorded
  <2>9. Recorded(audit', invitations') /\ UsedOnce(audit', invitations')
    BY <2>8 DEF log, log2, invited
  <2> QED BY <1>1, <2>4, <2>9 DEF AuditInv
<1> QED BY <1>4, <1>5

LEMMA InviteKeeps ==
    ASSUME AuditInv, MemberInv, Members' # {}, NEW actor \in User, NEW user \in User,
           NEW role \in Role, CreateInvitation(actor, user, role)
    PROVE  AuditInv'
<1> DEFINE k == Len(invitations)
           new == [email |-> user, role |-> role, status |-> "pending"]
           entry == [Entry("invite", actor, user, role, "success") EXCEPT !.invitation = k + 1]
<1>1. /\ invitations \in Seq(Invitation) /\ k \in Nat /\ new \in Invitation
      /\ invitations' = Append(invitations, new) /\ refused' = refused
      /\ Commit(entry) /\ MayDo(actor, "member:manage") /\ Members # {}
  BY DEF MemberInv, CreateInvitation, MayDo, Invitation
<1>2. /\ entry \in AuditEntry /\ entry.action = "invite" /\ entry.outcome = "success"
      /\ entry.invitation = k + 1 /\ entry.target = user /\ entry.role = role
      /\ entry.actor = actor
  BY <1>1 DEF Entry, AuditEntry
<1> HIDE DEF entry
<1>3. Authorised(audit, Len(audit), entry)
  BY <1>1, <1>2 DEF AuditInv, Authorised, MayDo, Members
<1>4. /\ audit' \in Seq(AuditEntry) /\ Len(audit') = Len(audit) + 1 /\ Len(audit) \in Nat
      /\ \A n \in 1..Len(audit) : audit'[n] = audit[n]
      /\ audit'[Len(audit')] = entry
      /\ RolesIn(audit', Len(audit')) = roles'
      /\ LogAuthorised(audit')
  BY <1>1, <1>2, <1>3, EntryKeeps DEF AuditInv
<1>5. Recorded(audit', invitations) /\ UsedOnce(audit', invitations)
  BY <1>2, <1>4, MoreRecorded DEF AuditInv
<1>6. /\ DOMAIN invitations' = 1..(k + 1) /\ DOMAIN invitations = 1..k
      /\ \A i \in 1..k : invitations'[i] = invitations[i]
      /\ invitations'[k + 1].email = user /\ invitations'[k + 1].role = role
  BY <1>1
<1>7. Invites(audit', Len(audit'), k + 1, user, role)
  BY <1>2, <1>4 DEF Invites
<1>8. Recorded(audit', invitations')
  <2> SUFFICES ASSUME NEW i \in 1..(k + 1)
               PROVE  \E n \in 1..Len(audit') :
                          Invites(audit', n, i, invitations'[i].email, invitations'[i].role)
    BY <1>6 DEF Recorded
  <2>1. CASE i = k + 1
    <3>1. Len(audit') \in 1..Len(audit')
      BY <1>4
    <3> QED BY <2>1, <3>1, <1>6, <1>7
  <2>2. CASE i # k + 1
    BY <2>2, <1>1, <1>5, <1>6 DEF Recorded
  <2> QED BY <2>1, <2>2
<1>9. UsedOnce(audit', invitations')
  BY <1>1, <1>5, <1>6 DEF UsedOnce
<1> QED BY <1>1, <1>4, <1>8, <1>9 DEF AuditInv

LEMMA AuditInvInit == MemberInit => AuditInv
BY DEF MemberInit, AuditInv, Members, LogAuthorised, Recorded, UsedOnce

LEMMA AuditInvNext ==
    ASSUME MemberInv, AuditInv, [MemberNext]_memberVars
    PROVE  AuditInv'
<1>0. /\ MemberInv' /\ accounts \subseteq User /\ GrantedRole \subseteq Role
      /\ Members \subseteq accounts
  BY MemberInvNext, MembershipAssumption DEF MemberInv, MemberTypeOK
<1>1. CASE UNCHANGED memberVars
  BY <1>1 DEF memberVars, AuditInv, Members
<1>2. CASE CreateProject
  <2>1. /\ audit = << >> /\ refused = {} /\ UNCHANGED <<audit, refused, invitations>>
        /\ Members = {} /\ roles' = WithRole(roles, WorkspaceOwner, "owner")
    BY <1>2 DEF CreateProject, AuditInv
  <2>2. roles' = Founded
    BY <2>1 DEF WithRole, Founded, Members
  <2>3. RolesIn(audit, Len(audit)) = Founded
    BY <2>1, RolesAtFirst
  <2> QED BY <2>1, <2>2, <2>3 DEF AuditInv
<1>3. CASE RecordFailure
  <2>1. PICK entry \in refused : Commit(entry) /\ refused' = refused \ {entry}
    BY <1>3 DEF RecordFailure
  <2>2. /\ entry \in AuditEntry /\ entry.outcome = "failure" /\ entry.action # "accept"
        /\ Members # {} /\ invitations' = invitations
    BY <1>3 DEF AuditInv, RecordFailure
  <2>3. Members' # {}
    BY <2>1, <2>2 DEF Commit, AfterEntry, Members
  <2> QED BY <2>1, <2>2, <2>3, ManagerKeeps
<1>4. ASSUME NEW user \in User, CreateUser(user)
      PROVE  AuditInv'
  BY <1>4 DEF CreateUser, AuditInv, Members
<1>5. ASSUME NEW user \in User, NEW i \in DOMAIN invitations, AcceptInvitation(user, i)
      PROVE  AuditInv'
  <2>1. Members' # {}
    <3>1. Members # {}
      BY DEF MemberInv
    <3>2. roles' = roles \/ roles' = WithRole(roles, user, invitations[i].role)
      BY <1>5 DEF AcceptInvitation, Commit, AcceptEntry, Entry, AfterEntry
    <3> QED BY <3>1, <3>2 DEF WithRole, Members
  <2> QED BY <1>5, <2>1, AcceptKeeps
<1>6. ASSUME NEW i \in DOMAIN invitations, ExpireInvitation(i)
      PROVE  AuditInv'
  <2>1. /\ DOMAIN invitations' = DOMAIN invitations
        /\ \A j \in DOMAIN invitations :
              /\ invitations'[j].email = invitations[j].email
              /\ invitations'[j].role = invitations[j].role
              /\ invitations[j].status = "accepted" => invitations'[j].status = "accepted"
    <3>1. \A j \in DOMAIN invitations : invitations[j] \in Invitation
      BY DEF MemberInv
    <3> QED BY <1>6, <3>1 DEF ExpireInvitation, Invitation
  <2>2. Recorded(audit, invitations') /\ UsedOnce(audit, invitations')
    BY <2>1, SameInvitations DEF AuditInv
  <2> QED BY <1>6, <2>2 DEF ExpireInvitation, AuditInv, Members
<1>7. ASSUME NEW actor \in accounts, NEW user \in User, NEW role \in Role \cup {"none"},
             NEW action \in {"add", "update", "remove"},
             Commit(Entry(action, actor, user, role, "success")),
             MayDo(actor, "member:manage"), UNCHANGED <<invitations, refused>>, Members' # {}
      PROVE  AuditInv'
  <2> DEFINE entry == Entry(action, actor, user, role, "success")
  <2>1. entry \in AuditEntry /\ entry.action # "accept" /\ entry.actor = actor
    BY <1>0, <1>7 DEF Entry, AuditEntry
  <2> HIDE DEF entry
  <2>2. Members # {} /\ Commit(entry)
    BY <1>7 DEF MayDo, entry
  <2> QED BY <1>7, <2>1, <2>2, ManagerKeeps
<1>8. ASSUME NEW actor \in accounts, NEW user \in User, NEW role \in GrantedRole,
             \/ AddProjectMember(actor, user, role) \/ UpdateProjectMember(actor, user, role)
      PROVE  AuditInv'
  <2>1. Members' # {}
    BY <1>8 DEF AddProjectMember, UpdateProjectMember, Commit, Entry, AfterEntry, WithRole,
                Members
  <2>2. role \in Role \cup {"none"} /\ UNCHANGED <<invitations, refused>>
    BY <1>0, <1>8 DEF AddProjectMember, UpdateProjectMember
  <2>3. CASE AddProjectMember(actor, user, role)
    BY <1>7, <2>1, <2>2, <2>3 DEF AddProjectMember, CanAdd
  <2>4. CASE UpdateProjectMember(actor, user, role)
    BY <1>7, <2>1, <2>2, <2>4 DEF UpdateProjectMember, CanChange
  <2> QED BY <1>8, <2>3, <2>4
<1>9. ASSUME NEW actor \in accounts, NEW user \in User, RemoveProjectMember(actor, user)
      PROVE  AuditInv'
  <2>1. /\ user \in Members /\ NotLastOwnerChange(user, "none")
        /\ roles' = Without(roles, user)
    BY <1>9 DEF RemoveProjectMember, CanChange, Commit, AfterEntry, Entry
  <2>2. Members' # {}
    BY <2>1, ChangedMemberKeepsOwner DEF Role
  <2> QED BY <1>7, <1>9, <2>2 DEF RemoveProjectMember, CanChange
<1>10. ASSUME NEW actor \in accounts, NEW user \in User, RefuseMemberChange(actor, user)
       PROVE  AuditInv'
  <2>1. ASSUME NEW role \in GrantedRole \cup {"none"}, NEW action \in {"add", "update", "remove"}
        PROVE  /\ Entry(action, actor, user, role, "failure") \in AuditEntry
               /\ Entry(action, actor, user, role, "failure").outcome = "failure"
               /\ Entry(action, actor, user, role, "failure").action # "accept"
    BY <1>0, <2>1 DEF Entry, AuditEntry
  <2>2. \E role \in GrantedRole \cup {"none"}, action \in {"add", "update", "remove"} :
            refused' = refused \cup {Entry(action, actor, user, role, "failure")}
    BY <1>10 DEF RefuseMemberChange
  <2> QED BY <1>10, <2>1, <2>2 DEF RefuseMemberChange, AuditInv, Members
<1>11. ASSUME NEW actor \in accounts, NEW user \in User, NEW role \in GrantedRole,
              CreateInvitation(actor, user, role)
       PROVE  AuditInv'
  <2>1. Members' # {}
    BY <1>11 DEF CreateInvitation, MayDo, Commit, AfterEntry, Entry, Members
  <2>2. actor \in User /\ role \in Role
    BY <1>0
  <2> QED BY <1>11, <2>1, <2>2, InviteKeeps
<1> QED
  BY <1>1, <1>2, <1>3, <1>4, <1>5, <1>6, <1>8, <1>9, <1>10, <1>11 DEF MemberNext

LEMMA AuditInvTells == AuditInv => AuditIsTrue
<1> SUFFICES ASSUME AuditInv PROVE AuditIsTrue
  OBVIOUS
<1>1. AuditTellsRoles
  BY DEF AuditInv, AuditTellsRoles, RolesAfter, RolesIn
<1>2. AuditIsAuthorised
  <2> USE DEF AuditIsAuthorised
  <2>1. /\ audit \in Seq(AuditEntry) /\ DOMAIN audit = 1..Len(audit)
        /\ \A i \in DOMAIN audit : audit[i] \in AuditEntry
    BY DEF AuditInv
  <2> TAKE n \in { i \in DOMAIN audit : audit[i].outcome = "success" }
  <2>2. Authorised(audit, n - 1, audit[n])
    BY <2>1 DEF AuditInv, LogAuthorised
  <2>3. RolesAfter(n - 1) = RolesIn(audit, n - 1)
    BY DEF RolesAfter, RolesIn
  <2> DEFINE entry == audit[n]
             accepting == { i \in 1..(n - 1) : audit[i].action = "accept"
                                                /\ audit[i].invitation = entry.invitation }
  <2>5. CASE entry.action = "accept"
    <3>1. accepting = {}
      BY <2>2, <2>5 DEF Authorised, Accepted
    <3>2. \E i \in 1..(n - 1) : audit[i] = [audit[i] EXCEPT
              !.action = "invite", !.target = entry.actor, !.role = entry.role,
              !.invitation = entry.invitation, !.outcome = "success"]
      <4>1. PICK i \in 1..(n - 1) :
                    Invites(audit, i, entry.invitation, entry.actor, entry.role)
        BY <2>2, <2>5 DEF Authorised
      <4>2. audit[i] = [audit[i] EXCEPT
                !.action = "invite", !.target = entry.actor, !.role = entry.role,
                !.invitation = entry.invitation, !.outcome = "success"]
        <5>1. audit[i] \in AuditEntry
          BY <2>1
        <5> HIDE DEF entry
        <5> QED BY <4>1, <5>1 DEF Invites, AuditEntry
      <4> QED BY <4>2
    <3> QED BY <2>5, <3>1, <3>2
  <2>6. CASE entry.action # "accept"
    <3>1. entry.actor \in DOMAIN RolesAfter(n - 1)
          /\ HasPermission(RolesAfter(n - 1)[entry.actor], "member:manage")
      BY <2>2, <2>3, <2>6 DEF Authorised
    <3> QED BY <2>6, <3>1
  <2> QED BY <2>5, <2>6
<1> QED BY <1>1, <1>2 DEF AuditIsTrue

\* The audit log tells who has which role, and each entry in it that succeeded was made by
\* somebody who managed the members at the time, or by whom it invited, once
\* (app/workspace_service.py, accept_project_invitation).
THEOREM AuditIsTrueHolds == ReviewSpec => []AuditIsTrue
<1>1. ReviewInit => AuditInv
  BY AuditInvInit DEF ReviewInit
<1>2. ReviewInv /\ AuditInv /\ [ReviewNext]_reviewVars => AuditInv'
  <2> SUFFICES ASSUME ReviewInv, AuditInv, [ReviewNext]_reviewVars PROVE AuditInv'
    OBVIOUS
  <2>1. [MemberNext]_memberVars
    BY DEF ReviewNext, reviewVars, CreateReviewRequest, ApproveReviewRequest,
           RequestReviewChanges, CommentOnReviewRequest, Decide, ApplyReviewRequest,
           EditDocument, DeleteDocument, RestoreDocument, WriteEvent
  <2>2. MemberInv
    BY DEF ReviewInv
  <2> QED BY <2>1, <2>2, AuditInvNext
<1> QED BY <1>1, <1>2, ReviewInvariant, AuditInvTells, PTL DEF ReviewSpec

-----------------------------------------------------------------------------
(* The comments.                                                           *)

Thread ==
    [ document : Document, event : Events \cup {NoEvent}, status : {"open", "resolved"},
      resolved_by : SUBSET User, comments : Seq(User) ]

TeamInv ==
    /\ ReviewInv
    /\ threads \in Seq(Thread)
    /\ AnchorsBelong

\* No write takes an event away from a document.
LEMMA EventsStay ==
    ASSUME ReviewInv, [ReviewNext]_reviewVars
    PROVE  \A d \in Document : Version(d)' \in Nat /\ Version(d) <= Version(d)'
<1>1. ReviewInv'
  BY ReviewInvNext
<1> SUFFICES ASSUME NEW d \in Document PROVE Version(d) <= Version(d)'
  BY <1>1 DEF ReviewInv, EventsTyped
<1>2. events \in [Document -> Seq(EventOf)] /\ Version(d) \in Nat
  BY DEF ReviewInv, EventsTyped
<1>3. CASE UNCHANGED events
  BY <1>2, <1>3 DEF Version
<1>4. ASSUME NEW e \in Document, NEW kind, WriteEvent(e, kind)
      PROVE  Version(d) <= Version(d)'
  BY <1>2, <1>4 DEF WriteEvent, Version
<1>5. ASSUME NEW actor, NEW r \in DOMAIN reviews, ApplyReviewRequest(actor, r)
      PROVE  Version(d) <= Version(d)'
  BY <1>2, <1>5 DEF ApplyReviewRequest, Version
<1>6. ASSUME NEW actor, NEW e \in Document,
             EditDocument(actor, e) \/ DeleteDocument(actor, e) \/ RestoreDocument(actor, e)
      PROVE  Version(d) <= Version(d)'
  BY <1>4, <1>6 DEF EditDocument, DeleteDocument, RestoreDocument
<1>7. ASSUME NEW actor, NEW r \in DOMAIN reviews,
             \/ ApproveReviewRequest(actor, r) \/ RequestReviewChanges(actor, r)
             \/ CommentOnReviewRequest(actor, r) \/ ApplyReviewRequest(actor, r)
      PROVE  Version(d) <= Version(d)'
  BY <1>3, <1>5, <1>7 DEF ApproveReviewRequest, RequestReviewChanges,
     CommentOnReviewRequest, Decide
<1>8. ASSUME NEW actor, CreateReviewRequest(actor)
      PROVE  Version(d) <= Version(d)'
  BY <1>3, <1>8 DEF CreateReviewRequest
<1> QED
  BY <1>3, <1>6, <1>7, <1>8 DEF ReviewNext, reviewVars

LEMMA TeamInvInit == TeamInit => TeamInv
BY ReviewInvInit DEF TeamInit, TeamInv, AnchorsBelong

LEMMA TeamInvNext == TeamInv /\ [TeamNext]_teamVars => TeamInv'
<1> SUFFICES ASSUME TeamInv, [TeamNext]_teamVars PROVE TeamInv'
  OBVIOUS
<1>0. [ReviewNext]_reviewVars
  BY DEF TeamNext, teamVars
<1>1. ReviewInv'
  BY <1>0, ReviewInvNext DEF TeamInv
<1>2. \A event : IsEvent(event) => IsEvent(event)'
  <2>1. \A d \in Document : Version(d) \in Nat /\ Version(d)' \in Nat /\ Version(d) <= Version(d)'
    BY <1>0, EventsStay DEF TeamInv, ReviewInv, EventsTyped
  <2>2. \A event \in Events : event[1] \in Document /\ event[2] \in Nat
    BY ReviewAssumption DEF Events
  <2> QED BY <2>1, <2>2 DEF IsEvent, Events
<1>3. CASE UNCHANGED threads
  BY <1>1, <1>2, <1>3 DEF TeamInv, AnchorsBelong
<1>4. ASSUME NEW actor \in Members, NEW d \in Document, NEW event \in Events \cup {NoEvent},
             CreateCommentThread(actor, d, event)
      PROVE  threads' \in Seq(Thread) /\ AnchorsBelong'
  <2> DEFINE new == [ document |-> d, event |-> event, status |-> "open",
                      resolved_by |-> {}, comments |-> <<actor>> ]
  <2>1. new \in Thread
    BY MemberIsUser DEF Thread, TeamInv, ReviewInv
  <2>2. threads' = Append(threads, new)
    BY <1>4 DEF CreateCommentThread
  <2>3. new.event # NoEvent => IsEvent(new.event) /\ new.event[1] = new.document
    BY <1>4 DEF CreateCommentThread, ValidAnchor
  <2>4. \A t \in DOMAIN threads' :
            (t \in DOMAIN threads /\ threads'[t] = threads[t]) \/ threads'[t] = new
    BY <2>1, <2>2 DEF TeamInv
  <2> QED BY <1>2, <2>1, <2>2, <2>3, <2>4 DEF TeamInv, AnchorsBelong
<1>5. ASSUME NEW actor \in Members, NEW t \in DOMAIN threads,
             \/ AddComment(actor, t) \/ ResolveCommentThread(actor, t)
             \/ ReopenCommentThread(actor, t)
      PROVE  threads' \in Seq(Thread) /\ AnchorsBelong'
  <2>1. actor \in User /\ threads[t] \in Thread
    BY MemberIsUser DEF TeamInv, ReviewInv
  <2>2. PICK thread \in Thread :
            /\ thread.event = threads[t].event /\ thread.document = threads[t].document
            /\ threads' = [threads EXCEPT ![t] = thread]
    <3>1. CASE AddComment(actor, t)
      <4> DEFINE thread == [threads[t] EXCEPT !.comments = Append(@, actor)]
      <4>0. threads[t].comments \in Seq(User)
        BY <2>1 DEF Thread
      <4>1. Append(threads[t].comments, actor) \in Seq(User)
        BY <2>1, <4>0
      <4>2. thread \in Thread
        BY <2>1, <4>1 DEF Thread
      <4>3. threads' = [threads EXCEPT ![t] = thread]
        BY <3>1 DEF AddComment
      <4>4. thread.event = threads[t].event /\ thread.document = threads[t].document
        BY <2>1 DEF Thread
      <4> QED BY <4>2, <4>3, <4>4
    <3>2. CASE ResolveCommentThread(actor, t)
      <4> DEFINE thread == [threads[t] EXCEPT !.status = "resolved", !.resolved_by = {actor}]
      <4>1. thread \in Thread /\ threads' = [threads EXCEPT ![t] = thread]
        BY <2>1, <3>2 DEF ResolveCommentThread, Thread
      <4>2. thread.event = threads[t].event /\ thread.document = threads[t].document
        BY <2>1 DEF Thread
      <4> QED BY <4>1, <4>2
    <3>3. CASE ReopenCommentThread(actor, t)
      <4> DEFINE thread == [threads[t] EXCEPT !.status = "open", !.resolved_by = {}]
      <4>1. thread \in Thread /\ threads' = [threads EXCEPT ![t] = thread]
        BY <2>1, <3>3 DEF ReopenCommentThread, Thread
      <4>2. thread.event = threads[t].event /\ thread.document = threads[t].document
        BY <2>1 DEF Thread
      <4> QED BY <4>1, <4>2
    <3> QED BY <1>5, <3>1, <3>2, <3>3
  <2>3. threads' \in Seq(Thread)
    BY <2>2 DEF TeamInv
  <2>4. \A i \in DOMAIN threads' : i \in DOMAIN threads
            /\ threads'[i].event = threads[i].event /\ threads'[i].document = threads[i].document
    BY <2>2 DEF TeamInv
  <2> QED BY <1>2, <2>3, <2>4 DEF TeamInv, AnchorsBelong
<1> QED BY <1>1, <1>3, <1>4, <1>5 DEF TeamNext, TeamInv, teamVars

\* The event of a thread exists and is one of its document: what create_comment_thread
\* has checked stays so.
THEOREM AnchorsBelongHolds == TeamSpec => []AnchorsBelong
<1>1. TeamInv => AnchorsBelong
  BY DEF TeamInv
<1> QED BY <1>1, TeamInvInit, TeamInvNext, PTL DEF TeamSpec

-----------------------------------------------------------------------------
(* The inductive invariant.                                                *)

SessionRow ==
    [ user : Person, family : Nat, replaces : Nat, oidc_state : Nat,
      revoked : BOOLEAN, expired : BOOLEAN,
      refresh : {"usable", "used", "revoked", "expired"} ]

\* The family of a session is the number of the login's first session, and what
\* has been rotated out of it is used up.
Families ==
    /\ sessions \in Seq(SessionRow)
    /\ \A i \in DOMAIN sessions :
        sessions[i].family \in 1..i /\ sessions[i].replaces \in 0..(i - 1)

\* A state that a callback is at, or a session came from, is used; and it is one
\* or the other, once.
StatesSpent ==
    /\ oidc_states \in Seq({"pending", "used", "expired"})
    /\ \A c \in callbacks : c.state \in DOMAIN oidc_states /\ oidc_states[c.state] = "used"
    /\ \A c, d \in callbacks : c.state = d.state => c = d
    /\ \A i \in DOMAIN sessions : sessions[i].oidc_state # 0 =>
        /\ sessions[i].oidc_state \in DOMAIN oidc_states
        /\ oidc_states[sessions[i].oidc_state] = "used"
        /\ \A c \in callbacks : c.state # sessions[i].oidc_state

People ==
    /\ users \subseteq Person /\ credentials \subseteq users
    /\ DOMAIN identities \subseteq Person
    /\ \A x \in DOMAIN identities : identities[x] \in users
    /\ \A i \in DOMAIN sessions : sessions[i].user \in users
    /\ \A c \in callbacks : c.subject \in Person /\ c.email \in Person

SessionInv ==
    Families /\ StatesSpent /\ People /\ OnlyNewestLives /\ OneSessionPerLogin

-----------------------------------------------------------------------------
(* What the operations make of the list of sessions.                       *)

\* A login appends a session of a family of its own, with an OIDC state that no
\* session has; the families of the others are as they were.
LEMMA LogInKeeps ==
    ASSUME Families, OnlyNewestLives, OneSessionPerLogin,
           NEW user \in Person, NEW state \in Nat, LogIn(user, state),
           state # 0 => \A i \in DOMAIN sessions : sessions[i].oidc_state # state
    PROVE  Families' /\ OnlyNewestLives' /\ OneSessionPerLogin'
<1> DEFINE new == Issued(user, Len(sessions) + 1, 0, state)
<1>1. sessions \in Seq(SessionRow) /\ Len(sessions) \in Nat
  BY DEF Families
<1>2. new \in SessionRow
  BY <1>1 DEF Issued, SessionRow
<1>3. sessions' = Append(sessions, new)
  BY DEF LogIn
<1> HIDE DEF new
<1>4. /\ sessions' \in Seq(SessionRow)
      /\ Len(sessions') = Len(sessions) + 1
      /\ DOMAIN sessions' = 1..(Len(sessions) + 1)
      /\ DOMAIN sessions = 1..Len(sessions)
      /\ \A i \in DOMAIN sessions : sessions'[i] = sessions[i]
      /\ sessions'[Len(sessions) + 1] = new
  BY <1>1, <1>2, <1>3
<1>5. /\ new.family = Len(sessions) + 1 /\ new.oidc_state = state /\ new.replaces = 0
      /\ ~new.revoked /\ new.refresh = "usable"
  BY DEF new, Issued
<1>6. \A i \in DOMAIN sessions :
        sessions[i].family \in 1..i /\ sessions[i].replaces \in 0..(i - 1)
  BY DEF Families
<1>7. Families'
  BY <1>1, <1>4, <1>5, <1>6 DEF Families
<1>8. EndsTogether'
  BY <1>1, <1>4, <1>5 DEF OnlyNewestLives, EndsTogether, RefreshUsable
<1>9. OnlyNewestLives'
  <2> SUFFICES ASSUME NEW i \in DOMAIN sessions', NEW j \in DOMAIN sessions', i < j,
                      sessions'[i].family = sessions'[j].family
               PROVE  sessions'[i].revoked /\ sessions'[i].refresh = "used"
    BY <1>8 DEF OnlyNewestLives
  <2>1. i \in DOMAIN sessions /\ i \in Nat /\ j \in Nat
    BY <1>1, <1>4
  <2>2. j \in DOMAIN sessions
    BY <1>1, <1>4, <1>5, <1>6, <2>1
  <2> QED BY <2>1, <2>2, <1>4 DEF OnlyNewestLives
<1>10. OneSessionPerLogin'
  BY <1>1, <1>4, <1>5 DEF OneSessionPerLogin
<1> QED BY <1>7, <1>9, <1>10

\* An operation that ends a session, or its token, or both, as logout and time do.
LEMMA EndingKeeps ==
    ASSUME Families, OnlyNewestLives, OneSessionPerLogin,
           NEW i \in DOMAIN sessions, NEW row \in SessionRow,
           sessions' = [sessions EXCEPT ![i] = row],
           row.family = sessions[i].family, row.oidc_state = sessions[i].oidc_state,
           row.replaces = sessions[i].replaces,
           sessions[i].revoked => row.revoked,
           sessions[i].refresh = "used" => row.refresh = "used",
           row.revoked => row.refresh # "usable"
    PROVE  Families' /\ OnlyNewestLives' /\ OneSessionPerLogin'
<1>1. sessions \in Seq(SessionRow)
  BY DEF Families
<1>2. /\ sessions' \in Seq(SessionRow) /\ DOMAIN sessions' = DOMAIN sessions
      /\ sessions'[i] = row
      /\ \A k \in DOMAIN sessions : k # i => sessions'[k] = sessions[k]
  BY <1>1
<1>3. Families'
  BY <1>1, <1>2 DEF Families
<1>4. EndsTogether'
  BY <1>1, <1>2 DEF OnlyNewestLives, EndsTogether, RefreshUsable
<1>5. OnlyNewestLives'
  BY <1>1, <1>2, <1>4 DEF OnlyNewestLives
<1>6. OneSessionPerLogin'
  BY <1>1, <1>2 DEF OneSessionPerLogin
<1> QED BY <1>3, <1>5, <1>6

\* The rotation: only the newest session of a login has a usable token.
LEMMA RefreshKeeps ==
    ASSUME Families, OnlyNewestLives, OneSessionPerLogin,
           NEW i \in DOMAIN sessions, RefreshSession(i)
    PROVE  Families' /\ OnlyNewestLives' /\ OneSessionPerLogin'
<1> DEFINE old == [sessions[i] EXCEPT !.refresh = "used", !.revoked = TRUE]
           new == Issued(sessions[i].user, sessions[i].family, i, 0)
           rotated == [sessions EXCEPT ![i] = old]
<1>1. sessions \in Seq(SessionRow) /\ Len(sessions) \in Nat /\ sessions[i] \in SessionRow /\ i \in Nat
  BY DEF Families
<1>2. old \in SessionRow /\ new \in SessionRow
  <2>1. old \in SessionRow
    BY <1>1 DEF SessionRow
  <2>2. new \in SessionRow
    BY <1>1 DEF SessionRow, Issued
  <2> QED BY <2>1, <2>2
<1>3. sessions' = Append(rotated, new)
  BY DEF RefreshSession, Rotated
<1>4. /\ old.family = sessions[i].family /\ old.oidc_state = sessions[i].oidc_state
      /\ old.replaces = sessions[i].replaces /\ old.revoked /\ old.refresh = "used"
      /\ new.family = sessions[i].family /\ new.oidc_state = 0 /\ new.replaces = i
      /\ ~new.revoked /\ new.refresh = "usable"
  BY <1>1 DEF SessionRow, Issued
<1> HIDE DEF old, new
<1>5. /\ rotated \in Seq(SessionRow) /\ Len(rotated) = Len(sessions)
      /\ rotated[i] = old
      /\ \A k \in DOMAIN sessions : k # i => rotated[k] = sessions[k]
  BY <1>1, <1>2
<1> HIDE DEF rotated
<1>6. /\ sessions' \in Seq(SessionRow)
      /\ DOMAIN sessions' = 1..(Len(sessions) + 1) /\ DOMAIN sessions = 1..Len(sessions)
      /\ sessions'[i] = old
      /\ \A k \in DOMAIN sessions : k # i => sessions'[k] = sessions[k]
      /\ sessions'[Len(sessions) + 1] = new
  BY <1>1, <1>2, <1>3, <1>5
<1>7. sessions[i].family \in 1..i /\ i \in 1..Len(sessions)
  BY <1>1 DEF Families
<1>8. Families'
  BY <1>1, <1>4, <1>6, <1>7 DEF Families
<1>9. EndsTogether'
  BY <1>1, <1>4, <1>6 DEF OnlyNewestLives, EndsTogether, RefreshUsable
<1>10. \A j \in DOMAIN sessions : i < j => sessions[j].family # sessions[i].family
  BY <1>1 DEF OnlyNewestLives, RefreshSession, RefreshUsable
<1>11. OnlyNewestLives'
  <2> SUFFICES ASSUME NEW j \in DOMAIN sessions', NEW k \in DOMAIN sessions', j < k,
                      sessions'[j].family = sessions'[k].family
               PROVE  sessions'[j].revoked /\ sessions'[j].refresh = "used"
    BY <1>9 DEF OnlyNewestLives
  <2>1. j \in DOMAIN sessions /\ j \in Nat /\ k \in Nat
    BY <1>1, <1>6
  <2>2. CASE j = i
    BY <2>2, <1>6, <1>4
  <2>3. CASE j # i /\ k = Len(sessions) + 1
    <3>1. sessions[j].family = sessions[i].family
      BY <2>1, <2>3, <1>4, <1>6
    <3>2. j < i
      BY <3>1, <2>1, <2>3, <1>10, <1>6, <1>1
    <3> QED BY <3>1, <3>2, <2>1, <2>3, <1>6 DEF OnlyNewestLives
  <2>4. CASE j # i /\ k # Len(sessions) + 1
    <3>1. k \in DOMAIN sessions
      BY <2>4, <1>6, <1>1
    <3>2. sessions'[k].family = sessions[k].family
      BY <3>1, <1>4, <1>6
    <3> QED BY <3>1, <3>2, <2>1, <2>4, <1>6 DEF OnlyNewestLives
  <2> QED BY <2>2, <2>3, <2>4
<1>12. OneSessionPerLogin'
  BY <1>1, <1>4, <1>6 DEF OneSessionPerLogin
<1> QED BY <1>8, <1>11, <1>12

-----------------------------------------------------------------------------
LEMMA SessionInvInit == SessionInit => SessionInv
BY DEF SessionInit, SessionInv, Families, StatesSpent, People, OnlyNewestLives, EndsTogether,
       OneSessionPerLogin

\* StatesSpent speaks of the OIDC states of sessions only.
LEMMA StatesSpentKept ==
    ASSUME Families, StatesSpent, UNCHANGED <<oidc_states, callbacks>>,
           \A i \in DOMAIN sessions' : sessions'[i].oidc_state # 0 =>
                \E j \in DOMAIN sessions : sessions'[i].oidc_state = sessions[j].oidc_state
    PROVE  StatesSpent'
BY DEF StatesSpent

\* People speaks of the users of sessions only.
LEMMA PeopleKept ==
    ASSUME Families, People, UNCHANGED <<users, credentials, identities, callbacks>>,
           \A i \in DOMAIN sessions' :
                \/ sessions'[i].user \in users
                \/ \E j \in DOMAIN sessions : sessions'[i].user = sessions[j].user
    PROVE  People'
BY DEF People

LEMMA SessionInvNext == SessionInv /\ [SessionNext]_sessionVars => SessionInv'
<1> SUFFICES ASSUME SessionInv, [SessionNext]_sessionVars
             PROVE  SessionInv'
  OBVIOUS
<1> USE DEF SessionInv
<1>0. sessions \in Seq(SessionRow) /\ Len(sessions) \in Nat
  BY DEF Families
<1>1. CASE UNCHANGED sessionVars
  BY <1>1 DEF sessionVars, Families, StatesSpent, People, OnlyNewestLives, EndsTogether,
              OneSessionPerLogin, RefreshUsable
<1>2. ASSUME NEW p \in Person, CreateAccount(p) \/ SignUp(p)
      PROVE  SessionInv'
  BY <1>2 DEF CreateAccount, SignUp, Families, StatesSpent, People, OnlyNewestLives,
              EndsTogether, OneSessionPerLogin, RefreshUsable
<1>3. ASSUME NEW p \in Person, LoginWithPassword(p)
      PROVE  SessionInv'
  <2>1. LogIn(p, 0)
    BY <1>3 DEF LoginWithPassword
  <2>2. Families' /\ OnlyNewestLives' /\ OneSessionPerLogin'
    BY <2>1, LogInKeeps
  <2>3. StatesSpent'
    <3>1. sessions' = Append(sessions, Issued(p, Len(sessions) + 1, 0, 0))
      BY <2>1 DEF LogIn
    <3>2. Issued(p, Len(sessions) + 1, 0, 0).oidc_state = 0
      BY DEF Issued
    <3>3. \A i \in DOMAIN sessions' : sessions'[i].oidc_state # 0 =>
            \E j \in DOMAIN sessions : sessions'[i].oidc_state = sessions[j].oidc_state
      BY <3>1, <3>2, <1>0
    <3> QED BY <3>3, <1>3, StatesSpentKept DEF LoginWithPassword
  <2>4. People'
    <3>1. sessions' = Append(sessions, Issued(p, Len(sessions) + 1, 0, 0)) /\ p \in users
      BY <2>1, <1>3 DEF LogIn, LoginWithPassword, People
    <3>2. Issued(p, Len(sessions) + 1, 0, 0).user = p
      BY DEF Issued
    <3>3. \A i \in DOMAIN sessions' :
            \/ sessions'[i].user \in users
            \/ \E j \in DOMAIN sessions : sessions'[i].user = sessions[j].user
      BY <3>1, <3>2, <1>0
    <3> QED BY <3>3, <1>3, PeopleKept DEF LoginWithPassword
  <2> QED BY <2>2, <2>3, <2>4
<1>4. ASSUME NEW i \in DOMAIN sessions, RefreshSession(i)
      PROVE  SessionInv'
  <2>1. Families' /\ OnlyNewestLives' /\ OneSessionPerLogin'
    BY <1>4, RefreshKeeps
  <2>2. StatesSpent' /\ People'
    <3> DEFINE old == [sessions[i] EXCEPT !.refresh = "used", !.revoked = TRUE]
               new == Issued(sessions[i].user, sessions[i].family, i, 0)
               rotated == [sessions EXCEPT ![i] = old]
    <3>1. sessions' = Append(rotated, new)
      BY <1>4 DEF RefreshSession, Rotated
    <3>2. sessions[i] \in SessionRow
      BY <1>0
    <3>3. /\ new.oidc_state = 0 /\ old.oidc_state = sessions[i].oidc_state
          /\ new.user = sessions[i].user /\ old.user = sessions[i].user
      BY <3>2 DEF Issued, SessionRow
    <3> HIDE DEF old, new
    <3>4. \A k \in DOMAIN sessions' : sessions'[k].oidc_state # 0 =>
            \E j \in DOMAIN sessions : sessions'[k].oidc_state = sessions[j].oidc_state
      BY <3>1, <3>3, <1>0
    <3>5. \A k \in DOMAIN sessions' :
            \E j \in DOMAIN sessions : sessions'[k].user = sessions[j].user
      BY <3>1, <3>3, <1>0
    <3> QED BY <3>4, <3>5, <1>4, StatesSpentKept, PeopleKept DEF RefreshSession
  <2> QED BY <2>1, <2>2
<1>5. ASSUME NEW i \in DOMAIN sessions, NEW row \in SessionRow,
             sessions' = [sessions EXCEPT ![i] = row],
             UNCHANGED <<users, credentials, identities, oidc_states, callbacks>>,
             row.family = sessions[i].family, row.oidc_state = sessions[i].oidc_state,
             row.replaces = sessions[i].replaces, row.user = sessions[i].user,
             sessions[i].revoked => row.revoked,
             sessions[i].refresh = "used" => row.refresh = "used",
             row.revoked => row.refresh # "usable"
      PROVE  SessionInv'
  <2>1. Families' /\ OnlyNewestLives' /\ OneSessionPerLogin'
    BY <1>5, EndingKeeps
  <2>2. \A k \in DOMAIN sessions' : sessions'[k].oidc_state # 0 =>
            \E j \in DOMAIN sessions : sessions'[k].oidc_state = sessions[j].oidc_state
    BY <1>0, <1>5
  <2>3. \A k \in DOMAIN sessions' :
            \E j \in DOMAIN sessions : sessions'[k].user = sessions[j].user
    BY <1>0, <1>5
  <2> QED BY <2>1, <2>2, <2>3, <1>5, StatesSpentKept, PeopleKept
<1>6. ASSUME NEW i \in DOMAIN sessions, LogoutSession(i)
      PROVE  SessionInv'
  <2> DEFINE row == [sessions[i] EXCEPT !.revoked = TRUE,
                        !.refresh = IF @ = "used" THEN @ ELSE "revoked"]
  <2>1. sessions[i] \in SessionRow
    BY <1>0
  <2>2. sessions' = [sessions EXCEPT ![i] = row]
    BY <1>0, <1>6, <2>1 DEF LogoutSession, SessionRow
  <2>3. /\ row \in SessionRow /\ row.family = sessions[i].family
        /\ row.oidc_state = sessions[i].oidc_state /\ row.revoked
        /\ row.replaces = sessions[i].replaces /\ row.user = sessions[i].user
        /\ sessions[i].refresh = "used" => row.refresh = "used"
        /\ row.refresh # "usable"
    BY <2>1 DEF SessionRow
  <2> HIDE DEF row
  <2> QED BY <2>2, <2>3, <1>5, <1>6 DEF LogoutSession
<1>7. ASSUME NEW i \in DOMAIN sessions, Expire(i)
      PROVE  SessionInv'
  <2> DEFINE row == IF ~sessions[i].expired THEN [sessions[i] EXCEPT !.expired = TRUE]
                    ELSE [sessions[i] EXCEPT !.refresh = IF @ = "usable" THEN "expired" ELSE @]
  <2>1. sessions[i] \in SessionRow
    BY <1>0
  <2>2. sessions' = [sessions EXCEPT ![i] = row]
    BY <1>0, <1>7, <2>1 DEF Expire, SessionRow
  <2>3. sessions[i].revoked => sessions[i].refresh # "usable"
    BY DEF OnlyNewestLives, EndsTogether, RefreshUsable
  <2>4. /\ row \in SessionRow /\ row.family = sessions[i].family
        /\ row.oidc_state = sessions[i].oidc_state /\ row.revoked = sessions[i].revoked
        /\ row.replaces = sessions[i].replaces /\ row.user = sessions[i].user
        /\ sessions[i].refresh = "used" => row.refresh = "used"
        /\ row.revoked => row.refresh # "usable"
    BY <2>1, <2>3 DEF SessionRow
  <2> HIDE DEF row
  <2> QED BY <2>2, <2>4, <1>5, <1>7 DEF Expire
<1>8. CASE CreateOidcLogin
  <2>1. oidc_states' = Append(oidc_states, "pending") /\ oidc_states \in Seq({"pending", "used", "expired"})
    BY <1>8 DEF CreateOidcLogin, StatesSpent
  <2>2. /\ oidc_states' \in Seq({"pending", "used", "expired"})
        /\ \A s \in DOMAIN oidc_states : s \in DOMAIN oidc_states' /\ oidc_states'[s] = oidc_states[s]
    BY <2>1
  <2>3. StatesSpent'
    BY <2>2, <1>8 DEF CreateOidcLogin, StatesSpent
  <2> QED BY <2>3, <1>8 DEF CreateOidcLogin, Families, People, OnlyNewestLives, EndsTogether,
                            OneSessionPerLogin, RefreshUsable
<1>9. ASSUME NEW s \in DOMAIN oidc_states, ExpireOidcState(s)
      PROVE  SessionInv'
  <2>1. StatesSpent'
    BY <1>9 DEF ExpireOidcState, StatesSpent
  <2> QED BY <2>1, <1>9 DEF ExpireOidcState, Families, People, OnlyNewestLives, EndsTogether,
                            OneSessionPerLogin, RefreshUsable
<1>10. ASSUME NEW s \in DOMAIN oidc_states, NEW subject \in Person, NEW email \in Person,
              BeginCallback(s, subject, email)
       PROVE  SessionInv'
  <2> DEFINE new == [state |-> s, subject |-> subject, email |-> email]
  <2>1. /\ callbacks' = callbacks \cup {new}
        /\ oidc_states[s] = "pending" /\ oidc_states' = [oidc_states EXCEPT ![s] = "used"]
        /\ UNCHANGED <<users, credentials, identities, sessions>>
    BY <1>10 DEF BeginCallback
  <2>2. new.state = s /\ new.subject = subject /\ new.email = email
    OBVIOUS
  <2> HIDE DEF new
  <2>3. StatesSpent'
    BY <2>1, <2>2 DEF StatesSpent
  <2>4. People'
    BY <2>1, <2>2 DEF People
  <2> QED BY <2>1, <2>3, <2>4 DEF Families, OnlyNewestLives, EndsTogether, OneSessionPerLogin,
                                  RefreshUsable
<1>11. ASSUME NEW c \in callbacks, FailCallback(c)
       PROVE  SessionInv'
  BY <1>11 DEF FailCallback, Families, StatesSpent, People, OnlyNewestLives, EndsTogether,
               OneSessionPerLogin, RefreshUsable
<1>12. ASSUME NEW c \in callbacks, FinishCallback(c)
       PROVE  SessionInv'
  <2> DEFINE user == IF c.subject \in DOMAIN identities THEN identities[c.subject] ELSE c.email
             new == Issued(user, Len(sessions) + 1, 0, c.state)
  <2>1. /\ user \in Person /\ c.subject \in Person
        /\ users' = users \cup {user} /\ callbacks' = callbacks \ {c}
        /\ credentials' = credentials
        /\ identities' = [x \in DOMAIN identities \cup {c.subject} |->
                            IF x = c.subject THEN user ELSE identities[x]]
    BY <1>12 DEF FinishCallback, People
  <2>2. c.state \in DOMAIN oidc_states /\ c.state \in Nat /\ oidc_states[c.state] = "used"
    BY DEF StatesSpent
  <2>3. LogIn(user, c.state)
    BY <1>12 DEF FinishCallback
  <2> HIDE DEF user
  <2>5. Families' /\ OnlyNewestLives' /\ OneSessionPerLogin'
    BY <2>1, <2>2, <2>3, LogInKeeps DEF StatesSpent
  <2>6. sessions' = Append(sessions, new) /\ new.oidc_state = c.state /\ new.user = user
    BY <2>3 DEF LogIn, Issued
  <2> HIDE DEF new
  <2>7. \A i \in DOMAIN sessions' :
            \/ i \in DOMAIN sessions /\ sessions'[i] = sessions[i]
            \/ sessions'[i].oidc_state = c.state /\ sessions'[i].user = user
    BY <2>6, <1>0
  <2>8. StatesSpent'
    BY <2>2, <2>7, <1>12 DEF FinishCallback, StatesSpent
  <2>9. People'
    BY <2>1, <2>7 DEF People
  <2> QED BY <2>5, <2>8, <2>9
<1> QED
  BY <1>1, <1>2, <1>3, <1>4, <1>6, <1>7, <1>8, <1>9, <1>10, <1>11, <1>12 DEF SessionNext

THEOREM SessionInvariant == SessionSpec => []SessionInv
BY SessionInvInit, SessionInvNext, PTL DEF SessionSpec

\* Accounts, sessions and identities refer to users that exist, and sessions to the
\* earlier ones they replace.
THEOREM SessionTypeCorrect == SessionSpec => []SessionTypeOK
<1>1. SessionInv => SessionTypeOK
  <2> SUFFICES ASSUME SessionInv PROVE SessionTypeOK
    OBVIOUS
  <2>1. \A i \in DOMAIN sessions : sessions[i] \in SessionRow
    BY DEF SessionInv, Families
  <2> QED BY <2>1 DEF SessionInv, Families, People, SessionTypeOK, SessionRow
<1> QED BY <1>1, SessionInvariant, PTL

\* However often a login is renewed (refresh_session), only its newest session and
\* refresh token are of use, and the two end together (logout_session).
THEOREM OnlyNewestLivesHolds == SessionSpec => []OnlyNewestLives
<1>1. SessionInv => OnlyNewestLives
  BY DEF SessionInv
<1> QED BY <1>1, SessionInvariant, PTL

\* An OIDC state that complete_oidc_callback marks as used gives at most one session.
THEOREM OneSessionPerLoginHolds == SessionSpec => []OneSessionPerLogin
<1>1. SessionInv => OneSessionPerLogin
  BY DEF SessionInv
<1> QED BY <1>1, SessionInvariant, PTL

-----------------------------------------------------------------------------
\* A step that revives no session of a family that has ended and adds none to it.
LEMMA EndedStaysIf ==
    ASSUME NEW i \in DOMAIN sessions, Ended(sessions[i].family),
           i \in DOMAIN sessions', sessions'[i].family = sessions[i].family,
           \A k \in DOMAIN sessions' :
                \/ sessions'[k].family # sessions[i].family
                \/ /\ k \in DOMAIN sessions
                   /\ sessions'[k].family = sessions[k].family
                   /\ ~SessionAlive(k) => ~SessionAlive(k)'
                   /\ ~RefreshUsable(k) => ~RefreshUsable(k)'
    PROVE  Ended(sessions[i].family)'
BY DEF Ended

LEMMA EndedStays ==
    ASSUME SessionInv, SessionNext,
           NEW i \in DOMAIN sessions, Ended(sessions[i].family)
    PROVE  Ended(sessions[i].family)'
<1> DEFINE Goal == Ended(sessions[i].family)'
<1>0. /\ sessions \in Seq(SessionRow) /\ Len(sessions) \in Nat /\ DOMAIN sessions = 1..Len(sessions)
      /\ sessions[i].family \in 1..i /\ i \in 1..Len(sessions)
      /\ \A k \in DOMAIN sessions : sessions[k] \in SessionRow
  BY DEF SessionInv, Families
<1>1. CASE UNCHANGED sessions
  BY <1>1 DEF Ended, SessionAlive, RefreshUsable
<1>2. ASSUME NEW user, NEW state, LogIn(user, state)
      PROVE  Goal
  <2> DEFINE new == Issued(user, Len(sessions) + 1, 0, state)
  <2>1. sessions' = Append(sessions, new) /\ new.family = Len(sessions) + 1
    BY <1>2 DEF LogIn, Issued
  <2> HIDE DEF new
  <2>2. /\ DOMAIN sessions' = 1..(Len(sessions) + 1)
        /\ \A k \in DOMAIN sessions : sessions'[k] = sessions[k]
        /\ sessions'[Len(sessions) + 1].family = Len(sessions) + 1
    BY <2>1, <1>0
  <2>3. sessions[i].family # Len(sessions) + 1
    <3>1. sessions[i].family \in Nat
      BY <1>0 DEF SessionRow
    <3> QED BY <3>1, <1>0
  <2>4. \A k \in DOMAIN sessions' :
            \/ sessions'[k].family # sessions[i].family
            \/ k \in DOMAIN sessions /\ sessions'[k] = sessions[k]
    BY <2>2, <2>3, <1>0
  <2> QED BY <2>2, <2>4, <1>0, EndedStaysIf DEF SessionAlive, RefreshUsable
<1>3. ASSUME NEW j \in DOMAIN sessions, RefreshSession(j)
      PROVE  Goal
  <2> DEFINE old == [sessions[j] EXCEPT !.refresh = "used", !.revoked = TRUE]
             new == Issued(sessions[j].user, sessions[j].family, j, 0)
             rotated == [sessions EXCEPT ![j] = old]
  <2>1. sessions' = Append(rotated, new) /\ new.family = sessions[j].family
    BY <1>3 DEF RefreshSession, Rotated, Issued
  <2>2. sessions[j].family # sessions[i].family
    BY <1>3 DEF Ended, RefreshSession
  <2>3. old \in SessionRow /\ old.family = sessions[j].family
    <3>1. sessions[j] \in SessionRow
      BY <1>0
    <3> QED BY <3>1 DEF SessionRow
  <2> HIDE DEF old, new
  <2>4. /\ DOMAIN sessions' = 1..(Len(sessions) + 1)
        /\ \A k \in DOMAIN sessions : k # j => sessions'[k] = sessions[k]
        /\ sessions'[j] = old /\ sessions'[Len(sessions) + 1] = new
    <3>1. rotated \in Seq(SessionRow) /\ Len(rotated) = Len(sessions)
      BY <1>0, <2>3
    <3> QED BY <3>1, <2>1, <1>0
  <2>5. \A k \in DOMAIN sessions' :
            \/ sessions'[k].family # sessions[i].family
            \/ k \in DOMAIN sessions /\ sessions'[k] = sessions[k]
    BY <2>1, <2>2, <2>3, <2>4, <1>0
  <2>6. i \in DOMAIN sessions' /\ sessions'[i] = sessions[i]
    BY <2>2, <2>4, <1>0
  <2> QED BY <2>5, <2>6, EndedStaysIf DEF SessionAlive, RefreshUsable
<1>4. ASSUME NEW j \in DOMAIN sessions, NEW row \in SessionRow,
             sessions' = [sessions EXCEPT ![j] = row],
             row.family = sessions[j].family,
             sessions[j].revoked => row.revoked, sessions[j].expired => row.expired,
             sessions[j].refresh # "usable" => row.refresh # "usable"
      PROVE  Goal
  <2>1. /\ DOMAIN sessions' = DOMAIN sessions /\ sessions'[j] = row
        /\ \A k \in DOMAIN sessions : k # j => sessions'[k] = sessions[k]
    BY <1>4, <1>0
  <2>2. \A k \in DOMAIN sessions :
            /\ sessions'[k].family = sessions[k].family
            /\ ~SessionAlive(k) => ~SessionAlive(k)'
            /\ ~RefreshUsable(k) => ~RefreshUsable(k)'
    BY <2>1, <1>4 DEF SessionAlive, RefreshUsable
  <2> QED BY <2>1, <2>2, EndedStaysIf
<1>5. ASSUME NEW j \in DOMAIN sessions, LogoutSession(j)
      PROVE  Goal
  <2> DEFINE row == [sessions[j] EXCEPT !.revoked = TRUE,
                        !.refresh = IF @ = "used" THEN @ ELSE "revoked"]
  <2>1. sessions[j] \in SessionRow
    BY <1>0
  <2>2. sessions' = [sessions EXCEPT ![j] = row]
    BY <1>0, <1>5, <2>1 DEF LogoutSession, SessionRow
  <2>3. /\ row \in SessionRow /\ row.family = sessions[j].family
        /\ row.revoked /\ row.expired = sessions[j].expired /\ row.refresh # "usable"
    BY <2>1 DEF SessionRow
  <2> HIDE DEF row
  <2> QED BY <2>2, <2>3, <1>4
<1>6. ASSUME NEW j \in DOMAIN sessions, Expire(j)
      PROVE  Goal
  <2> DEFINE row == IF ~sessions[j].expired THEN [sessions[j] EXCEPT !.expired = TRUE]
                    ELSE [sessions[j] EXCEPT !.refresh = IF @ = "usable" THEN "expired" ELSE @]
  <2>1. sessions[j] \in SessionRow
    BY <1>0
  <2>2. sessions' = [sessions EXCEPT ![j] = row]
    BY <1>0, <1>6, <2>1 DEF Expire, SessionRow
  <2>3. /\ row \in SessionRow /\ row.family = sessions[j].family
        /\ row.revoked = sessions[j].revoked
        /\ sessions[j].expired => row.expired
        /\ sessions[j].refresh # "usable" => row.refresh # "usable"
    BY <2>1 DEF SessionRow
  <2> HIDE DEF row
  <2> QED BY <2>2, <2>3, <1>4
<1> QED
  BY <1>1, <1>2, <1>3, <1>5, <1>6
     DEF SessionNext, CreateAccount, SignUp, LoginWithPassword, CreateOidcLogin, ExpireOidcState,
         BeginCallback, FailCallback, FinishCallback

\* A login that has ended, by logout_session or by time, never comes back to life.
THEOREM EndedStaysEndedHolds == SessionSpec => EndedStaysEnded
<1>1. SessionInv /\ [SessionNext]_sessionVars =>
        [\A i \in DOMAIN sessions :
            Ended(sessions[i].family) => Ended(sessions[i].family)']_sessionVars
  BY EndedStays
<1> QED BY <1>1, SessionInvariant, PTL DEF SessionSpec, EndedStaysEnded

-----------------------------------------------------------------------------
(* Requests.                                                               *)

ApiToken == [user : Person, project : Project, revoked : BOOLEAN]

Window == [window : Nat, count : Nat \ {0}]

Received ==
    [ phase : {"received"}, credential : Credential, project : Project,
      valid_on_receipt : BOOLEAN ]

Authenticated ==
    [ phase : {"authenticated", "handled"}, credential : Credential, project : Project,
      valid_on_receipt : BOOLEAN, actor : Person ]

\* The credential was issued.
Known(c) ==
    IF c.type = "session" THEN c.number \in DOMAIN sessions ELSE c.number \in DOMAIN api_tokens

\* The count of a key in the current window includes all it got through since then; the
\* count of an earlier window, that the clock may come back to, only errs on the high side.
Counts ==
    /\ window \in Nat
    /\ DOMAIN windows \subseteq Credential
    /\ \A c \in DOMAIN windows : windows[c] \in Window
    /\ passed \in [Credential -> Nat]
    /\ \A c \in Credential : passed[c] > 0 =>
        c \in DOMAIN windows /\ windows[c].window = window /\ passed[c] <= windows[c].count

\* A credential that is good now was good when the request came in, as none comes back
\* to life.
RequestTrue ==
    request # NoRequest =>
        /\ request \in Received \cup Authenticated
        /\ Known(request.credential)
        /\ request \in Received => (Valid(request.credential) => request.valid_on_receipt)
        /\ request \in Authenticated =>
            /\ request.valid_on_receipt
            /\ request.actor = ActorOf(request.credential)
            /\ InScope(request.credential, request.project)

RequestInv ==
    SessionInv /\ api_tokens \in Seq(ApiToken) /\ Counts /\ WithinLimit /\ RequestTrue

-----------------------------------------------------------------------------
(* Sessions and API tokens stay, with their users and projects, and those   *)
(* that have ended stay so.                                                 *)

SessionsGoOn ==
    \A i \in DOMAIN sessions :
        /\ i \in DOMAIN sessions' /\ sessions'[i].user = sessions[i].user
        /\ SessionAlive(i)' => SessionAlive(i)

TokensGoOn ==
    \A t \in DOMAIN api_tokens :
        /\ t \in DOMAIN api_tokens'
        /\ api_tokens'[t].user = api_tokens[t].user
        /\ api_tokens'[t].project = api_tokens[t].project
        /\ api_tokens[t].revoked => api_tokens'[t].revoked

LEMMA SessionStepGoesOn ==
    ASSUME SessionInv, [SessionNext]_sessionVars PROVE SessionsGoOn
<1>0. /\ sessions \in Seq(SessionRow) /\ Len(sessions) \in Nat
      /\ \A i \in DOMAIN sessions : sessions[i] \in SessionRow
  BY DEF SessionInv, Families
<1>1. CASE UNCHANGED sessions
  BY <1>1 DEF SessionsGoOn, SessionAlive
<1>2. ASSUME NEW user, NEW state, LogIn(user, state)
      PROVE  SessionsGoOn
  BY <1>0, <1>2 DEF LogIn, SessionsGoOn, SessionAlive
<1>3. ASSUME NEW i \in DOMAIN sessions, NEW row \in SessionRow,
             sessions' = [sessions EXCEPT ![i] = row], row.user = sessions[i].user,
             sessions[i].revoked => row.revoked, sessions[i].expired => row.expired
      PROVE  SessionsGoOn
  BY <1>0, <1>3 DEF SessionsGoOn, SessionAlive
<1>4. ASSUME NEW i \in DOMAIN sessions, RefreshSession(i)
      PROVE  SessionsGoOn
  <2> DEFINE old == [sessions[i] EXCEPT !.refresh = "used", !.revoked = TRUE]
             new == Issued(sessions[i].user, sessions[i].family, i, 0)
             rotated == [sessions EXCEPT ![i] = old]
  <2>1. old \in SessionRow /\ old.user = sessions[i].user /\ old.revoked
    <3>1. sessions[i] \in SessionRow
      BY <1>0
    <3> QED BY <3>1 DEF SessionRow
  <2>2. sessions' = Append(rotated, new)
    BY <1>4 DEF RefreshSession, Rotated
  <2> HIDE DEF old, new
  <2>3. rotated \in Seq(SessionRow) /\ DOMAIN rotated = DOMAIN sessions
    BY <1>0, <2>1
  <2>4. \A k \in DOMAIN sessions :
            k \in DOMAIN sessions' /\ sessions'[k] = IF k = i THEN old ELSE sessions[k]
    BY <1>0, <2>2, <2>3
  <2> QED BY <2>1, <2>4 DEF SessionsGoOn, SessionAlive
<1>5. ASSUME NEW i \in DOMAIN sessions, LogoutSession(i)
      PROVE  SessionsGoOn
  <2> DEFINE row == [sessions[i] EXCEPT !.revoked = TRUE,
                        !.refresh = IF @ = "used" THEN @ ELSE "revoked"]
  <2>1. sessions[i] \in SessionRow
    BY <1>0
  <2>2. sessions' = [sessions EXCEPT ![i] = row]
    BY <1>0, <1>5, <2>1 DEF LogoutSession, SessionRow
  <2>3. /\ row \in SessionRow /\ row.user = sessions[i].user
        /\ row.revoked /\ row.expired = sessions[i].expired
    BY <2>1 DEF SessionRow
  <2> HIDE DEF row
  <2> QED BY <2>2, <2>3, <1>3
<1>6. ASSUME NEW i \in DOMAIN sessions, Expire(i)
      PROVE  SessionsGoOn
  <2> DEFINE row == IF ~sessions[i].expired THEN [sessions[i] EXCEPT !.expired = TRUE]
                    ELSE [sessions[i] EXCEPT !.refresh = IF @ = "usable" THEN "expired" ELSE @]
  <2>1. sessions[i] \in SessionRow
    BY <1>0
  <2>2. sessions' = [sessions EXCEPT ![i] = row]
    BY <1>0, <1>6, <2>1 DEF Expire, SessionRow
  <2>3. /\ row \in SessionRow /\ row.user = sessions[i].user
        /\ row.revoked = sessions[i].revoked
        /\ sessions[i].expired => row.expired
    BY <2>1 DEF SessionRow
  <2> HIDE DEF row
  <2> QED BY <2>2, <2>3, <1>3
<1> QED
  BY <1>1, <1>2, <1>4, <1>5, <1>6
     DEF SessionNext, sessionVars, CreateAccount, SignUp, LoginWithPassword, CreateOidcLogin,
         ExpireOidcState, BeginCallback, FailCallback, FinishCallback

\* The request is not disturbed by what happens to sessions, tokens and members.
LEMMA RequestStaysTrue ==
    ASSUME RequestTrue, SessionsGoOn, TokensGoOn, request' = request
    PROVE  RequestTrue'
<1> SUFFICES ASSUME request # NoRequest PROVE RequestTrue'
  BY DEF RequestTrue, NoRequest
<1>1. /\ request \in Received \cup Authenticated
      /\ Known(request.credential)
  BY DEF RequestTrue
<1>2. Known(request.credential)' /\ ActorOf(request.credential)' = ActorOf(request.credential)
  BY <1>1 DEF Known, ActorOf, SessionsGoOn, TokensGoOn
<1>3. Valid(request.credential)' => Valid(request.credential)
  BY <1>1 DEF Known, Valid, SessionsGoOn, TokensGoOn
<1>4. InScope(request.credential, request.project) =>
        InScope(request.credential, request.project)'
  <2>1. request.credential.type = "api_token" => request.credential.number \in DOMAIN api_tokens
    BY <1>1 DEF Known
  <2> QED BY <2>1 DEF InScope, TokensGoOn
<1> QED BY <1>1, <1>2, <1>3, <1>4 DEF RequestTrue

-----------------------------------------------------------------------------
(* The steps.                                                              *)

LEMMA RequestInvInit == AccountInit => RequestInv
<1> SUFFICES ASSUME AccountInit PROVE RequestInv
  OBVIOUS
<1>1. SessionInv
  BY SessionInvInit DEF AccountInit
<1>2. Counts /\ WithinLimit
  BY RequestsAssumption DEF AccountInit, Counts, WithinLimit
<1> QED BY <1>1, <1>2 DEF RequestInv, RequestTrue, AccountInit

\* The middleware counts a request before it lets it through.
LEMMA ReceiveKeeps ==
    ASSUME RequestInv, NEW c \in Credential, NEW project \in Project,
           Receive(c, project), UNCHANGED sessionVars
    PROVE  Counts' /\ WithinLimit' /\ RequestTrue'
<1>1. /\ Counts /\ WithinLimit /\ Limit \in Nat \ {0}
      /\ CountOf(c) \in Nat \ {0} /\ passed[c] < CountOf(c)
  BY RequestsAssumption DEF RequestInv, Counts, WithinLimit, CountOf, Window
<1>2. /\ window' = window
      /\ DOMAIN windows' = DOMAIN windows \cup {c}
      /\ windows'[c] = [window |-> window, count |-> CountOf(c)]
      /\ \A k \in DOMAIN windows : k # c => windows'[k] = windows[k]
  BY DEF Receive, Counted
<1>3. CASE CountOf(c) <= Limit
  <2>1. passed' = [passed EXCEPT ![c] = @ + 1]
    BY <1>3 DEF Receive
  <2>2. Counts'
    BY <1>1, <1>2, <2>1 DEF Counts, Window
  <2>3. WithinLimit'
    BY <1>1, <1>3, <2>1 DEF Counts, WithinLimit
  <2>4. request' = [ phase |-> "received", credential |-> c, project |-> project,
                     valid_on_receipt |-> Valid(c) ]
    BY <1>3 DEF Receive
  <2>5. Known(c)' /\ Valid(c)' = Valid(c) /\ Valid(c) \in BOOLEAN
    BY DEF Receive, Known, Valid, SessionAlive, sessionVars
  <2>6. request' \in Received /\ request' \notin Authenticated
    BY <2>4, <2>5 DEF Received, Authenticated
  <2> QED BY <2>2, <2>3, <2>4, <2>5, <2>6 DEF RequestTrue
<1>4. CASE ~(CountOf(c) <= Limit)
  <2>1. UNCHANGED <<request, passed>>
    BY <1>4 DEF Receive
  <2>2. Counts' /\ WithinLimit'
    BY <1>1, <1>2, <2>1 DEF Counts, WithinLimit, Window
  <2>3. request' = NoRequest
    BY <2>1 DEF Receive
  <2> QED BY <2>2, <2>3 DEF RequestTrue
<1> QED BY <1>3, <1>4

\* Steps that leave the limiter alone keep its counts.
LEMMA CountsKept ==
    ASSUME Counts, WithinLimit, UNCHANGED <<window, windows, passed>>
    PROVE  Counts' /\ WithinLimit'
BY DEF Counts, WithinLimit

LEMMA SessionsUnchanged == ASSUME UNCHANGED sessionVars PROVE SessionsGoOn
BY DEF SessionsGoOn, SessionAlive, sessionVars

LEMMA TokensUnchanged == ASSUME UNCHANGED api_tokens PROVE TokensGoOn
BY DEF TokensGoOn

LEMMA PipelineKeeps ==
    ASSUME RequestInv, PipelineNext, UNCHANGED sessionVars
    PROVE  api_tokens' \in Seq(ApiToken) /\ Counts' /\ WithinLimit' /\ RequestTrue'
<1> DEFINE Goal == api_tokens' \in Seq(ApiToken) /\ Counts' /\ WithinLimit' /\ RequestTrue'
<1>0. /\ api_tokens \in Seq(ApiToken) /\ Counts /\ WithinLimit /\ RequestTrue
      /\ \A i \in DOMAIN sessions : sessions[i].user \in Person
      /\ users \subseteq Person
  BY DEF RequestInv, SessionInv, People
<1>1. SessionsGoOn
  BY SessionsUnchanged
<1>2. ASSUME NEW user \in users, NEW project \in Project, CreateApiToken(user, project)
      PROVE  Goal
  <2> DEFINE new == [user |-> user, project |-> project, revoked |-> FALSE]
  <2>1. new \in ApiToken
    BY <1>0 DEF ApiToken
  <2>2. api_tokens' = Append(api_tokens, new)
    BY <1>2 DEF CreateApiToken
  <2> HIDE DEF new
  <2>3. api_tokens' \in Seq(ApiToken) /\ TokensGoOn
    BY <1>0, <2>1, <2>2 DEF TokensGoOn
  <2> QED BY <1>0, <1>1, <1>2, <2>3, CountsKept, RequestStaysTrue DEF CreateApiToken
<1>3. ASSUME NEW user \in users, NEW project \in Project, ChangeMembers(user, project)
      PROVE  Goal
  BY <1>0, <1>1, <1>3, CountsKept, TokensUnchanged, RequestStaysTrue DEF ChangeMembers
<1>4. ASSUME NEW c \in Credential, NEW project \in Project, Receive(c, project)
      PROVE  Goal
  <2>1. api_tokens' = api_tokens
    BY <1>4 DEF Receive
  <2> QED BY <1>0, <1>4, <2>1, ReceiveKeeps
<1>5. ASSUME NEW t \in DOMAIN api_tokens, RevokeApiToken(t)
      PROVE  Goal
  <2> DEFINE row == [api_tokens[t] EXCEPT !.revoked = TRUE]
  <2>1. api_tokens[t] \in ApiToken
    BY <1>0
  <2>2. /\ row \in ApiToken /\ row.revoked
        /\ row.user = api_tokens[t].user /\ row.project = api_tokens[t].project
    BY <2>1 DEF ApiToken
  <2>3. api_tokens' = [api_tokens EXCEPT ![t] = row]
    BY <1>5 DEF RevokeApiToken
  <2> HIDE DEF row
  <2>4. api_tokens' \in Seq(ApiToken) /\ TokensGoOn
    BY <1>0, <2>2, <2>3 DEF TokensGoOn
  <2> QED BY <1>0, <1>1, <1>5, <2>4, CountsKept, RequestStaysTrue DEF RevokeApiToken
<1>6. ASSUME NEW w \in {window + 1, 0}, MoveClock(w)
      PROVE  Goal
  <2>1. Counts' /\ WithinLimit'
    BY <1>0, <1>6, RequestsAssumption DEF MoveClock, Counts, WithinLimit
  <2> QED BY <1>0, <1>1, <1>6, <2>1, TokensUnchanged, RequestStaysTrue DEF MoveClock
<1>7. CASE Refuse
  <2>1. RequestTrue'
    BY <1>7 DEF Refuse, RequestTrue, NoRequest
  <2> QED BY <1>0, <1>7, <2>1, CountsKept DEF Refuse
<1>8. CASE Authenticate
  <2> DEFINE c == request.credential
  <2>1. request # NoRequest /\ request.phase = "received"
    BY <1>8 DEF Authenticate, NoRequest
  <2>2. request \in Received /\ Known(c) /\ request.valid_on_receipt
    BY <1>0, <1>8, <2>1 DEF RequestTrue, Received, Authenticated, Authenticate
  <2>3. ActorOf(c) \in Person
    <3>1. c.type = "session" => c.number \in DOMAIN sessions
      BY <2>2 DEF Known
    <3>2. c.type # "session" => api_tokens[c.number] \in ApiToken
      BY <2>2, <1>0 DEF Known
    <3> QED BY <3>1, <3>2, <1>0 DEF ActorOf, ApiToken
  <2>4. request' = [ phase |-> "authenticated", credential |-> c, project |-> request.project,
                     valid_on_receipt |-> request.valid_on_receipt, actor |-> ActorOf(c) ]
    BY <1>8 DEF Authenticate
  <2>5. request' \in Authenticated /\ request' \notin Received
    BY <2>2, <2>3, <2>4 DEF Received, Authenticated
  <2>6. /\ Known(c)' /\ ActorOf(c)' = ActorOf(c)
        /\ InScope(c, request.project)'
    BY <1>8, <2>2 DEF Authenticate, Known, ActorOf, InScope, sessionVars
  <2>7. RequestTrue'
    BY <2>2, <2>4, <2>5, <2>6 DEF RequestTrue
  <2> QED BY <1>0, <1>8, <2>7, CountsKept DEF Authenticate
<1>9. CASE Handle
  <2> DEFINE c == request.credential
  <2>1. request \in Authenticated /\ RequestTrue /\ request # NoRequest
    BY <1>0, <1>9 DEF Handle, RequestTrue, Received, NoRequest
  <2>2. /\ request' \in Authenticated /\ request' \notin Received
        /\ request'.credential = c /\ request'.project = request.project
        /\ request'.actor = request.actor /\ request'.valid_on_receipt = request.valid_on_receipt
    BY <1>9, <2>1 DEF Handle, Received, Authenticated
  <2>3. /\ Known(c)' /\ ActorOf(c)' = ActorOf(c)
        /\ InScope(c, request.project)'
    BY <1>9, <2>1 DEF Handle, RequestTrue, Known, ActorOf, InScope, sessionVars
  <2>4. RequestTrue'
    BY <2>1, <2>2, <2>3 DEF RequestTrue
  <2> QED BY <1>0, <1>9, <2>4, CountsKept DEF Handle
<1> QED
  BY <1>2, <1>3, <1>4, <1>5, <1>6, <1>7, <1>8, <1>9 DEF PipelineNext

LEMMA RequestInvNext == RequestInv /\ [AccountNext]_accountVars => RequestInv'
<1> SUFFICES ASSUME RequestInv, [AccountNext]_accountVars PROVE RequestInv'
  OBVIOUS
<1>1. [SessionNext]_sessionVars
  BY DEF AccountNext, accountVars
<1>2. SessionInv'
  BY <1>1, SessionInvNext DEF RequestInv
<1>3. CASE UNCHANGED pipelineVars
  <2>1. SessionsGoOn
    BY <1>1, SessionStepGoesOn DEF RequestInv
  <2> QED BY <1>2, <1>3, <2>1, TokensUnchanged, RequestStaysTrue, CountsKept
          DEF RequestInv, pipelineVars
<1>4. CASE PipelineNext /\ UNCHANGED sessionVars
  BY <1>2, <1>4, PipelineKeeps DEF RequestInv
<1> QED BY <1>3, <1>4 DEF AccountNext, accountVars

THEOREM RequestInvariant == AccountSpec => []RequestInv
BY RequestInvInit, RequestInvNext, PTL DEF AccountSpec

\* FixedWindowRateLimiter.check lets no more than the limit through for a key while the
\* clock is in one window.
THEOREM WithinLimitHolds == AccountSpec => []WithinLimit
<1>1. RequestInv => WithinLimit
  BY DEF RequestInv
<1> QED BY <1>1, RequestInvariant, PTL

\* What api_token_auth_middleware passes on is the user of a credential that was good
\* when the request came in, within the token's project.
THEOREM ActsAsAuthenticatedHolds == AccountSpec => []ActsAsAuthenticated
<1>1. RequestInv => ActsAsAuthenticated
  <2> SUFFICES ASSUME RequestTrue, request.phase = "handled" PROVE ActsAsAuthenticated
    BY DEF RequestInv, ActsAsAuthenticated
  <2>1. request \in Authenticated
    BY DEF RequestTrue, NoRequest, Received
  <2> QED BY <2>1 DEF RequestTrue, ActsAsAuthenticated, InScope, NoRequest
<1> QED BY <1>1, RequestInvariant, PTL
=============================================================================
