---------------------------- MODULE TextSession ----------------------------
(***************************************************************************)
(* One document's live text session (TextCollaborationManager in           *)
(* app/text_collaboration_service.py): clients join it, send operations    *)
(* made on the revision they last saw, and commit its text as the          *)
(* document's next version, while other save paths change the document.    *)
(*                                                                         *)
(* A WebSocket message is handled on the event loop without yielding, so   *)
(* one handler is one step, except that saves made in worker threads or    *)
(* other processes come between the three transactions of a commit.        *)
(*                                                                         *)
(* Characters are numbered as they are typed, so a text says which typed   *)
(* characters it holds and in which order.                                 *)
(***************************************************************************)
EXTENDS SessionState, FiniteSets

CONSTANTS
    Client,             \* WebSocket clients, each an actor of its own
    None,
    Failed,             \* a merge that is rejected
    InitialTexts,       \* content_text of version 1, one of these
    Bounds(_),          \* bounds on a document that begins with this text, see below
    Strategies(_),      \* the merge_strategy values (reject, auto) of commits on such a document
    Parses(_),          \* text: it is a JSON object or array
    Formatted(_),       \* text: content_text of the document saved from it
    AutoMerge(_, _, _)  \* content_text of the three-way merge, or Failed

VARIABLES
    contents,   \* content_text of every version; the last is current
    session,    \* the entry of _sessions, or None
    epoch,      \* how many sessions there have been
    view,       \* the session state each client last received, or None
    inflight,   \* the operation each client has sent and not seen answered
    commit,     \* the commit in progress, or None
    typed,      \* characters typed so far
    sent        \* operations sent so far: the source of client_operation_id

vars == <<contents, session, epoch, view, inflight, commit, typed, sent>>

\* Bounds on the document's versions, a session's revisions, the characters typed, the
\* operations sent, and the characters one operation removes.
MaxVersion == Bounds(contents[1]).version
MaxRevision == Bounds(contents[1]).revision
MaxTyped == Bounds(contents[1]).typed
MaxSent == Bounds(contents[1]).sent
MaxRange == Bounds(contents[1]).range

current_version == Len(contents)
current_text == contents[current_version]

-----------------------------------------------------------------------------
\* The session as join leaves it: created, or reset when the document's version
\* is not the one it was created from.
\* A mutant: a session once created is never reset.
MustResetOnce == session = None

MustReset == session = None \/ session.document_version # current_version
Joined == IF MustReset THEN NewSession(current_version, current_text) ELSE session
EpochJoined == IF MustReset THEN epoch + 1 ELSE epoch

\* What a text_session.state payload tells a client.
StateOf(s, at) == [epoch |-> at, revision |-> s.revision, text |-> s.text]

-----------------------------------------------------------------------------
Init ==
    /\ \E text \in InitialTexts : contents = <<text>>
    /\ session = None
    /\ epoch = 0
    /\ view = [c \in Client |-> None]
    /\ inflight = [c \in Client |-> None]
    /\ commit = None
    /\ typed = Len(contents[1])
    /\ sent = 0

\* text_session.join and its reply. A broadcast brings the same payload, and one
\* that comes late leaves the client as if it had joined back then.
Join(c) ==
    /\ commit = None
    /\ session' = Joined
    /\ epoch' = EpochJoined
    /\ view' = [view EXCEPT ![c] = StateOf(Joined, EpochJoined)]
    /\ UNCHANGED <<contents, inflight, commit, typed, sent>>

\* The operations a client can make on a text, typing at most one character.
Edits(text) ==
    LET fresh == <<typed + 1>>
    IN  { InsertText(i, fresh) : i \in 0..Len(text) }
        \cup { DeleteText(i, n) : i \in 0..(Len(text) - 1), n \in 1..MaxRange }
        \cup { ReplaceText(i, n, fresh) : i \in 0..(Len(text) - 1), n \in 1..MaxRange }

\* The client sends text_session.op; "seen" and "epoch" are what it was made on,
\* which the message does not carry.
Send(c, op) ==
    /\ view[c] # None
    /\ inflight[c] = None
    /\ WithinBounds(op, Len(view[c].text))
    /\ sent < MaxSent
    /\ typed + Len(op.text) <= MaxTyped
    /\ inflight' = [inflight EXCEPT ![c] =
        [ client |-> c, client_operation_id |-> sent + 1, base_revision |-> view[c].revision,
          op |-> op, seen |-> view[c].text, epoch |-> view[c].epoch ]]
    /\ typed' = typed + Len(op.text)
    /\ sent' = sent + 1
    /\ UNCHANGED <<contents, session, epoch, view, commit>>

\* A mutant: operations are taken while a commit waits for its save.
ApplyDuringCommit(c) ==
    /\ inflight[c] # None
    /\ Joined.revision < MaxRevision
    /\ session' = IF Accepts(Joined, inflight[c])
                  THEN Accepting(Joined, inflight[c], Transformed(Joined, inflight[c]))
                  ELSE Joined
    /\ epoch' = EpochJoined
    /\ UNCHANGED <<contents, view, inflight, commit, typed, sent>>

\* apply_operation, on a first delivery or a repeated one: the session is joined
\* first, which may reset it even when the operation is then refused.
ApplyOperation(c) ==
    /\ commit = None
    /\ inflight[c] # None
    /\ Joined.revision < MaxRevision
    /\ session' = IF Accepts(Joined, inflight[c])
                  THEN Accepting(Joined, inflight[c], Transformed(Joined, inflight[c]))
                  ELSE Joined
    /\ epoch' = EpochJoined
    /\ UNCHANGED <<contents, view, inflight, commit, typed, sent>>

\* The client has its answer, or gives up on it.
Settle(c) ==
    /\ inflight[c] # None
    /\ inflight' = [inflight EXCEPT ![c] = None]
    /\ UNCHANGED <<contents, session, epoch, view, commit, typed, sent>>

\* commit, up to the first unlock: the revision the client names, if it names one,
\* must be current.
BeginCommit(c, strategy, named) ==
    /\ commit = None
    /\ view[c] # None
    /\ session' = Joined
    /\ epoch' = EpochJoined
    /\ commit' = IF named => view[c].revision = Joined.revision
                 THEN [ stage |-> "captured", text |-> Joined.text,
                        base_version |-> Joined.document_version, strategy |-> strategy,
                        result_version |-> 0 ]
                 ELSE None
    /\ UNCHANGED <<contents, view, inflight, typed, sent>>

\* What update_document_content makes of the captured text, or Failed.
SavedText ==
    LET base == commit.base_version
    IN  IF ~Parses(commit.text) THEN Failed
        ELSE IF base = current_version THEN Formatted(commit.text)
        ELSE IF commit.strategy = "auto"
        THEN AutoMerge(contents[base], current_text, Formatted(commit.text))
        ELSE Failed

\* The save: on success the document has a new version; on any error the commit
\* ends and the session stays.
SaveCommit ==
    /\ commit # None
    /\ commit.stage = "captured"
    /\ current_version < MaxVersion
    /\ IF SavedText \notin {Failed, current_text}
       THEN /\ contents' = Append(contents, SavedText)
            /\ commit' = [commit EXCEPT !.stage = "saved",
                                        !.result_version = current_version + 1]
       ELSE /\ commit' = None
            /\ UNCHANGED contents
    /\ UNCHANGED <<session, epoch, view, inflight, typed, sent>>

\* The document is read again, and a session of the version saved is installed
\* with the text read.
FinishCommit ==
    /\ commit # None
    /\ commit.stage = "saved"
    /\ session' = NewSession(commit.result_version, current_text)
    /\ epoch' = epoch + 1
    /\ commit' = None
    /\ UNCHANGED <<contents, view, inflight, typed, sent>>

\* Another save path (the content endpoint, a rollback, offline sync) makes a new
\* version: a character more, or one less.
SaveElsewhere(text) ==
    /\ current_version < MaxVersion
    /\ text # current_text
    /\ Parses(text)
    /\ contents' = Append(contents, text)
    /\ typed' = typed + Cardinality(ToSet(text) \ ToSet(current_text))
    /\ typed' <= MaxTyped
    /\ UNCHANGED <<session, epoch, view, inflight, commit, sent>>

OtherTexts == {Append(current_text, typed + 1), Front(current_text)}

Next ==
    \/ \E c \in Client :
        \/ Join(c)
        \/ \E op \in Edits(IF view[c] = None THEN << >> ELSE view[c].text) : Send(c, op)
        \/ ApplyOperation(c)
        \/ Settle(c)
        \/ \E strategy \in Strategies(contents[1]), named \in BOOLEAN : BeginCommit(c, strategy, named)
    \/ SaveCommit
    \/ FinishCommit
    \/ \E text \in OtherTexts : SaveElsewhere(text)

Spec == Init /\ [][Next]_vars

-----------------------------------------------------------------------------
\* Whoever joins gets a session whose text is the text of its document version with
\* the accepted operations applied in order: a session that a commit installed while
\* somebody else saved (its version and its text read from different versions) is
\* reset before anybody edits it.
JoinedIsReplay ==
    Len(Joined.operations) = Joined.revision =>
        Joined.text = FoldLeft(LAMBDA text, accepted : ApplyText(text, accepted.op),
                               contents[Joined.document_version], Joined.operations)

\* A message delivered twice is applied once: no two operations of a session have
\* the same client and client_operation_id, as long as none was cut from its list.
AppliedOnce ==
    session # None /\ Len(session.operations) = session.revision =>
        \A i, j \in DOMAIN session.operations :
            LET a == session.operations[i]
                b == session.operations[j]
            IN  a.client = b.client /\ a.client_operation_id = b.client_operation_id => i = j

\* A commit loses no accepted operation: what it saves is still the session's text
\* when it replaces the session.
CommitLosesNoOperation ==
    commit # None => session # None /\ session.text = commit.text

\* The characters a message's author selected to be removed.
Chosen(message) == { message.seen[i] : i \in (message.op.index + 1)..EndOf(message.op) }

\* Nothing accepted since a message was made put back a character its author saw:
\* a repeat of an operation of an earlier session does.
NoneReturned(message) ==
    \A i \in DOMAIN Joined.operations :
        Joined.operations[i].server_revision > message.base_revision =>
            ToSet(Joined.operations[i].op.text) \cap ToSet(message.seen) = {}

\* An operation accepted in the session it was made in does to the session's text
\* what its author meant: the characters selected go, if they are still there, and
\* no other; the rest keeps its order; and what was typed stands after everything
\* the author saw before it and before everything the author saw after it.
Preserves(message, before, after) ==
    LET inserted == ToSet(message.op.text)
    IN  /\ IsInjective(after)
        /\ ToSet(after) = (ToSet(before) \ Chosen(message)) \cup inserted
        /\ \A i, j \in DOMAIN before, k, m \in DOMAIN after :
            i < j /\ before[i] = after[k] /\ before[j] = after[m] => k < m
        /\ \A i \in DOMAIN message.seen, j, k \in DOMAIN after :
            message.seen[i] = after[j] /\ after[k] \in inserted =>
                /\ i <= message.op.index => j < k
                /\ i > EndOf(message.op) => k < j

\* Preserves, for every operation made in the current session on a revision from
\* which the session still keeps every operation.
IntentionPreserved ==
    [][\A c \in Client :
        /\ ApplyOperation(c)
        /\ Accepts(Joined, inflight[c])
        /\ inflight[c].epoch = EpochJoined
        /\ inflight[c].base_revision >= Joined.revision - Len(Joined.operations)
        /\ IsInjective(Joined.text) /\ IsInjective(inflight[c].seen)
        /\ NoneReturned(inflight[c])
        => Preserves(inflight[c], Joined.text, session'.text)]_vars

\* An accepted operation removes only characters its author has seen: a stale
\* delete or replace is never applied to newly inserted text.
StaleEditsSpareUnseenText ==
    [][\A c \in Client :
        ApplyOperation(c) /\ Accepts(Joined, inflight[c])
        => ToSet(Joined.text) \ ToSet(session'.text) \subseteq ToSet(inflight[c].seen)]_vars
=============================================================================
