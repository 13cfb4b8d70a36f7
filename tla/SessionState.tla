--------------------------- MODULE SessionState ---------------------------
(***************************************************************************)
(* The state of one live text session (TextSession and                     *)
(* AcceptedTextOperation in app/text_collaboration_service.py) and what    *)
(* accepting an operation does to it; used by the server's module          *)
(* TextSession and by LiveText, which adds browsers and sockets.           *)
(***************************************************************************)
EXTENDS TextTransform, SequencesExt

CONSTANTS MAX_TEXT_SESSION_OPERATIONS, MAX_TEXT_OPERATION_LENGTH

ASSUME OperationsAssumption == MAX_TEXT_SESSION_OPERATIONS \in Nat \ {0}
ASSUME LengthAssumption == MAX_TEXT_OPERATION_LENGTH \in Nat \ {0}

\* The bound of _normalize_text_operation on what one operation removes and inserts.
WithinLength(op) ==
    /\ op.length <= MAX_TEXT_OPERATION_LENGTH
    /\ Len(op.text) <= MAX_TEXT_OPERATION_LENGTH

NewSession(version, text) ==
    [document_version |-> version, text |-> text, revision |-> 0, operations |-> << >>]

\* A mutant: only operations up to the message's revision are searched.
AlreadyAcceptedAndSeen(s, message) ==
    \E i \in DOMAIN s.operations :
        /\ s.operations[i].server_revision <= message.base_revision
        /\ s.operations[i].client = message.client
        /\ s.operations[i].client_operation_id = message.client_operation_id

\* _find_accepted_client_operation
AlreadyAccepted(s, message) ==
    \E i \in DOMAIN s.operations :
        /\ s.operations[i].client = message.client
        /\ s.operations[i].client_operation_id = message.client_operation_id

\* The incoming operation moved across every operation kept in the session that
\* was accepted after the revision it was made on.
Transformed(s, message) ==
    FoldLeft(LAMBDA op, accepted :
                IF op = Conflict \/ accepted.server_revision <= message.base_revision THEN op
                ELSE Transform(op, accepted.op),
             message.op, s.operations)

LastOf(seq, n) == SubSeq(seq, Larger(1, Len(seq) - n + 1), Len(seq))

\* The session after accepting the message as this operation.
Accepting(s, message, op) ==
    [s EXCEPT
        !.text = ApplyText(@, op),
        !.revision = @ + 1,
        !.operations = LastOf(
            Append(@, [ server_revision |-> s.revision + 1, client |-> message.client,
                        client_operation_id |-> message.client_operation_id, op |-> op ]),
            MAX_TEXT_SESSION_OPERATIONS)]

Accepts(s, message) ==
    LET op == Transformed(s, message)
    IN  /\ WithinLength(message.op)
        /\ ~AlreadyAccepted(s, message)
        /\ message.base_revision <= s.revision
        /\ op # Conflict
        /\ WithinBounds(op, Len(s.text))
=============================================================================
