------------------------ MODULE CollaborationProofs ------------------------
(***************************************************************************)
(* Theorems about those who work on a document at the same time:           *)
(* TextSession, what a live text session is at any time, and that it does  *)
(* to a text what an operation's author meant, however many clients edit,  *)
(* commit and save; and EditorPresence, for any number of tabs, sockets    *)
(* and requests, where a user whose tabs have all left is not listed,      *)
(* unless a request, an answer or a process was lost.                      *)
(***************************************************************************)
EXTENDS TextSession, EditorPresence, TextProofs

-----------------------------------------------------------------------------
(* The sessions of a document.                                             *)

SessionFields == {"document_version", "text", "revision", "operations"}

\* A session of a document with these contents. One whose version is not the last may
\* hold the text of another; it stays behind the document, and the next join resets it.
IsSessionOf(s, versions) ==
    /\ DOMAIN s = SessionFields
    /\ s.document_version \in 1..Len(versions)
    /\ s.revision \in Nat /\ IsSequence(s.operations) /\ Len(s.operations) <= s.revision
    /\ Len(s.operations) = s.revision =>
        /\ Distinct(s.operations)
        /\ s.document_version = Len(versions) =>
            s.text = Replay(versions[s.document_version], s.operations)

CommitFields == {"stage", "text", "base_version", "strategy", "result_version"}

SessionInv ==
    /\ IsSequence(contents) /\ Len(contents) >= 1
    /\ session # None => IsSessionOf(session, contents)
    /\ commit # None =>
        /\ DOMAIN commit = CommitFields
        /\ commit.stage = "saved" => commit.result_version \in 1..Len(contents)

LEMMA NewIsSession ==
    ASSUME NEW versions, NEW v \in 1..Len(versions), NEW text,
           v = Len(versions) => text = versions[v]
    PROVE  IsSessionOf(NewSession(v, text), versions)
<1> DEFINE s == NewSession(v, text)
<1>1. /\ DOMAIN s = SessionFields /\ s.document_version = v /\ s.text = text
      /\ s.revision = 0 /\ s.operations = << >>
    BY DEF NewSession, SessionFields
<1> HIDE DEF s
<1>2. IsSequence(<< >>) /\ Len(<< >>) = 0 /\ DOMAIN << >> = {}
    BY DEF IsSequence
<1>3. Distinct(<< >>)
    BY <1>2 DEF Distinct
<1>4. Replay(versions[v], << >>) = versions[v]
    BY ReplayNothing
<1>5. IsSessionOf(s, versions)
    BY <1>1, <1>2, <1>3, <1>4 DEF IsSessionOf
<1> QED
    BY <1>5 DEF s

\* What join gives a client is a session of the last version.
LEMMA JoinedIsSession ==
    ASSUME SessionInv
    PROVE  IsSessionOf(Joined, contents) /\ Joined.document_version = Len(contents)
<1>1. Len(contents) \in Nat /\ Len(contents) \in 1..Len(contents)
    BY DEF SessionInv, IsSequence
<1>2. CASE MustReset
    <2>1. Joined = NewSession(Len(contents), contents[Len(contents)])
        BY <1>2 DEF Joined, current_version, current_text
    <2>2. IsSessionOf(NewSession(Len(contents), contents[Len(contents)]), contents)
        BY <1>1, NewIsSession
    <2>3. NewSession(Len(contents), contents[Len(contents)]).document_version = Len(contents)
        BY DEF NewSession
    <2> QED
        BY <2>1, <2>2, <2>3
<1>3. CASE ~MustReset
    BY <1>3 DEF Joined, MustReset, SessionInv, current_version
<1> QED
    BY <1>2, <1>3

\* Accepting an operation goes on with the replay.
LEMMA AcceptingGoesOn ==
    ASSUME NEW s, NEW versions, IsSessionOf(s, versions), NEW message, NEW op,
           ~AlreadyAccepted(s, message)
    PROVE  IsSessionOf(Accepting(s, message, op), versions)
<1> DEFINE x == [ server_revision |-> s.revision + 1, client |-> message.client,
                  client_operation_id |-> message.client_operation_id, op |-> op ]
           more == Append(s.operations, x)
           last == LastOf(more, MAX_TEXT_SESSION_OPERATIONS)
           text == ApplyText(s.text, op)
           next == Accepting(s, message, op)
<1>0. /\ x.client = message.client /\ x.client_operation_id = message.client_operation_id
      /\ x.op = op
    OBVIOUS
<1>1. /\ DOMAIN next = SessionFields /\ next.document_version = s.document_version
      /\ next.text = text /\ next.revision = s.revision + 1 /\ next.operations = last
    BY DEF Accepting, IsSessionOf, SessionFields
<1> HIDE DEF x, text, next
<1>2. /\ s.revision \in Nat /\ IsSequence(s.operations) /\ Len(s.operations) \in Nat
      /\ Len(s.operations) <= s.revision
    BY DEF IsSessionOf, IsSequence
<1>3. /\ IsSequence(more) /\ Len(more) = Len(s.operations) + 1
      /\ DOMAIN more = 1..(Len(s.operations) + 1)
      /\ DOMAIN s.operations = 1..Len(s.operations)
      /\ \A i \in DOMAIN s.operations : more[i] = s.operations[i]
      /\ more[Len(s.operations) + 1] = x
    BY <1>2, SequenceGrows
<1> HIDE DEF more
<1>4. /\ IsSequence(last) /\ Len(last) <= Len(more)
      /\ Len(last) = Len(more) => last = more
    BY <1>3, OperationsAssumption, LastFacts
<1> HIDE DEF last
<1>5. Len(last) \in Nat /\ Len(last) <= s.revision + 1
      /\ (Len(last) = s.revision + 1 => last = more /\ Len(s.operations) = s.revision)
    <2> DEFINE n == Len(last)
               m == Len(s.operations)
    <2>1. n \in Nat /\ m \in Nat /\ n <= m + 1 /\ m <= s.revision /\ s.revision \in Nat
        BY <1>2, <1>3, <1>4 DEF IsSequence
    <2>2. n = m + 1 => last = more
        BY <1>3, <1>4
    <2> HIDE DEF n, m
    <2>3. n <= s.revision + 1 /\ (n = s.revision + 1 => n = m + 1 /\ m = s.revision)
        BY <2>1
    <2> QED
        BY <2>1, <2>2, <2>3 DEF n, m
<1>6. Distinct(s.operations) => Distinct(more)
    <2> SUFFICES ASSUME Distinct(s.operations),
                        NEW i \in 1..(Len(s.operations) + 1), NEW j \in 1..(Len(s.operations) + 1),
                        more[i].client = more[j].client,
                        more[i].client_operation_id = more[j].client_operation_id
                 PROVE  i = j
        BY <1>3 DEF Distinct
    <2>1. \A k \in DOMAIN s.operations :
            ~(s.operations[k].client = x.client
              /\ s.operations[k].client_operation_id = x.client_operation_id)
        BY <1>0 DEF AlreadyAccepted
    <2>2. CASE i \in DOMAIN s.operations /\ j \in DOMAIN s.operations
        BY <1>3, <2>2 DEF Distinct
    <2>3. CASE i \notin DOMAIN s.operations \/ j \notin DOMAIN s.operations
        BY <1>2, <1>3, <2>1, <2>3
    <2> QED
        BY <2>2, <2>3
<1>7. Replay(versions[s.document_version], more)
        = ApplyText(Replay(versions[s.document_version], s.operations), op)
    BY <1>0, <1>2, ReplayOneMore DEF more
<1>8. IsSessionOf(next, versions)
    BY <1>1, <1>2, <1>4, <1>5, <1>6, <1>7 DEF IsSessionOf, text
<1> QED
    BY <1>8 DEF next

\* A version more leaves every session behind.
LEMMA SessionFallsBehind ==
    ASSUME NEW s, NEW versions, IsSequence(versions), IsSessionOf(s, versions), NEW text
    PROVE  IsSessionOf(s, Append(versions, text))
<1>1. Len(versions) \in Nat /\ Len(Append(versions, text)) = Len(versions) + 1
    BY DEF IsSequence
<1> QED
    BY <1>1 DEF IsSessionOf

LEMMA SessionInvNext == SessionInv /\ [Next]_vars => SessionInv'
<1> SUFFICES ASSUME SessionInv, [Next]_vars PROVE SessionInv'
    OBVIOUS
<1>0. Len(contents) \in Nat /\ IsSequence(contents) /\ Len(contents) >= 1
    BY DEF SessionInv, IsSequence
<1>1. ASSUME UNCHANGED <<contents, session, commit>>
      PROVE  SessionInv'
    BY <1>1 DEF SessionInv
<1>2. ASSUME session' = Joined, UNCHANGED <<contents, commit>>
      PROVE  SessionInv'
    BY <1>2, JoinedIsSession DEF SessionInv
<1>3. ASSUME NEW c, ApplyOperation(c)
      PROVE  SessionInv'
    <2>1. UNCHANGED <<contents, commit>>
        BY <1>3 DEF ApplyOperation
    <2>2. CASE Accepts(Joined, inflight[c])
        <3>1. session' = Accepting(Joined, inflight[c], Transformed(Joined, inflight[c]))
            BY <1>3, <2>2 DEF ApplyOperation
        <3>2. IsSessionOf(session', contents)
            BY <2>2, <3>1, JoinedIsSession, AcceptingGoesOn DEF Accepts
        <3> QED
            BY <2>1, <3>2 DEF SessionInv
    <2>3. CASE ~Accepts(Joined, inflight[c])
        BY <1>2, <1>3, <2>1, <2>3 DEF ApplyOperation
    <2> QED
        BY <2>2, <2>3
<1>4. ASSUME NEW c, NEW strategy, NEW named, BeginCommit(c, strategy, named)
      PROVE  SessionInv'
    <2> DEFINE begun == [ stage |-> "captured", text |-> Joined.text,
                          base_version |-> Joined.document_version, strategy |-> strategy,
                          result_version |-> 0 ]
    <2>1. DOMAIN begun = CommitFields /\ begun.stage # "saved"
        BY DEF CommitFields
    <2>2. session' = Joined /\ commit' \in {begun, None} /\ UNCHANGED contents
        BY <1>4 DEF BeginCommit
    <2> HIDE DEF begun
    <2> QED
        BY <2>1, <2>2, JoinedIsSession DEF SessionInv
\* The document has a version more.
<1>5. ASSUME NEW text, contents' = Append(contents, text), UNCHANGED session,
             \/ UNCHANGED commit
             \/ DOMAIN commit' = CommitFields /\ commit'.result_version = current_version + 1
      PROVE  SessionInv'
    <2>1. IsSequence(contents') /\ Len(contents') = Len(contents) + 1
        BY <1>0, <1>5, SequenceGrows
    <2>2. session' # None => IsSessionOf(session', contents')
        BY <1>0, <1>5, SessionFallsBehind DEF SessionInv
    <2>3. commit' # None =>
            /\ DOMAIN commit' = CommitFields
            /\ commit'.stage = "saved" => commit'.result_version \in 1..Len(contents')
        BY <1>0, <1>5, <2>1 DEF SessionInv, current_version
    <2> QED
        BY <1>0, <2>1, <2>2, <2>3 DEF SessionInv
<1>6. CASE SaveCommit
    <2>1. CASE SavedText \notin {Failed, current_text}
        <3> DEFINE saved == [commit EXCEPT !.stage = "saved", !.result_version = current_version + 1]
        <3>1. commit # None /\ commit' = saved
              /\ contents' = Append(contents, SavedText) /\ UNCHANGED session
            BY <1>6, <2>1 DEF SaveCommit
        <3>2. DOMAIN saved = CommitFields /\ saved.result_version = current_version + 1
            BY <3>1 DEF SessionInv, CommitFields
        <3> HIDE DEF saved
        <3> QED
            BY <1>5, <3>1, <3>2
    <2>2. CASE SavedText \in {Failed, current_text}
        <3>1. commit' = None /\ UNCHANGED <<contents, session>>
            BY <1>6, <2>2 DEF SaveCommit
        <3> QED
            BY <3>1 DEF SessionInv
    <2> QED
        BY <2>1, <2>2
<1>7. CASE FinishCommit
    <2>1. /\ session' = NewSession(commit.result_version, current_text)
          /\ commit' = None /\ UNCHANGED contents
          /\ commit.result_version \in 1..Len(contents)
        BY <1>7 DEF FinishCommit, SessionInv
    <2>2. IsSessionOf(session', contents)
        BY <2>1, NewIsSession DEF current_text, current_version
    <2> QED
        BY <2>1, <2>2 DEF SessionInv
<1>8. ASSUME NEW text, SaveElsewhere(text)
      PROVE  SessionInv'
    BY <1>5, <1>8 DEF SaveElsewhere
<1>9. ASSUME NEW c, Join(c)
      PROVE  SessionInv'
    BY <1>2, <1>9 DEF Join
<1>10. ASSUME NEW c, (\E op : Send(c, op)) \/ Settle(c)
       PROVE  SessionInv'
    BY <1>1, <1>10 DEF Send, Settle
<1>11. CASE UNCHANGED vars
    BY <1>1, <1>11 DEF vars
<1> QED
    BY <1>3, <1>4, <1>6, <1>7, <1>8, <1>9, <1>10, <1>11 DEF Next

LEMMA SessionInvInit == Init => SessionInv
<1> SUFFICES ASSUME Init PROVE SessionInv
    OBVIOUS
<1>1. PICK text \in InitialTexts : contents = <<text>>
    BY DEF Init
<1>2. IsSequence(<<text>>) /\ Len(<<text>>) = 1
    <2> <<text>> \in Seq({text})
        OBVIOUS
    <2> QED
        BY SequenceOf
<1> QED
    BY <1>1, <1>2 DEF Init, SessionInv

THEOREM SessionInvariant == Spec => []SessionInv
<1> QED
    BY SessionInvInit, SessionInvNext, PTL DEF Spec

\* Whoever joins gets the text of the document's version with the accepted operations
\* applied in order, as long as none was cut: whatever was committed, saved elsewhere or
\* sent on an old revision, also when a commit read its text from a later version than
\* its number (commit, _get_or_create_session).
THEOREM JoinedIsReplayHolds == Spec => []JoinedIsReplay
<1>1. SessionInv => JoinedIsReplay
    BY JoinedIsSession DEF IsSessionOf, JoinedIsReplay, Replay
<1> QED
    BY <1>1, SessionInvariant, PTL

\* No operation is in a session's list twice, as long as none was cut from it
\* (_find_accepted_client_operation).
THEOREM AppliedOnceHolds == Spec => []AppliedOnce
<1>1. SessionInv => AppliedOnce
    BY DEF SessionInv, IsSessionOf, Distinct, AppliedOnce
<1> QED
    BY <1>1, SessionInvariant, PTL

\* What a commit saves is still the session's text when it replaces the session: no
\* operation is accepted while it waits for its save (commit).
THEOREM CommitLosesNoOperationHolds ==
    ASSUME \A version, text : NewSession(version, text) # None
    PROVE  Spec => []CommitLosesNoOperation
<1> DEFINE Inv == CommitLosesNoOperation /\ (commit # None => DOMAIN commit = CommitFields)
<1>1. Init => Inv
    BY DEF Init, CommitLosesNoOperation
<1>2. ASSUME Inv, [Next]_vars
      PROVE  Inv'
    <2>1. ASSUME UNCHANGED <<session, commit>>
          PROVE  Inv'
        BY <1>2, <2>1 DEF CommitLosesNoOperation
    <2>2. ASSUME commit' = None
          PROVE  Inv'
        BY <2>2 DEF CommitLosesNoOperation
    <2>3. ASSUME NEW c, NEW strategy, NEW named, BeginCommit(c, strategy, named)
          PROVE  Inv'
        <3>1. Joined # None
            BY DEF Joined, MustReset
        <3> DEFINE begun == [ stage |-> "captured", text |-> Joined.text,
                              base_version |-> Joined.document_version, strategy |-> strategy,
                              result_version |-> 0 ]
        <3>2. DOMAIN begun = CommitFields /\ begun.text = Joined.text
            BY DEF CommitFields
        <3>3. session' = Joined /\ commit' \in {begun, None}
            BY <2>3 DEF BeginCommit
        <3> HIDE DEF begun
        <3> QED
            BY <3>1, <3>2, <3>3 DEF CommitLosesNoOperation
    <2>4. CASE SaveCommit
        <3> DEFINE saved == [commit EXCEPT !.stage = "saved", !.result_version = current_version + 1]
        <3>1. commit # None /\ commit' \in {saved, None} /\ UNCHANGED session
            BY <2>4 DEF SaveCommit
        <3>2. DOMAIN saved = CommitFields /\ saved.text = commit.text
            BY <1>2, <3>1 DEF CommitFields
        <3> HIDE DEF saved
        <3> QED
            BY <1>2, <3>1, <3>2 DEF CommitLosesNoOperation
    <2>5. ASSUME NEW c, Join(c) \/ ApplyOperation(c)
          PROVE  Inv'
        BY <2>2, <2>5 DEF Join, ApplyOperation
    <2>6. ASSUME NEW c, (\E op : Send(c, op)) \/ Settle(c)
          PROVE  Inv'
        BY <2>1, <2>6 DEF Send, Settle
    <2>7. ASSUME NEW text, SaveElsewhere(text)
          PROVE  Inv'
        BY <2>1, <2>7 DEF SaveElsewhere
    <2>8. CASE FinishCommit
        BY <2>2, <2>8 DEF FinishCommit
    <2>9. CASE UNCHANGED vars
        BY <2>1, <2>9 DEF vars
    <2> HIDE DEF Inv
    <2> QED
        BY <1>2, <2>3, <2>4, <2>5, <2>6, <2>7, <2>8, <2>9 DEF Next
<1>3. Inv /\ [Next]_vars => Inv'
    BY <1>2
<1>4. Inv => CommitLosesNoOperation
    OBVIOUS
<1> HIDE DEF Inv
<1> QED
    BY <1>1, <1>3, <1>4, PTL DEF Spec

-----------------------------------------------------------------------------
(* The intention of those who edit a text together.                        *)

\* Where a position of the new text comes from.
KeptAt(q, p, moved, before, after) ==
    /\ p \in 1..Len(before)
    /\ p <= moved.index \/ p > EndOf(moved)
    /\ q = NewPosition(p, moved) /\ after[q] = before[p]

PutInAt(q, op, moved, after) ==
    /\ q \in (moved.index + 1)..(moved.index + Len(op.text))
    /\ q - moved.index \in 1..Len(op.text)
    /\ after[q] = op.text[q - moved.index]

\* A message that follows the text it is applied to does what its author meant.
LEMMA FollowsPreserves ==
    ASSUME NEW message, message.op \in TextOperation, Normalized(message.op),
           message.seen \in Seq(Char), WithinBounds(message.op, Len(message.seen)),
           IsInjective(message.seen), IsInjective(message.op.text),
           ToSet(message.op.text) \cap ToSet(message.seen) = {},
           NEW before \in Seq(Char), IsInjective(before),
           ToSet(message.op.text) \cap ToSet(before) = {},
           NEW others, others \cap ToSet(message.seen) = {},
           NEW moved, Follows(message.seen, message.op, others, before, moved),
           WithinBounds(moved, Len(before))
    PROVE  Preserves(message, before, ApplyText(before, moved))
<1> DEFINE op == message.op
           seen == message.seen
           after == ApplyText(before, moved)
           n == Len(before)
           Kept(p) == p <= moved.index \/ p > EndOf(moved)
<1>1. /\ moved \in TextOperation /\ Normalized(moved) /\ moved.text = op.text
      /\ \A q \in 1..n :
            \/ before[q] \in others /\ q \notin Selected(moved)
            \/ \E p \in 1..Len(seen) : before[q] = seen[p] /\ SameSide(p, op, q, moved)
    BY DEF Follows
<1>2. IsApplied(after, before, moved)
    BY <1>1, ApplyTextPlaces
<1>3. /\ op.index \in Nat /\ op.length \in Nat /\ EndOf(op) = op.index + op.length
      /\ moved.index \in Nat /\ moved.length \in Nat
      /\ EndOf(moved) = moved.index + moved.length
      /\ n \in Nat /\ DOMAIN before = 1..n /\ Len(seen) \in Nat /\ DOMAIN seen = 1..Len(seen)
      /\ Len(after) \in Nat /\ DOMAIN after = 1..Len(after)
      /\ Len(op.text) \in Nat /\ DOMAIN op.text = 1..Len(op.text)
      /\ EndOf(op) <= Len(seen) /\ op \in TextOperation
    <2>1. op.text \in Seq(Char) /\ after \in Seq(Char)
        BY <1>2 DEF TextOperation, IsApplied
    <2>2. /\ n \in Nat /\ DOMAIN before = 1..n /\ Len(seen) \in Nat /\ DOMAIN seen = 1..Len(seen)
          /\ Len(after) \in Nat /\ DOMAIN after = 1..Len(after)
          /\ Len(op.text) \in Nat /\ DOMAIN op.text = 1..Len(op.text)
        BY <2>1, LenProperties
    <2>3. /\ op.index \in Nat /\ op.length \in Nat
          /\ moved.index \in Nat /\ moved.length \in Nat
        BY <1>1 DEF TextOperation
    <2>4. EndOf(op) = op.index + op.length /\ EndOf(moved) = moved.index + moved.length
        BY DEF EndOf
    <2>5. EndOf(op) <= Len(seen)
        BY <2>2, <2>3, <2>4, NormalizedLengths DEF WithinBounds
    <2> QED
        BY <2>2, <2>3, <2>4, <2>5
<1>4. /\ \A p \in 1..n : Kept(p) => NewPosition(p, moved) \in 1..Len(after)
                                    /\ after[NewPosition(p, moved)] = before[p]
      /\ \A i \in 1..Len(op.text) :
            moved.index + i \in 1..Len(after) /\ after[moved.index + i] = op.text[i]
    BY <1>1, <1>2 DEF IsApplied
<1>5. \A p : NewPosition(p, moved)
                = IF p <= moved.index THEN p ELSE p + Len(op.text) - moved.length
    BY <1>1 DEF NewPosition, Shifted
<1>6. ASSUME NEW q \in 1..Len(after)
      PROVE  (\E p \in 1..n : KeptAt(q, p, moved, before, after)) \/ PutInAt(q, op, moved, after)
    <2>1. \/ \E p \in 1..n : /\ Kept(p)
                             /\ q = NewPosition(p, moved) /\ after[q] = before[p]
          \/ /\ q \in (moved.index + 1)..(moved.index + Len(moved.text))
             /\ q - moved.index \in 1..Len(moved.text)
             /\ after[q] = moved.text[q - moved.index]
        BY <1>1, <1>2, AppliedComesFrom
    <2> QED
        BY <1>1, <2>1 DEF KeptAt, PutInAt
<1> HIDE DEF after, n, op, seen
<1>7. IsInjective(seen) /\ IsInjective(op.text) /\ IsInjective(before)
      /\ ToSet(op.text) \cap ToSet(seen) = {} /\ ToSet(op.text) \cap ToSet(before) = {}
      /\ others \cap ToSet(seen) = {}
    BY DEF op, seen
<1>8. \A q, p : KeptAt(q, p, moved, before, after) =>
        /\ p \in 1..n /\ Kept(p) /\ q = NewPosition(p, moved) /\ after[q] = before[p]
        /\ after[q] \in ToSet(before)
    BY <1>3 DEF KeptAt, ToSet, n
<1>9. \A q : PutInAt(q, op, moved, after) => after[q] \in ToSet(op.text)
    BY <1>3 DEF PutInAt, ToSet
<1>10. \A i \in 1..Len(seen), j \in 1..Len(seen) : seen[i] = seen[j] => i = j
    BY <1>3, <1>7 DEF IsInjective
<1>11. \A i \in 1..n, j \in 1..n : before[i] = before[j] => i = j
    BY <1>3, <1>7 DEF IsInjective
\* What the author has seen of the text is on the side where it was.
<1>12. ASSUME NEW p \in 1..n, NEW i \in 1..Len(seen), before[p] = seen[i]
       PROVE  SameSide(i, op, p, moved)
    <2>1. seen[i] \notin others
        BY <1>3, <1>7 DEF ToSet
    <2>2. PICK j \in 1..Len(seen) : before[p] = seen[j] /\ SameSide(j, op, p, moved)
        BY <1>1, <1>12, <2>1 DEF n
    <2>3. j = i
        BY <1>10, <1>12, <2>2
    <2> QED
        BY <2>2, <2>3
<1>13. ASSUME NEW p \in 1..n
       PROVE  before[p] \in Chosen(message) <=> ~Kept(p)
    <2>1. ASSUME before[p] \in Chosen(message)
          PROVE  ~Kept(p)
        <3>1. PICK i \in (op.index + 1)..EndOf(op) : before[p] = seen[i]
            BY <2>1 DEF Chosen, op, seen
        <3>2. i \in 1..Len(seen) /\ i > op.index /\ i <= op.index + op.length
            BY <1>3
        <3>3. SameSide(i, op, p, moved)
            BY <1>12, <3>1, <3>2
        <3> QED
            BY <1>3, <3>2, <3>3 DEF SameSide, StaysBeside
    <2>2. ASSUME ~Kept(p)
          PROVE  before[p] \in Chosen(message)
        <3>1. p \in Selected(moved)
            BY <1>3, <2>2 DEF Selected
        <3>2. PICK i \in 1..Len(seen) : before[p] = seen[i] /\ SameSide(i, op, p, moved)
            BY <1>1, <3>1 DEF n
        <3>3. i \in (op.index + 1)..EndOf(op)
            BY <1>3, <2>2, <3>2 DEF SameSide, StaysBeside
        <3> QED
            BY <3>2, <3>3 DEF Chosen, op, seen
    <2> QED
        BY <2>1, <2>2
\* The positions of two characters that are kept.
<1>14. ASSUME NEW p \in 1..n, NEW r \in 1..n, Kept(p), Kept(r), p < r
       PROVE  NewPosition(p, moved) < NewPosition(r, moved)
    <2> DEFINE m == Len(op.text)
               x == moved.index
               l == moved.length
    <2>1. x \in Nat /\ l \in Nat /\ m \in Nat /\ (p <= x \/ p > x + l) /\ (r <= x \/ r > x + l)
        BY <1>3, <1>14
    <2>2. /\ NewPosition(p, moved) = IF p <= x THEN p ELSE p + m - l
          /\ NewPosition(r, moved) = IF r <= x THEN r ELSE r + m - l
        BY <1>5
    <2>3. p \in Nat /\ r \in Nat
        BY <1>3
    <2> HIDE DEF x, l, m
    <2> QED
        BY <1>14, <2>1, <2>2, <2>3
<1>15. \A q, p : PutInAt(q, op, moved, after) /\ p \in 1..n =>
        /\ p <= moved.index => NewPosition(p, moved) < q
        /\ p > EndOf(moved) => q < NewPosition(p, moved)
    <2> SUFFICES ASSUME NEW q, NEW p \in 1..n, PutInAt(q, op, moved, after)
                 PROVE  /\ p <= moved.index => NewPosition(p, moved) < q
                        /\ p > EndOf(moved) => q < NewPosition(p, moved)
        OBVIOUS
    <2> DEFINE m == Len(op.text)
               x == moved.index
               l == moved.length
    <2>1. x \in Nat /\ l \in Nat /\ m \in Nat /\ q \in (x + 1)..(x + m) /\ EndOf(moved) = x + l
        BY <1>3 DEF PutInAt
    <2>2. NewPosition(p, moved) = IF p <= x THEN p ELSE p + m - l
        BY <1>5
    <2>3. p \in Nat /\ q \in Int
        BY <1>3, <2>1
    <2> HIDE DEF x, l, m
    <2>4. ASSUME p <= x
          PROVE  NewPosition(p, moved) < q
        BY <2>1, <2>2, <2>3, <2>4
    <2>5. ASSUME p > x + l
          PROVE  q < NewPosition(p, moved)
        BY <2>1, <2>2, <2>3, <2>5
    <2> QED
        BY <2>1, <2>4, <2>5 DEF x
<1>16. IsInjective(after)
    <2> SUFFICES ASSUME NEW i \in 1..Len(after), NEW j \in 1..Len(after), after[i] = after[j]
                 PROVE  i = j
        BY <1>3 DEF IsInjective
    <2>1. CASE PutInAt(i, op, moved, after) /\ PutInAt(j, op, moved, after)
        <3> DEFINE a == i - moved.index
                   b == j - moved.index
        <3>1. a \in DOMAIN op.text /\ b \in DOMAIN op.text /\ op.text[a] = op.text[b]
            BY <1>3, <2>1 DEF PutInAt
        <3>2. a = b
            BY <1>7, <3>1 DEF IsInjective
        <3> QED
            BY <1>3, <3>2
    <2>2. ASSUME NEW p, NEW r, KeptAt(i, p, moved, before, after), KeptAt(j, r, moved, before, after)
          PROVE  i = j
        <3>1. p = r
            BY <1>8, <1>11, <2>2
        <3> QED
            BY <1>8, <2>2, <3>1
    <2>3. ASSUME NEW p, NEW q, NEW r, KeptAt(q, p, moved, before, after), PutInAt(r, op, moved, after),
                 after[q] = after[r]
          PROVE  FALSE
        BY <1>7, <1>8, <1>9, <2>3
    <2> QED
        BY <1>6, <2>1, <2>2, <2>3
<1>17. ToSet(after) = (ToSet(before) \ Chosen(message)) \cup ToSet(op.text)
    <2>1. ASSUME NEW x \in ToSet(after)
          PROVE  x \in (ToSet(before) \ Chosen(message)) \cup ToSet(op.text)
        <3>1. PICK q \in 1..Len(after) : x = after[q]
            BY <1>3 DEF ToSet
        <3>2. ASSUME NEW p \in 1..n, KeptAt(q, p, moved, before, after)
              PROVE  x \in ToSet(before) \ Chosen(message)
            <4>1. x = before[p] /\ Kept(p) /\ x \in ToSet(before)
                BY <1>8, <3>1, <3>2
            <4> QED
                BY <1>13, <4>1
        <3> QED
            BY <1>6, <1>9, <3>1, <3>2
    <2>2. ASSUME NEW x \in ToSet(before), x \notin Chosen(message)
          PROVE  x \in ToSet(after)
        <3>1. PICK p \in 1..n : x = before[p]
            BY <1>3 DEF ToSet
        <3>2. Kept(p)
            BY <1>13, <2>2, <3>1
        <3> QED
            BY <1>3, <1>4, <3>1, <3>2 DEF ToSet
    <2>3. ASSUME NEW x \in ToSet(op.text)
          PROVE  x \in ToSet(after)
        <3>1. PICK i \in 1..Len(op.text) : x = op.text[i]
            BY <1>3 DEF ToSet
        <3> QED
            BY <1>3, <1>4, <3>1 DEF ToSet
    <2> QED
        BY <2>1, <2>2, <2>3
<1>18. ASSUME NEW i \in 1..n, NEW j \in 1..n, NEW k \in 1..Len(after), NEW m \in 1..Len(after),
              i < j, before[i] = after[k], before[j] = after[m]
       PROVE  k < m
    <2>1. after[k] \in ToSet(before) /\ after[m] \in ToSet(before)
        BY <1>3, <1>18 DEF ToSet
    <2>2. ~PutInAt(k, op, moved, after) /\ ~PutInAt(m, op, moved, after)
        BY <1>7, <1>9, <2>1
    <2>3. PICK p \in 1..n : KeptAt(k, p, moved, before, after)
        BY <1>6, <2>2
    <2>4. PICK r \in 1..n : KeptAt(m, r, moved, before, after)
        BY <1>6, <2>2
    <2>5. p = i /\ r = j
        BY <1>8, <1>11, <1>18, <2>3, <2>4
    <2> QED
        BY <1>8, <1>14, <1>18, <2>3, <2>4, <2>5
<1>19. ASSUME NEW i \in 1..Len(seen), NEW j \in 1..Len(after), NEW k \in 1..Len(after),
              seen[i] = after[j], after[k] \in ToSet(op.text)
       PROVE  (i <= op.index => j < k) /\ (i > EndOf(op) => k < j)
    <2>1. seen[i] \in ToSet(seen)
        BY <1>3 DEF ToSet
    <2>2. ~PutInAt(j, op, moved, after)
        BY <1>7, <1>9, <1>19, <2>1
    <2>3. PICK p \in 1..n : KeptAt(j, p, moved, before, after)
        BY <1>6, <2>2
    <2>4. PutInAt(k, op, moved, after)
        <3>1. \A r : ~KeptAt(k, r, moved, before, after)
            BY <1>7, <1>8, <1>19
        <3> QED
            BY <1>6, <3>1
    <2>5. SameSide(i, op, p, moved) /\ j = NewPosition(p, moved)
        BY <1>8, <1>12, <1>19, <2>3
    <2>6. (i <= op.index => p <= moved.index) /\ (i > EndOf(op) => p > EndOf(moved))
        BY <1>3, <2>5 DEF SameSide, StaysBeside
    <2> QED
        BY <1>15, <2>4, <2>5, <2>6
<1>20. Preserves(message, before, after)
    <2>1. /\ DOMAIN before = 1..n /\ DOMAIN after = 1..Len(after)
          /\ DOMAIN message.seen = 1..Len(seen)
        BY <1>3 DEF seen
    <2>2. \A i, j \in DOMAIN before, k, m \in DOMAIN after :
            i < j /\ before[i] = after[k] /\ before[j] = after[m] => k < m
        BY <1>18, <2>1
    <2>3. \A i \in DOMAIN message.seen, j, k \in DOMAIN after :
            message.seen[i] = after[j] /\ after[k] \in ToSet(message.op.text) =>
                /\ i <= message.op.index => j < k
                /\ i > EndOf(message.op) => k < j
        BY <1>19, <2>1 DEF op, seen
    <2> QED
        BY <1>16, <1>17, <2>2, <2>3 DEF Preserves, op
<1> QED
    BY <1>20 DEF after

-----------------------------------------------------------------------------
(* What accepting an operation makes of a session.                         *)

AcceptedEntry(s, message, op) ==
    [ server_revision |-> s.revision + 1, client |-> message.client,
      client_operation_id |-> message.client_operation_id, op |-> op ]

\* What accepting makes of a session, by the places of its operations.
IsAccepting(t, s, message, op) ==
    /\ t.revision = s.revision + 1 /\ t.text = ApplyText(s.text, op)
    /\ IsSequence(t.operations)
    /\ Len(t.operations) \in 1..(Len(s.operations) + 1)
    /\ t.operations[Len(t.operations)] = AcceptedEntry(s, message, op)
    /\ \A i \in 1..(Len(t.operations) - 1) :
        t.operations[i] = s.operations[Len(s.operations) + 1 - Len(t.operations) + i]

LEMMA AcceptingPlaces ==
    ASSUME NEW s, DOMAIN s = SessionFields, IsSequence(s.operations), NEW message, NEW op
    PROVE  IsAccepting(Accepting(s, message, op), s, message, op)
<1> DEFINE x == AcceptedEntry(s, message, op)
           more == Append(s.operations, x)
           last == LastOf(more, MAX_TEXT_SESSION_OPERATIONS)
           text == ApplyText(s.text, op)
           next == Accepting(s, message, op)
           n == Len(s.operations)
           l == Len(last)
<1>1. next.text = text /\ next.revision = s.revision + 1 /\ next.operations = last
    BY DEF Accepting, SessionFields, AcceptedEntry
<1> HIDE DEF x, text, next
<1>2. /\ IsSequence(more) /\ Len(more) = n + 1 /\ n \in Nat
      /\ \A i \in 1..n : more[i] = s.operations[i]
      /\ more[n + 1] = x
    BY SequenceGrows
<1> HIDE DEF more, n
<1>3. /\ l \in 1..(n + 1) /\ \A i \in 1..l : last[i] = more[n + 1 - l + i]
    <2>1. Len(more) > 0
        BY <1>2
    <2>2. /\ l \in 1..Len(more)
          /\ \A i \in 1..l : last[i] = more[Len(more) - l + i]
        BY <1>2, <2>1, OperationsAssumption, LastPlaces
    <2> HIDE DEF l, last
    <2> QED
        BY <1>2, <2>2
<1>4. IsSequence(last)
    BY <1>2, OperationsAssumption, LastFacts
<1> HIDE DEF last, l
<1>5. last[l] = x
    <2>1. l \in 1..l /\ n + 1 - l + l = n + 1
        BY <1>2, <1>3
    <2>2. last[l] = more[n + 1 - l + l]
        BY <1>3, <2>1
    <2> QED
        BY <1>2, <2>1, <2>2
<1>6. ASSUME NEW i \in 1..(l - 1)
      PROVE  last[i] = s.operations[n + 1 - l + i]
    <2>1. i \in 1..l /\ n + 1 - l + i \in 1..n
        BY <1>2, <1>3
    <2> QED
        BY <1>2, <1>3, <2>1
<1>7. IsAccepting(next, s, message, op)
    BY <1>1, <1>3, <1>4, <1>5, <1>6 DEF IsAccepting, l, n, x, text
<1> QED
    BY <1>7 DEF next

\* The texts of the session, with the one after this operation.
Told(texts, s, op) ==
    [n \in Nat |-> IF n = s.revision + 1 THEN ApplyText(s.text, op) ELSE texts[n]]

LEMMA StoryGoesOn ==
    ASSUME NEW texts, NEW s, Story(texts, s), NEW message, NEW op \in TextOperation,
           Normalized(op), s.text \in Seq(Char), WithinBounds(op, Len(s.text)),
           NEW t, IsAccepting(t, s, message, op)
    PROVE  Story(Told(texts, s, op), t)
<1> DEFINE n == Len(s.operations)
           l == Len(t.operations)
           told == Told(texts, s, op)
           rev == s.revision
<1>1. n \in Nat /\ rev \in Nat /\ n <= rev /\ l \in 1..(n + 1) /\ t.revision = rev + 1
    BY DEF Story, IsSequence, IsAccepting
<1>2. \A i \in 1..n : StepAt(texts, s.operations[i], rev - n + i - 1)
    BY DEF Story
<1>3. /\ \A i \in Nat : i # rev + 1 => told[i] = texts[i]
      /\ told[rev + 1] = ApplyText(s.text, op)
    BY <1>1 DEF Told
<1>4. /\ t.operations[l].server_revision = rev + 1 /\ t.operations[l].op = op
      /\ \A i \in 1..(l - 1) : t.operations[i] = s.operations[n + 1 - l + i]
      /\ t.text = ApplyText(s.text, op)
    <2>1. /\ AcceptedEntry(s, message, op).server_revision = rev + 1
          /\ AcceptedEntry(s, message, op).op = op
        BY DEF AcceptedEntry
    <2> QED
        BY <2>1 DEF IsAccepting
<1>5. texts[rev] = s.text
    BY DEF Story
<1> HIDE DEF n, l, told, rev
<1>6. StepAt(told, t.operations[l], rev)
    BY <1>1, <1>3, <1>4, <1>5 DEF StepAt, IsStep
<1>7. ASSUME NEW i \in 1..l
      PROVE  StepAt(told, t.operations[i], rev + 1 - l + i - 1)
    <2>1. CASE i = l
        <3>1. rev + 1 - l + i - 1 = rev
            BY <1>1, <2>1
        <3> QED
            BY <1>6, <2>1, <3>1, Zenon
    <2>2. CASE i # l
        <3> DEFINE j == n + 1 - l + i
                   r == rev + 1 - l + i - 1
        <3>1. /\ i \in 1..(l - 1) /\ j \in 1..n /\ rev - n + j - 1 = r
              /\ r \in Nat /\ r + 1 \in Nat /\ r # rev + 1 /\ r + 1 # rev + 1
            BY <1>1, <2>2
        <3> HIDE DEF j, r
        <3>2. t.operations[i] = s.operations[j]
            BY <1>4, <3>1 DEF j
        <3>3. told[r] = texts[r] /\ told[r + 1] = texts[r + 1]
            BY <1>3, <3>1
        <3>4. StepAt(texts, s.operations[j], r)
            BY <1>2, <3>1
        <3>5. StepAt(told, t.operations[i], r)
            BY <3>2, <3>3, <3>4 DEF StepAt
        <3> QED
            BY <3>5 DEF r
    <2> QED
        BY <2>1, <2>2
<1>8. l \in Nat /\ l <= rev + 1 /\ rev + 1 \in Nat
    BY <1>1
<1>9. Story(told, t)
    <2>1. t.revision \in Nat /\ IsSequence(t.operations) /\ Len(t.operations) <= t.revision
        BY <1>1, <1>8 DEF IsAccepting, l
    <2>2. told[t.revision] = t.text
        BY <1>1, <1>3, <1>4
    <2>3. \A i \in 1..Len(t.operations) :
            StepAt(told, t.operations[i], t.revision - Len(t.operations) + i - 1)
        <3>1. ASSUME NEW i \in 1..l
              PROVE  StepAt(told, t.operations[i], t.revision - l + i - 1)
            <4>1. t.revision - l + i - 1 = rev + 1 - l + i - 1
                BY <1>1
            <4>2. StepAt(told, t.operations[i], rev + 1 - l + i - 1)
                BY <1>7
            <4> QED
                BY <4>1, <4>2, Zenon
        <3> QED
            BY <3>1 DEF l
    <2> QED
        BY <2>1, <2>2, <2>3 DEF Story
<1> QED
    BY <1>9 DEF told

\* What a message types is not in the session's text, unless it was accepted; which the
\* session's operations tell, as long as they are kept.
NotYetIn(s, m) ==
    \/ ToSet(m.op.text) \cap ToSet(s.text) = {}
    \/ m.base_revision < s.revision - Len(s.operations)
    \/ \E i \in 1..Len(s.operations) :
        /\ s.operations[i].client = m.client
        /\ s.operations[i].client_operation_id = m.client_operation_id
        /\ s.operations[i].server_revision > m.base_revision

LEMMA NotYetGoesOn ==
    ASSUME NEW texts, NEW s, Story(texts, s), NEW message, NEW op \in TextOperation,
           Normalized(op), s.text \in Seq(Char), WithinBounds(op, Len(s.text)),
           NEW t, IsAccepting(t, s, message, op),
           NEW m, m.base_revision \in Nat, m.base_revision <= s.revision, NotYetIn(s, m),
           \/ ToSet(m.op.text) \cap ToSet(op.text) = {}
           \/ m.client = message.client /\ m.client_operation_id = message.client_operation_id
    PROVE  NotYetIn(t, m)
<1> DEFINE n == Len(s.operations)
           l == Len(t.operations)
           rev == s.revision
           base == m.base_revision
<1>1. n \in Nat /\ rev \in Nat /\ n <= rev /\ l \in 1..(n + 1) /\ t.revision = rev + 1
      /\ base \in Nat /\ base <= rev
    BY DEF Story, IsSequence, IsAccepting
<1>2. /\ t.operations[l] = AcceptedEntry(s, message, op)
      /\ \A i \in 1..(l - 1) : t.operations[i] = s.operations[n + 1 - l + i]
      /\ t.text = ApplyText(s.text, op)
    BY DEF IsAccepting
<1>3. \A i \in 1..n : s.operations[i].server_revision = rev - n + i
    <2>1. \A i \in 1..n : StepAt(texts, s.operations[i], rev - n + i - 1)
        BY DEF Story
    <2>2. \A i \in 1..n : rev - n + i - 1 + 1 = rev - n + i
        BY <1>1
    <2> QED
        BY <2>1, <2>2 DEF StepAt
<1>4. CASE m.client = message.client /\ m.client_operation_id = message.client_operation_id
    <2>1. /\ t.operations[l].client = m.client
          /\ t.operations[l].client_operation_id = m.client_operation_id
          /\ t.operations[l].server_revision = rev + 1
        BY <1>2, <1>4 DEF AcceptedEntry
    <2>2. l \in 1..l /\ rev + 1 > base
        BY <1>1
    <2> QED
        BY <2>1, <2>2 DEF NotYetIn
<1>5. ASSUME ToSet(m.op.text) \cap ToSet(op.text) = {}, ToSet(m.op.text) \cap ToSet(s.text) = {}
      PROVE  NotYetIn(t, m)
    <2>1. op.index <= Len(s.text)
        BY NormalizedLengths, LenProperties DEF WithinBounds
    <2>2. ToSet(t.text) \subseteq ToSet(s.text) \cup ToSet(op.text)
        BY <1>2, <2>1, ApplyIsText
    <2> QED
        BY <1>5, <2>2 DEF NotYetIn
<1>6. ASSUME base < rev + 1 - l
      PROVE  NotYetIn(t, m)
    BY <1>1, <1>6 DEF NotYetIn
<1>7. ASSUME NEW i \in 1..n, s.operations[i].client = m.client,
             s.operations[i].client_operation_id = m.client_operation_id,
             s.operations[i].server_revision > base
      PROVE  NotYetIn(t, m)
    <2> DEFINE k == i - (n + 1 - l)
    <2> HIDE DEF n, l, rev, base
    <2>1. CASE k >= 1
        <3>1. k \in 1..(l - 1) /\ k \in 1..l /\ n + 1 - l + k = i
            BY <1>1, <2>1
        <3> HIDE DEF k
        <3>2. t.operations[k] = s.operations[i]
            BY <1>2, <3>1
        <3> QED
            BY <1>7, <3>1, <3>2 DEF NotYetIn, l, base
    <2>2. CASE ~(k >= 1)
        <3>1. base < rev - n + i
            BY <1>3, <1>7
        <3>2. base < rev + 1 - l
            BY <1>1, <2>2, <3>1
        <3> QED
            BY <1>6, <3>2 DEF rev, n
    <2> QED
        BY <2>1, <2>2
<1>8. base < rev - n => base < rev + 1 - l
    BY <1>1
<1> QED
    BY <1>4, <1>5, <1>6, <1>7, <1>8 DEF NotYetIn

-----------------------------------------------------------------------------
(* What clients have been told and have sent.                              *)

IsView(v, at, top) ==
    v.text \in Seq(0..top) /\ v.revision \in Nat /\ v.epoch \in 0..at

IsMessage(m, at, top) ==
    /\ m.op \in TextOperation /\ Normalized(m.op) /\ WithinBounds(m.op, Len(m.seen))
    /\ IsInjective(m.op.text) /\ ToSet(m.op.text) \subseteq 0..top
    /\ m.seen \in Seq(0..top) /\ ToSet(m.op.text) \cap ToSet(m.seen) = {}
    /\ m.base_revision \in Nat /\ m.epoch \in 0..at

\* No two messages type the same character.
Traffic(views, messages, at, top) ==
    /\ at \in Nat /\ top \in Nat
    /\ views = [c \in Client |-> views[c]]
    /\ messages = [c \in Client |-> messages[c]]
    /\ \A c \in Client : views[c] # None => IsView(views[c], at, top)
    /\ \A c \in Client : messages[c] # None => IsMessage(messages[c], at, top)
    /\ \A c, d \in Client : c # d /\ messages[c] # None /\ messages[d] # None =>
        ToSet(messages[c].op.text) \cap ToSet(messages[d].op.text) = {}

\* A client of the session has seen its text at the revision it names.
ViewInStep(texts, s, v) == v.revision <= s.revision /\ texts[v.revision] = v.text

MessageInStep(texts, s, m) ==
    m.base_revision <= s.revision /\ texts[m.base_revision] = m.seen /\ NotYetIn(s, m)

Recorded(texts, s, at, views, messages, top) ==
    /\ Story(texts, s)
    /\ s.text \in Seq(0..top)
    /\ \A c \in Client : views[c] # None /\ views[c].epoch = at => ViewInStep(texts, s, views[c])
    /\ \A c \in Client : messages[c] # None /\ messages[c].epoch = at =>
        MessageInStep(texts, s, messages[c])

IntentInv ==
    /\ Traffic(view, inflight, epoch, typed)
    /\ \A i \in 1..Len(contents) : contents[i] \in Seq(0..typed)
    /\ commit # None => commit.text \in Seq(0..typed) /\ commit.base_version \in 1..Len(contents)
    /\ session # None => \E texts : Recorded(texts, session, epoch, view, inflight, typed)

LEMMA IsText ==
    ASSUME NEW n \in Nat, NEW s \in Seq(0..n)
    PROVE  s \in Seq(Char) /\ ToSet(s) \subseteq 0..n
<1>1. ToSet(s) \subseteq 0..n
    BY SomeOfText
<1>2. ToSet(s) \subseteq Char
    BY <1>1 DEF Char
<1> QED
    BY <1>1, <1>2, TextOfSome

LEMMA TrafficGoesOn ==
    ASSUME NEW views, NEW messages, NEW at, NEW top, Traffic(views, messages, at, top),
           NEW at_next \in Nat, NEW top_next \in Nat, at <= at_next, top <= top_next
    PROVE  Traffic(views, messages, at_next, top_next)
<1>1. at \in Nat /\ top \in Nat
    BY DEF Traffic
<1>2. 0..at \subseteq 0..at_next /\ 0..top \subseteq 0..top_next
    BY <1>1
<1>3. \A s \in Seq(0..top) : s \in Seq(0..top_next)
    BY <1>1, MoreTyped
<1>4. \A v : IsView(v, at, top) => IsView(v, at_next, top_next)
    BY <1>2, <1>3 DEF IsView
<1>5. \A m : IsMessage(m, at, top) => IsMessage(m, at_next, top_next)
    BY <1>2, <1>3 DEF IsMessage
<1> QED
    BY <1>4, <1>5 DEF Traffic

LEMMA RecordedGoesOn ==
    ASSUME NEW texts, NEW s, NEW at, NEW views, NEW messages, NEW top \in Nat,
           Recorded(texts, s, at, views, messages, top), NEW top_next \in Nat, top <= top_next
    PROVE  Recorded(texts, s, at, views, messages, top_next)
<1>1. s.text \in Seq(0..top_next)
    BY MoreTyped DEF Recorded
<1> QED
    BY <1>1 DEF Recorded

\* A new session has seen no client yet.
LEMMA NewIsRecorded ==
    ASSUME NEW views, NEW messages, NEW at, NEW top, Traffic(views, messages, at, top),
           NEW v, NEW text \in Seq(0..top)
    PROVE  \E texts : Recorded(texts, NewSession(v, text), at + 1, views, messages, top)
<1> DEFINE s == NewSession(v, text)
           texts == [n \in Nat |-> text]
<1>1. s.text = text /\ s.revision = 0 /\ s.operations = << >>
    BY DEF NewSession
<1>2. IsSequence(<< >>) /\ Len(<< >>) = 0 /\ texts[0] = text
    BY DEF IsSequence
<1> HIDE DEF s, texts
<1>3. Story(texts, s)
    BY <1>1, <1>2 DEF Story
<1>4. at \in Nat
    BY DEF Traffic
<1>5. \A c \in Client : views[c] # None => views[c].epoch # at + 1
    BY <1>4 DEF Traffic, IsView
<1>6. \A c \in Client : messages[c] # None => messages[c].epoch # at + 1
    BY <1>4 DEF Traffic, IsMessage
<1>7. Recorded(texts, s, at + 1, views, messages, top)
    BY <1>1, <1>3, <1>5, <1>6 DEF Recorded
<1> QED
    BY <1>7 DEF s

LEMMA JoinedIsRecorded ==
    ASSUME SessionInv, IntentInv
    PROVE  /\ \E texts : Recorded(texts, Joined, EpochJoined, view, inflight, typed)
           /\ Traffic(view, inflight, EpochJoined, typed)
           /\ Joined.text \in Seq(0..typed)
<1>0. Len(contents) \in Nat /\ Len(contents) >= 1
    BY DEF SessionInv, IsSequence
<1>1. Traffic(view, inflight, epoch, typed) /\ epoch \in Nat /\ typed \in Nat
    BY DEF IntentInv, Traffic
<1>2. /\ \E texts : Recorded(texts, Joined, EpochJoined, view, inflight, typed)
      /\ EpochJoined \in Nat /\ epoch <= EpochJoined
    <2>1. CASE MustReset
        <3>1. Joined = NewSession(current_version, current_text) /\ EpochJoined = epoch + 1
            BY <2>1 DEF Joined, EpochJoined
        <3>2. current_text \in Seq(0..typed)
            BY <1>0 DEF IntentInv, current_text, current_version
        <3> QED
            BY <1>1, <3>1, <3>2, NewIsRecorded
    <2>2. CASE ~MustReset
        <3>1. Joined = session /\ EpochJoined = epoch /\ session # None
            BY <2>2 DEF Joined, EpochJoined, MustReset
        <3> QED
            BY <1>1, <3>1 DEF IntentInv
    <2> QED
        BY <2>1, <2>2
<1>3. Traffic(view, inflight, EpochJoined, typed)
    BY <1>1, <1>2, TrafficGoesOn
<1> QED
    BY <1>2, <1>3 DEF Recorded

\* A client that joins is told the session's text.
LEMMA JoinIsRecorded ==
    ASSUME NEW texts, NEW s, NEW at, NEW views, NEW messages, NEW top, NEW c \in Client,
           Traffic(views, messages, at, top), Recorded(texts, s, at, views, messages, top)
    PROVE  /\ Traffic([views EXCEPT ![c] = StateOf(s, at)], messages, at, top)
           /\ Recorded(texts, s, at, [views EXCEPT ![c] = StateOf(s, at)], messages, top)
<1> DEFINE v == StateOf(s, at)
           next == [views EXCEPT ![c] = v]
<1>1. v.epoch = at /\ v.revision = s.revision /\ v.text = s.text
    BY DEF StateOf
<1> HIDE DEF v
<1>2. views = [d \in Client |-> views[d]] /\ at \in Nat
    BY DEF Traffic
<1>3. next = [d \in Client |-> next[d]] /\ \A d \in Client : next[d] = IF d = c THEN v ELSE views[d]
    BY <1>2
<1> HIDE DEF next
<1>4. s.revision \in Nat /\ s.text \in Seq(0..top) /\ texts[s.revision] = s.text
    BY DEF Recorded, Story
<1>5. IsView(v, at, top) /\ ViewInStep(texts, s, v)
    BY <1>1, <1>2, <1>4 DEF IsView, ViewInStep
<1>6. Traffic(next, messages, at, top)
    BY <1>3, <1>5 DEF Traffic
<1>7. Recorded(texts, s, at, next, messages, top)
    BY <1>3, <1>5 DEF Recorded
<1> QED
    BY <1>6, <1>7 DEF next, v

\* An operation is accepted.
LEMMA AcceptIsRecorded ==
    ASSUME NEW texts, NEW s, NEW at, NEW views, NEW messages, NEW top, NEW c \in Client,
           Traffic(views, messages, at, top), Recorded(texts, s, at, views, messages, top),
           DOMAIN s = SessionFields, messages[c] # None, Accepts(s, messages[c])
    PROVE  \E told : Recorded(told, Accepting(s, messages[c], Transformed(s, messages[c])),
                              at, views, messages, top)
<1> DEFINE message == messages[c]
           op == Transformed(s, message)
           t == Accepting(s, message, op)
           told == Told(texts, s, op)
<1>1. Story(texts, s) /\ s.text \in Seq(0..top) /\ top \in Nat /\ s.text \in Seq(Char)
    BY IsText DEF Recorded, Traffic
<1>2. /\ message.op \in TextOperation /\ Normalized(message.op)
      /\ ToSet(message.op.text) \subseteq 0..top
    BY DEF Traffic, IsMessage
<1>3. op # Conflict /\ WithinBounds(op, Len(s.text))
    BY DEF Accepts
<1>4. IsSequence(s.operations) /\ s.revision \in Nat
      /\ \A i \in 1..Len(s.operations) : /\ s.operations[i].op \in TextOperation
                                         /\ Normalized(s.operations[i].op)
    BY <1>1 DEF Story, StepAt, IsStep
<1> HIDE DEF message
<1>5. op \in TextOperation /\ Normalized(op) /\ op.text = message.op.text
    BY <1>2, <1>3, <1>4, TransformedKeepsKind
<1> HIDE DEF op
<1>6. IsAccepting(t, s, message, op)
    BY <1>4, AcceptingPlaces
<1> HIDE DEF t
<1>7. Story(told, t)
    BY <1>1, <1>3, <1>5, <1>6, StoryGoesOn
<1>8. t.revision = s.revision + 1 /\ t.text = ApplyText(s.text, op)
      /\ \A n \in Nat : n <= s.revision => told[n] = texts[n]
    BY <1>4, <1>6 DEF IsAccepting, Told
<1> HIDE DEF told
<1>9. t.text \in Seq(0..top)
    <2>1. op.index <= Len(s.text)
        BY <1>1, <1>3, <1>5, NormalizedLengths, LenProperties DEF WithinBounds
    <2>2. t.text \in Seq(Char) /\ ToSet(t.text) \subseteq ToSet(s.text) \cup ToSet(op.text)
        BY <1>1, <1>5, <1>8, <2>1, ApplyIsText
    <2>3. ToSet(s.text) \subseteq 0..top
        BY <1>1, IsText
    <2>4. ToSet(t.text) \subseteq 0..top
        BY <1>2, <1>5, <2>2, <2>3
    <2> QED
        BY <2>2, <2>4, TextOfSome
<1>10. ASSUME NEW d \in Client, views[d] # None, views[d].epoch = at
       PROVE  ViewInStep(told, t, views[d])
    <2>1. views[d].revision \in Nat
        BY <1>10 DEF Traffic, IsView
    <2>2. views[d].revision <= s.revision /\ texts[views[d].revision] = views[d].text
        BY <1>10 DEF Recorded, ViewInStep
    <2>3. views[d].revision <= t.revision
        BY <1>4, <1>8, <2>1, <2>2
    <2> QED
        BY <1>8, <2>1, <2>2, <2>3 DEF ViewInStep
<1>11. ASSUME NEW d \in Client, messages[d] # None, messages[d].epoch = at
       PROVE  MessageInStep(told, t, messages[d])
    <2> DEFINE m == messages[d]
    <2>1. m.base_revision \in Nat
        BY <1>11 DEF Traffic, IsMessage
    <2>2. /\ m.base_revision <= s.revision /\ texts[m.base_revision] = m.seen
          /\ NotYetIn(s, m)
        BY <1>11 DEF Recorded, MessageInStep
    <2>3. \/ ToSet(m.op.text) \cap ToSet(op.text) = {}
          \/ m.client = message.client /\ m.client_operation_id = message.client_operation_id
        BY <1>5, <1>11 DEF Traffic, message
    <2> HIDE DEF m
    <2>4. NotYetIn(t, m)
        BY <1>1, <1>3, <1>5, <1>6, <2>1, <2>2, <2>3, NotYetGoesOn
    <2>5. m.base_revision <= t.revision /\ told[m.base_revision] = m.seen
        BY <1>4, <1>8, <2>1, <2>2
    <2>6. MessageInStep(told, t, m)
        BY <2>4, <2>5 DEF MessageInStep
    <2> QED
        BY <2>6 DEF m
<1>12. Recorded(told, t, at, views, messages, top)
    BY <1>7, <1>9, <1>10, <1>11 DEF Recorded
<1> QED
    BY <1>12 DEF t, op, message

-----------------------------------------------------------------------------
(* The session is in step with its clients at every step.                  *)

\* Saves make no character up that is still to be typed: what they put in themselves
\* (the layout of JSON) is none of the characters numbered from 1.
SavesMakeUpNothing ==
    /\ \A text \in InitialTexts : text \in Seq(0..Len(text))
    /\ \A n \in Nat : \A text \in Seq(0..n) : Formatted(text) \in Seq(0..n)
    /\ \A n \in Nat : \A base, current, candidate \in Seq(0..n) :
        AutoMerge(base, current, candidate) \in Seq(0..n) \cup {Failed}

\* The text of an operation: nothing, or a character that nobody has typed.
IsFresh(text, top) == text = << >> \/ text = <<top + 1>>

LEMMA FreshFacts ==
    ASSUME NEW top \in Nat, NEW text, IsFresh(text, top)
    PROVE  /\ IsInjective(text) /\ Len(text) \in Nat /\ text \in Seq(Char)
           /\ top <= top + Len(text) /\ top + Len(text) \in Nat
           /\ ToSet(text) \subseteq 0..(top + Len(text))
           /\ ToSet(text) \cap 0..top = {}
<1>1. CASE text = << >>
    <2>1. DOMAIN text = {} /\ Len(text) = 0 /\ text \in Seq(Char)
        BY <1>1
    <2>2. ToSet(text) = {}
        BY <2>1 DEF ToSet
    <2> QED
        BY <2>1, <2>2 DEF IsInjective
<1>2. CASE text = <<top + 1>>
    <2>1. DOMAIN text = {1} /\ Len(text) = 1 /\ text[1] = top + 1 /\ text \in Seq(Char)
        BY <1>2 DEF Char
    <2>2. ToSet(text) = {top + 1}
        BY <2>1 DEF ToSet
    <2>3. IsInjective(text)
        BY <2>1 DEF IsInjective
    <2> QED
        BY <2>1, <2>2, <2>3
<1> QED
    BY <1>1, <1>2 DEF IsFresh

\* What a client can make of a text is an operation.
LEMMA EditsAreOperations ==
    ASSUME NEW text \in Seq(Char), typed \in Nat, NEW op \in Edits(text)
    PROVE  op \in TextOperation /\ Normalized(op) /\ IsFresh(op.text, typed)
<1>1. Len(text) \in Nat /\ <<typed + 1>> \in Seq(Char) /\ << >> \in Seq(Char)
      /\ <<typed + 1>> # << >>
    BY LenProperties DEF Char
<1>2. ASSUME NEW i \in Nat
      PROVE  InsertText(i, <<typed + 1>>) \in TextOperation
             /\ Normalized(InsertText(i, <<typed + 1>>))
             /\ InsertText(i, <<typed + 1>>).text = <<typed + 1>>
    BY <1>1 DEF InsertText, Operation, TextOperation, Normalized
<1>3. ASSUME NEW i \in Nat, NEW n \in Nat \ {0}
      PROVE  DeleteText(i, n) \in TextOperation /\ Normalized(DeleteText(i, n))
             /\ DeleteText(i, n).text = << >>
    BY <1>1 DEF DeleteText, Operation, TextOperation, Normalized
<1>4. ASSUME NEW i \in Nat, NEW n \in Nat \ {0}
      PROVE  ReplaceText(i, n, <<typed + 1>>) \in TextOperation
             /\ Normalized(ReplaceText(i, n, <<typed + 1>>))
             /\ ReplaceText(i, n, <<typed + 1>>).text = <<typed + 1>>
    BY <1>1 DEF ReplaceText, Operation, TextOperation, Normalized
<1>5. \A i \in 0..Len(text) : i \in Nat
    BY <1>1
<1>6. \A i \in 0..(Len(text) - 1) : i \in Nat
    BY <1>1
<1>7. \A n \in 1..MaxRange : n \in Nat \ {0}
    OBVIOUS
<1> HIDE DEF MaxRange
<1>8. \/ \E i \in 0..Len(text) : op = InsertText(i, <<typed + 1>>)
      \/ \E i \in 0..(Len(text) - 1), n \in 1..MaxRange : op = DeleteText(i, n)
      \/ \E i \in 0..(Len(text) - 1), n \in 1..MaxRange : op = ReplaceText(i, n, <<typed + 1>>)
    BY DEF Edits
<1> QED
    BY <1>2, <1>3, <1>4, <1>5, <1>6, <1>7, <1>8 DEF IsFresh

\* A client that was told something sends an operation.
NewMessage(c, id, v, op) ==
    [ client |-> c, client_operation_id |-> id, base_revision |-> v.revision,
      op |-> op, seen |-> v.text, epoch |-> v.epoch ]

LEMMA SendIsTraffic ==
    ASSUME NEW at, NEW views, NEW messages, NEW top, NEW c \in Client,
           Traffic(views, messages, at, top), views[c] # None, NEW id,
           NEW op \in TextOperation, Normalized(op), WithinBounds(op, Len(views[c].text)),
           IsFresh(op.text, top)
    PROVE  Traffic(views, [messages EXCEPT ![c] = NewMessage(c, id, views[c], op)],
                   at, top + Len(op.text))
<1> DEFINE m == NewMessage(c, id, views[c], op)
           next == [messages EXCEPT ![c] = m]
           more == top + Len(op.text)
<1>1. /\ m.op = op /\ m.seen = views[c].text /\ m.base_revision = views[c].revision
      /\ m.epoch = views[c].epoch
    BY DEF NewMessage
<1> HIDE DEF m
<1>2. top \in Nat /\ at \in Nat /\ messages = [d \in Client |-> messages[d]]
    BY DEF Traffic
<1>3. /\ IsInjective(op.text) /\ top <= more /\ more \in Nat
      /\ ToSet(op.text) \subseteq 0..more /\ ToSet(op.text) \cap 0..top = {}
    BY <1>2, FreshFacts
<1> HIDE DEF more
<1>4. /\ next = [d \in Client |-> next[d]]
      /\ \A d \in Client : next[d] = IF d = c THEN m ELSE messages[d]
    BY <1>2
<1> HIDE DEF next
<1>5. Traffic(views, messages, at, more)
    BY <1>2, <1>3, TrafficGoesOn
<1>6. IsView(views[c], at, more) /\ IsView(views[c], at, top)
    BY <1>5 DEF Traffic
<1>7. IsMessage(m, at, more)
    <2>1. ToSet(m.seen) \subseteq 0..top
        BY <1>1, <1>2, <1>6, IsText DEF IsView
    <2>2. ToSet(m.op.text) \cap ToSet(m.seen) = {}
        BY <1>1, <1>3, <2>1
    <2> QED
        BY <1>1, <1>3, <1>6, <2>2 DEF IsMessage, IsView
<1>8. \A d \in Client : messages[d] # None => ToSet(messages[d].op.text) \cap ToSet(m.op.text) = {}
    BY <1>1, <1>3 DEF Traffic, IsMessage
<1>9. Traffic(views, next, at, more)
    BY <1>4, <1>5, <1>7, <1>8 DEF Traffic
<1> QED
    BY <1>9 DEF next, m, more

LEMMA SendIsRecorded ==
    ASSUME NEW texts, NEW s, NEW at, NEW views, NEW messages, NEW top, NEW c \in Client,
           Traffic(views, messages, at, top), Recorded(texts, s, at, views, messages, top),
           views[c] # None, NEW id, NEW op, IsFresh(op.text, top)
    PROVE  Recorded(texts, s, at, views,
                    [messages EXCEPT ![c] = NewMessage(c, id, views[c], op)], top + Len(op.text))
<1> DEFINE m == NewMessage(c, id, views[c], op)
           next == [messages EXCEPT ![c] = m]
           more == top + Len(op.text)
<1>1. /\ m.op = op /\ m.seen = views[c].text /\ m.base_revision = views[c].revision
      /\ m.epoch = views[c].epoch
    BY DEF NewMessage
<1> HIDE DEF m
<1>2. top \in Nat /\ messages = [d \in Client |-> messages[d]]
    BY DEF Traffic
<1>3. top <= more /\ more \in Nat /\ ToSet(op.text) \cap 0..top = {}
    BY <1>2, FreshFacts
<1> HIDE DEF more
<1>4. \A d \in Client : next[d] = IF d = c THEN m ELSE messages[d]
    BY <1>2
<1> HIDE DEF next
<1>5. Recorded(texts, s, at, views, messages, more)
    BY <1>2, <1>3, RecordedGoesOn
<1>6. ToSet(m.op.text) \cap ToSet(s.text) = {}
    <2>1. ToSet(s.text) \subseteq 0..top
        BY <1>2, IsText DEF Recorded
    <2> QED
        BY <1>1, <1>3, <2>1
<1>7. m.epoch = at => MessageInStep(texts, s, m)
    BY <1>1, <1>6 DEF Recorded, ViewInStep, MessageInStep, NotYetIn
<1>8. Recorded(texts, s, at, views, next, more)
    BY <1>4, <1>5, <1>7 DEF Recorded
<1> QED
    BY <1>8 DEF next, m, more

LEMMA IntentInvInit ==
    ASSUME SavesMakeUpNothing
    PROVE  Init => IntentInv
<1> SUFFICES ASSUME Init PROVE IntentInv
    OBVIOUS
<1>1. PICK text \in InitialTexts : contents = <<text>>
    BY DEF Init
<1>2. Len(contents) = 1 /\ contents[1] = text
    BY <1>1
<1>3. text \in Seq(0..Len(text)) /\ typed = Len(text)
    BY <1>2 DEF Init, SavesMakeUpNothing
<1>4. typed \in Nat /\ text \in Seq(0..typed)
    BY <1>3, LenProperties
<1>5. Traffic(view, inflight, epoch, typed)
    <2>1. \A c \in Client : view[c] = None /\ inflight[c] = None
        BY DEF Init
    <2>2. view = [c \in Client |-> view[c]] /\ inflight = [c \in Client |-> inflight[c]]
        BY DEF Init
    <2> QED
        BY <1>4, <2>1, <2>2 DEF Traffic, Init
<1>6. \A i \in 1..Len(contents) : contents[i] \in Seq(0..typed)
    BY <1>2, <1>4
<1>7. session = None /\ commit = None
    BY DEF Init
<1> QED
    BY <1>5, <1>6, <1>7 DEF IntentInv

\* What the document may become.
LEMMA OtherTextsAreText ==
    ASSUME typed \in Nat, current_text \in Seq(0..typed), NEW text \in OtherTexts,
           typed' = typed + Cardinality(ToSet(text) \ ToSet(current_text))
    PROVE  typed' \in Nat /\ typed <= typed' /\ text \in Seq(0..typed')
<1> DEFINE s == current_text
           n == typed
           m == typed'
<1>1. n \in Nat /\ s \in Seq(0..n) /\ ToSet(s) \subseteq 0..n /\ Len(s) \in Nat /\ DOMAIN s = 1..Len(s)
    BY SomeOfText, LenProperties
<1>2. text = Append(s, n + 1) \/ text = Front(s)
    BY DEF OtherTexts
<1>3. m = n + Cardinality(ToSet(text) \ ToSet(s))
    OBVIOUS
<1> HIDE DEF s, n, m
<1>4. CASE text = Append(s, n + 1)
    <2>1. s \in Seq(0..(n + 1)) /\ n + 1 \in 0..(n + 1) /\ n + 1 \in Nat /\ n <= n + 1
        BY <1>1, MoreTyped
    <2>2. /\ text \in Seq(0..(n + 1)) /\ Len(text) = Len(s) + 1
          /\ \A i \in 1..Len(s) : text[i] = s[i]
          /\ text[Len(s) + 1] = n + 1
        BY <1>4, <2>1, AppendProperties
    <2>3. DOMAIN text = 1..(Len(s) + 1)
        BY <1>1, <2>2, LenProperties
    <2>4. ToSet(text) \ ToSet(s) = {n + 1}
        <3>1. n + 1 \notin ToSet(s)
            BY <1>1
        <3>2. n + 1 \in ToSet(text)
            BY <1>1, <2>2, <2>3 DEF ToSet
        <3>3. \A i \in 1..(Len(s) + 1) : i \in DOMAIN s \/ i = Len(s) + 1
            BY <1>1
        <3>4. \A x \in ToSet(text) : x = n + 1 \/ x \in ToSet(s)
            BY <1>1, <2>2, <2>3, <3>3 DEF ToSet
        <3> QED
            BY <3>1, <3>2, <3>4
    <2>5. Cardinality({n + 1}) = 1
        BY FS_Singleton
    <2>6. m = n + 1
        BY <1>3, <2>4, <2>5
    <2> QED
        BY <2>1, <2>2, <2>6 DEF n, m
<1>5. CASE text = Front(s)
    <2> DEFINE k == Len(s) - 1
    <2>1. text = SubSeq(s, 1, k)
        BY <1>5 DEF Front
    <2>2. \A i \in 1..k : s[i] \in ToSet(s)
        <3>1. \A i \in 1..k : i \in DOMAIN s
            BY <1>1
        <3> HIDE DEF k
        <3> QED
            BY <3>1 DEF ToSet
    <2>3. 1 \in Int /\ k \in Int
        BY <1>1
    <2> HIDE DEF k
    <2>4. text \in Seq(ToSet(s))
        BY <2>1, <2>2, <2>3, SubSeqProperties
    <2>5. ToSet(text) \subseteq ToSet(s)
        BY <2>4, SomeOfText
    <2>6. ToSet(text) \ ToSet(s) = {} /\ ToSet(text) \subseteq 0..n
        BY <1>1, <2>5
    <2>7. text \in Seq(0..n)
        BY <2>4, <2>6, TextOfSome
    <2>8. Cardinality({}) = 0
        BY FS_EmptySet
    <2>9. m = n
        <3>1. Cardinality(ToSet(text) \ ToSet(s)) = 0
            BY <2>6, <2>8, Zenon
        <3> QED
            BY <1>1, <1>3, <3>1
    <2> QED
        BY <1>1, <2>7, <2>9 DEF n, m
<1> QED
    BY <1>2, <1>4, <1>5

LEMMA IntentInvNext ==
    ASSUME SavesMakeUpNothing
    PROVE  SessionInv /\ IntentInv /\ [Next]_vars => IntentInv'
<1> SUFFICES ASSUME SessionInv, IntentInv, [Next]_vars PROVE IntentInv'
    OBVIOUS
<1>0. /\ Len(contents) \in Nat /\ IsSequence(contents) /\ Len(contents) >= 1
      /\ current_text \in Seq(0..typed)
    <2>1. Len(contents) \in Nat /\ IsSequence(contents) /\ Len(contents) >= 1
        BY DEF SessionInv, IsSequence
    <2> QED
        BY <2>1 DEF IntentInv, current_text, current_version
<1>1. /\ Traffic(view, inflight, epoch, typed) /\ epoch \in Nat /\ typed \in Nat
      /\ \A i \in 1..Len(contents) : contents[i] \in Seq(0..typed)
      /\ commit # None => commit.text \in Seq(0..typed) /\ commit.base_version \in 1..Len(contents)
      /\ session # None => \E texts : Recorded(texts, session, epoch, view, inflight, typed)
    BY DEF IntentInv, Traffic
<1>2. /\ \E texts : Recorded(texts, Joined, EpochJoined, view, inflight, typed)
      /\ Traffic(view, inflight, EpochJoined, typed)
      /\ Joined.text \in Seq(0..typed)
    BY JoinedIsRecorded
<1>3. IsSessionOf(Joined, contents) /\ Joined.document_version = Len(contents)
    BY JoinedIsSession
<1>4. ASSUME NEW c \in Client, Join(c)
      PROVE  IntentInv'
    <2>1. /\ session' = Joined /\ epoch' = EpochJoined
          /\ view' = [view EXCEPT ![c] = StateOf(Joined, EpochJoined)]
          /\ UNCHANGED <<contents, inflight, commit, typed>>
        BY <1>4 DEF Join
    <2>2. PICK texts : Recorded(texts, Joined, EpochJoined, view, inflight, typed)
        BY <1>2
    <2>3. /\ Traffic(view', inflight, EpochJoined, typed)
          /\ Recorded(texts, Joined, EpochJoined, view', inflight, typed)
        BY <1>2, <2>1, <2>2, JoinIsRecorded
    <2> QED
        BY <1>1, <2>1, <2>3 DEF IntentInv
<1>5. ASSUME NEW c \in Client, NEW op \in Edits(IF view[c] = None THEN << >> ELSE view[c].text),
             Send(c, op)
      PROVE  IntentInv'
    <2> DEFINE m == NewMessage(c, sent + 1, view[c], op)
    <2>1. /\ view[c] # None /\ WithinBounds(op, Len(view[c].text))
          /\ inflight' = [inflight EXCEPT ![c] = m] /\ typed' = typed + Len(op.text)
          /\ UNCHANGED <<contents, session, epoch, view, commit>>
        BY <1>5 DEF Send, NewMessage
    <2>2. view[c].text \in Seq(Char)
        BY <1>1, <2>1, IsText DEF Traffic, IsView
    <2>3. op \in Edits(view[c].text)
        BY <2>1
    <2>4. op \in TextOperation /\ Normalized(op) /\ IsFresh(op.text, typed)
        BY <1>1, <2>2, <2>3, EditsAreOperations
    <2> HIDE DEF m
    <2>5. typed' \in Nat /\ typed <= typed'
        BY <1>1, <2>1, <2>4, FreshFacts
    <2>6. Traffic(view, inflight', epoch, typed')
        BY <1>1, <2>1, <2>4, SendIsTraffic DEF m
    <2>7. session # None => \E texts : Recorded(texts, session, epoch, view, inflight', typed')
        BY <1>1, <2>1, <2>4, SendIsRecorded DEF m
    <2>8. \A s \in Seq(0..typed) : s \in Seq(0..typed')
        BY <1>1, <2>5, MoreTyped
    <2> QED
        BY <1>1, <2>1, <2>6, <2>7, <2>8 DEF IntentInv
<1>6. ASSUME session' = Joined, epoch' = EpochJoined, UNCHANGED <<contents, view, inflight, typed>>,
             commit' # None => commit'.text \in Seq(0..typed) /\ commit'.base_version \in 1..Len(contents)
      PROVE  IntentInv'
    BY <1>1, <1>2, <1>6 DEF IntentInv
<1>7. ASSUME NEW c \in Client, ApplyOperation(c)
      PROVE  IntentInv'
    <2>1. /\ inflight[c] # None /\ epoch' = EpochJoined
          /\ UNCHANGED <<contents, view, inflight, typed, commit>>
        BY <1>7 DEF ApplyOperation
    <2>2. CASE Accepts(Joined, inflight[c])
        <3>1. session' = Accepting(Joined, inflight[c], Transformed(Joined, inflight[c]))
            BY <1>7, <2>2 DEF ApplyOperation
        <3>2. DOMAIN Joined = SessionFields
            BY <1>3 DEF IsSessionOf
        <3>3. PICK texts : Recorded(texts, Joined, EpochJoined, view, inflight, typed)
            BY <1>2
        <3>4. \E told : Recorded(told, session', EpochJoined, view, inflight, typed)
            BY <1>2, <2>1, <2>2, <3>1, <3>2, <3>3, AcceptIsRecorded
        <3> QED
            BY <1>1, <1>2, <2>1, <3>4 DEF IntentInv
    <2>3. CASE ~Accepts(Joined, inflight[c])
        <3>1. session' = Joined
            BY <1>7, <2>3 DEF ApplyOperation
        <3> QED
            BY <1>1, <1>6, <2>1, <3>1
    <2> QED
        BY <2>2, <2>3
<1>8. ASSUME NEW c \in Client, Settle(c)
      PROVE  IntentInv'
    <2>1. /\ inflight' = [inflight EXCEPT ![c] = None]
          /\ UNCHANGED <<contents, session, epoch, view, commit, typed>>
        BY <1>8 DEF Settle
    <2>2. /\ inflight' = [d \in Client |-> inflight'[d]]
          /\ \A d \in Client : inflight'[d] # None => inflight[d] # None /\ inflight'[d] = inflight[d]
        BY <1>1, <2>1 DEF Traffic
    <2>3. Traffic(view, inflight', epoch, typed)
        BY <1>1, <2>2 DEF Traffic
    <2>4. \A texts : Recorded(texts, session, epoch, view, inflight, typed) =>
                        Recorded(texts, session, epoch, view, inflight', typed)
        BY <2>2 DEF Recorded
    <2> QED
        BY <1>1, <2>1, <2>3, <2>4 DEF IntentInv
<1>9. ASSUME NEW c \in Client, NEW strategy, NEW named, BeginCommit(c, strategy, named)
      PROVE  IntentInv'
    <2> DEFINE begun == [ stage |-> "captured", text |-> Joined.text,
                          base_version |-> Joined.document_version, strategy |-> strategy,
                          result_version |-> 0 ]
    <2>1. begun.text = Joined.text /\ begun.base_version = Joined.document_version
        OBVIOUS
    <2>2. session' = Joined /\ epoch' = EpochJoined /\ commit' \in {begun, None}
          /\ UNCHANGED <<contents, view, inflight, typed>>
        BY <1>9 DEF BeginCommit
    <2> HIDE DEF begun
    <2>3. begun.text \in Seq(0..typed) /\ begun.base_version \in 1..Len(contents)
        BY <1>0, <1>2, <1>3, <2>1
    <2> QED
        BY <1>6, <2>2, <2>3
\* The document has a version more.
<1>10. ASSUME NEW text, contents' = Append(contents, text), typed' \in Nat, typed <= typed',
              text \in Seq(0..typed'), UNCHANGED <<session, epoch, view, inflight>>,
              commit' # None => /\ commit # None
                                /\ commit'.text = commit.text
                                /\ commit'.base_version = commit.base_version
       PROVE  IntentInv'
    <2>1. \A s \in Seq(0..typed) : s \in Seq(0..typed')
        BY <1>1, <1>10, MoreTyped
    <2>2. /\ Len(contents') = Len(contents) + 1 /\ contents'[Len(contents) + 1] = text
          /\ \A i \in 1..Len(contents) : contents'[i] = contents[i]
        BY <1>0, <1>10, SequenceGrows
    <2>3. \A i \in 1..Len(contents') : contents'[i] \in Seq(0..typed')
        <3>1. \A i \in 1..Len(contents') : i \in 1..Len(contents) \/ i = Len(contents) + 1
            BY <1>0, <2>2
        <3> QED
            BY <1>1, <1>10, <2>1, <2>2, <3>1
    <2>4. commit' # None => commit'.text \in Seq(0..typed') /\ commit'.base_version \in 1..Len(contents')
        BY <1>0, <1>1, <1>10, <2>1, <2>2
    <2>5. Traffic(view, inflight, epoch, typed')
        BY <1>1, <1>10, TrafficGoesOn
    <2>6. session # None => \E texts : Recorded(texts, session, epoch, view, inflight, typed')
        BY <1>1, <1>10, RecordedGoesOn
    <2> QED
        BY <1>10, <2>3, <2>4, <2>5, <2>6 DEF IntentInv
<1>11. CASE SaveCommit
    <2>1. commit # None /\ UNCHANGED <<session, epoch, view, inflight, typed>>
        BY <1>11 DEF SaveCommit
    <2>2. CASE SavedText \notin {Failed, current_text}
        <3> DEFINE saved == [commit EXCEPT !.stage = "saved", !.result_version = current_version + 1]
        <3>1. commit' = saved /\ contents' = Append(contents, SavedText)
            BY <1>11, <2>2 DEF SaveCommit
        <3>2. saved.text = commit.text /\ saved.base_version = commit.base_version
            BY <2>1 DEF SessionInv, CommitFields
        <3> HIDE DEF saved
        <3>3. SavedText \in Seq(0..typed)
            <4> DEFINE base == contents[commit.base_version]
                       candidate == Formatted(commit.text)
            <4>1. base \in Seq(0..typed) /\ commit.text \in Seq(0..typed)
                BY <1>1, <2>1
            <4>2. candidate \in Seq(0..typed)
                BY <1>1, <4>1 DEF SavesMakeUpNothing
            <4>3. SavedText \in {Failed, candidate, AutoMerge(base, current_text, candidate)}
                BY DEF SavedText
            <4> HIDE DEF base, candidate
            <4>4. AutoMerge(base, current_text, candidate) \in Seq(0..typed) \cup {Failed}
                BY <1>0, <1>1, <4>1, <4>2 DEF SavesMakeUpNothing
            <4> QED
                BY <2>2, <4>2, <4>3, <4>4
        <3>4. typed' \in Nat /\ typed <= typed' /\ typed' = typed
            BY <1>1, <2>1
        <3> QED
            BY <1>10, <2>1, <3>1, <3>2, <3>3, <3>4
    <2>3. CASE SavedText \in {Failed, current_text}
        <3>1. commit' = None /\ UNCHANGED contents
            BY <1>11, <2>3 DEF SaveCommit
        <3> QED
            BY <1>1, <2>1, <3>1 DEF IntentInv
    <2> QED
        BY <2>2, <2>3
<1>12. CASE FinishCommit
    <2>1. /\ session' = NewSession(commit.result_version, current_text) /\ epoch' = epoch + 1
          /\ commit' = None /\ UNCHANGED <<contents, view, inflight, typed>>
        BY <1>12 DEF FinishCommit
    <2>2. \E texts : Recorded(texts, session', epoch', view, inflight, typed)
        BY <1>0, <1>1, <2>1, NewIsRecorded
    <2>3. Traffic(view, inflight, epoch', typed)
        <3>1. epoch' \in Nat /\ epoch <= epoch' /\ typed <= typed
            BY <1>1, <2>1
        <3> QED
            BY <1>1, <3>1, TrafficGoesOn
    <2> QED
        BY <1>1, <2>1, <2>2, <2>3 DEF IntentInv
<1>13. ASSUME NEW text \in OtherTexts, SaveElsewhere(text)
       PROVE  IntentInv'
    <2>1. /\ contents' = Append(contents, text)
          /\ typed' = typed + Cardinality(ToSet(text) \ ToSet(current_text))
          /\ UNCHANGED <<session, epoch, view, inflight, commit>>
        BY <1>13 DEF SaveElsewhere
    <2>2. typed' \in Nat /\ typed <= typed' /\ text \in Seq(0..typed')
        BY <1>0, <1>1, <2>1, OtherTextsAreText
    <2> QED
        BY <1>10, <2>1, <2>2
<1>14. CASE UNCHANGED vars
    BY <1>1, <1>14 DEF vars, IntentInv
<1> QED
    BY <1>4, <1>5, <1>7, <1>8, <1>9, <1>11, <1>12, <1>13, <1>14 DEF Next

THEOREM IntentInvariant ==
    ASSUME SavesMakeUpNothing
    PROVE  Spec => []IntentInv
<1>1. Init => IntentInv
    BY IntentInvInit
<1>2. SessionInv /\ IntentInv /\ [Next]_vars => IntentInv'
    BY IntentInvNext
<1> QED
    BY <1>1, <1>2, SessionInvariant, PTL DEF Spec

\* What the accepted operation of a message does to the session's text.
LEMMA IntentIsPreserved ==
    ASSUME SessionInv, IntentInv, NEW c \in Client, ApplyOperation(c),
           Accepts(Joined, inflight[c]), inflight[c].epoch = EpochJoined,
           inflight[c].base_revision >= Joined.revision - Len(Joined.operations),
           IsInjective(Joined.text), IsInjective(inflight[c].seen), NoneReturned(inflight[c])
    PROVE  Preserves(inflight[c], Joined.text, session'.text)
<1> DEFINE m == inflight[c]
           s == Joined
           op == Transformed(s, m)
<1>1. PICK texts : Recorded(texts, s, EpochJoined, view, inflight, typed)
    BY JoinedIsRecorded
<1>2. /\ Traffic(view, inflight, EpochJoined, typed) /\ typed \in Nat
      /\ m # None
    BY JoinedIsRecorded DEF Traffic, ApplyOperation
<1>3. IsMessage(m, EpochJoined, typed) /\ MessageInStep(texts, s, m)
    BY <1>1, <1>2 DEF Traffic, Recorded
<1>4. Story(texts, s) /\ s.text \in Seq(Char)
    BY <1>1, <1>2, IsText DEF Recorded
<1>5. DOMAIN s = SessionFields
    BY JoinedIsSession DEF IsSessionOf
<1>6. /\ ~AlreadyAccepted(s, m) /\ op # Conflict /\ WithinBounds(op, Len(s.text))
    BY DEF Accepts
<1>7. session' = Accepting(s, m, op)
    BY DEF ApplyOperation
<1> HIDE DEF s, m
<1>8. /\ m.op \in TextOperation /\ Normalized(m.op) /\ WithinBounds(m.op, Len(m.seen))
      /\ IsInjective(m.op.text) /\ m.seen \in Seq(Char)
      /\ ToSet(m.op.text) \cap ToSet(m.seen) = {} /\ m.base_revision \in Nat
      /\ m.base_revision <= s.revision /\ texts[m.base_revision] = m.seen /\ NotYetIn(s, m)
    BY <1>2, <1>3, IsText DEF IsMessage, MessageInStep
<1>9. /\ IsInjective(s.text) /\ IsInjective(m.seen)
      /\ m.base_revision >= s.revision - Len(s.operations)
    BY DEF s, m
<1>10. Len(s.operations) \in Nat /\ s.revision \in Nat /\ DOMAIN s.operations = 1..Len(s.operations)
       /\ IsSequence(s.operations)
    BY <1>4 DEF Story, IsSequence
<1>11. PutIn(s, m) \cap ToSet(m.seen) = {}
    BY <1>10 DEF NoneReturned, PutIn, s, m
<1>12. ToSet(m.op.text) \cap ToSet(s.text) = {}
    <2>1. ~(m.base_revision < s.revision - Len(s.operations))
        BY <1>8, <1>9, <1>10
    <2>2. ~\E i \in 1..Len(s.operations) :
            /\ s.operations[i].client = m.client
            /\ s.operations[i].client_operation_id = m.client_operation_id
            /\ s.operations[i].server_revision > m.base_revision
        BY <1>6, <1>10 DEF AlreadyAccepted
    <2> QED
        BY <1>8, <2>1, <2>2 DEF NotYetIn
<1>13. Follows(m.seen, m.op, PutIn(s, m), s.text, op)
    BY <1>4, <1>6, <1>8, <1>9, TransformedFollows
<1> HIDE DEF op
<1>14. Preserves(m, s.text, ApplyText(s.text, op))
    BY <1>4, <1>6, <1>8, <1>9, <1>11, <1>12, <1>13, FollowsPreserves
<1>15. session'.text = ApplyText(s.text, op)
    <2> DEFINE t == Accepting(s, m, op)
    <2>1. IsAccepting(t, s, m, op)
        BY <1>5, <1>10, AcceptingPlaces
    <2>2. session' = t
        BY <1>7
    <2> HIDE DEF t
    <2>3. t.text = ApplyText(s.text, op)
        BY <2>1 DEF IsAccepting
    <2> QED
        BY <2>2, <2>3
<1> QED
    BY <1>14, <1>15 DEF s, m

\* An operation accepted in the session it was made in does to the session's text what
\* its author meant, however many were accepted since: the characters selected go and no
\* other, the rest keeps its order, and what was typed stands where it was typed in
\* relation to everything the author saw (_transform_operation, apply_operation).
THEOREM IntentionPreservedHolds ==
    ASSUME SavesMakeUpNothing
    PROVE  Spec => IntentionPreserved
<1>1. SessionInv /\ IntentInv /\ [Next]_vars =>
        [\A c \in Client :
            /\ ApplyOperation(c)
            /\ Accepts(Joined, inflight[c])
            /\ inflight[c].epoch = EpochJoined
            /\ inflight[c].base_revision >= Joined.revision - Len(Joined.operations)
            /\ IsInjective(Joined.text) /\ IsInjective(inflight[c].seen)
            /\ NoneReturned(inflight[c])
            => Preserves(inflight[c], Joined.text, session'.text)]_vars
    BY IntentIsPreserved
<1>2. Spec => []IntentInv
    BY IntentInvariant
<1> QED
    BY <1>1, <1>2, SessionInvariant, PTL DEF Spec, IntentionPreserved

-----------------------------------------------------------------------------
(* Presence.                                                               *)

Socket == [open : BOOLEAN, waiting : BOOLEAN, wrote : BOOLEAN]

Tab == [here : BOOLEAN, socket : Nat, sent : Nat, answered : Nat]

PresenceTypeOK ==
    /\ presence \in 0..(MaxSockets + 1)
    /\ sockets \in Seq(Socket) /\ Len(sockets) <= MaxSockets
    /\ present \in [PresenceTab -> Tab]
    /\ leaves \in Nat

\* A tab that is there, or has an answer to come, or a DELETE.
LeaveToCome == leaves > 0 \/ \E t \in PresenceTab : present[t].here \/ UnderWay(t) > 0

\* Who wrote the row last has yet to take it away: the handler of the socket that did, or,
\* of what was written over HTTP, a tab.
SomebodyWillLeave ==
    /\ presence \in 1..MaxSockets => presence \in DOMAIN sockets /\ sockets[presence].wrote
    /\ presence = OverHttp => LeaveToCome

PresenceInv == PresenceTypeOK /\ (lost \/ SomebodyWillLeave)

-----------------------------------------------------------------------------
\* A list is a function on its positions.
LEMMA FunctionIsSeq ==
    ASSUME NEW S, NEW n \in Nat, NEW f \in [1..n -> S]
    PROVE  f \in Seq(S) /\ Len(f) = n /\ DOMAIN f = 1..n
<1>1. f \in Seq(S)
  BY SeqDef
<1>2. DOMAIN f = 1..n
  OBVIOUS
<1>3. Len(f) \in Nat /\ DOMAIN f = 1..Len(f)
  BY <1>1, LenProperties
<1>4. 1..n = 1..Len(f)
  BY <1>2, <1>3
<1>5. Len(f) = n
  BY <1>3, <1>4
<1> QED BY <1>1, <1>2, <1>5

\* The sockets are the same ones, and have written what they had.
SocketsKept ==
    /\ sockets' \in Seq(Socket) /\ Len(sockets') = Len(sockets)
    /\ \A i \in DOMAIN sockets : i \in DOMAIN sockets' /\ sockets'[i].wrote = sockets[i].wrote

\* What a tab does to its socket.
LEMMA SocketMarked ==
    ASSUME PresenceTypeOK, NEW i, NEW mark, sockets' = [sockets EXCEPT ![i] = mark],
           i \in DOMAIN sockets => mark \in Socket /\ mark.wrote = sockets[i].wrote
    PROVE  SocketsKept
<1>1. sockets \in Seq(Socket) /\ DOMAIN sockets = 1..Len(sockets)
  BY DEF PresenceTypeOK
<1>2. CASE i \in DOMAIN sockets
  BY <1>1, <1>2 DEF SocketsKept
<1>3. CASE i \notin DOMAIN sockets
  <2>1. sockets' = sockets
    BY <1>1, <1>3
  <2> QED BY <1>1, <2>1 DEF SocketsKept
<1> QED BY <1>2, <1>3

LEMMA CloseKeeps ==
    ASSUME PresenceTypeOK, NEW t \in PresenceTab, sockets' = SocketClosed(t)
    PROVE  SocketsKept
<1>1. \A i \in DOMAIN sockets : sockets[i] \in Socket
  BY DEF PresenceTypeOK
<1>2. \A i \in DOMAIN sockets : [sockets[i] EXCEPT !.open = FALSE] \in Socket
  BY <1>1 DEF Socket
<1>3. sockets' \in [1..Len(sockets) -> Socket]
  BY <1>1, <1>2 DEF SocketClosed, PresenceTypeOK
<1>4. \A i \in DOMAIN sockets : sockets'[i].wrote = sockets[i].wrote
  BY <1>1 DEF SocketClosed, Socket
<1>5. Len(sockets) \in Nat /\ DOMAIN sockets = 1..Len(sockets)
  BY DEF PresenceTypeOK
<1> QED BY <1>3, <1>4, <1>5, FunctionIsSeq DEF SocketsKept

\* A step that changes a tab and keeps the row, or is somebody who will take it away.
LEMMA TabStep ==
    ASSUME PresenceInv, NEW t \in PresenceTab, NEW tab \in Tab, leaves' \in Nat,
           present' = [present EXCEPT ![t] = tab], SocketsKept, lost' = lost,
           presence' = presence \/ presence' = OverHttp,
           \/ leaves' > 0 \/ tab.here \/ tab.sent + tab.answered > 0
           \/ /\ presence' = presence /\ leaves' = leaves /\ tab.here = present[t].here
              /\ tab.sent = present[t].sent /\ tab.answered = present[t].answered
    PROVE  PresenceInv'
<1>1. PresenceTypeOK'
  BY PresenceAssumption DEF PresenceInv, PresenceTypeOK, SocketsKept, OverHttp
<1>2. present'[t] = tab /\ \A u \in PresenceTab \ {t} : present'[u] = present[u]
  BY DEF PresenceInv, PresenceTypeOK
<1>3. LeaveToCome' \/ (presence' = presence /\ (LeaveToCome => LeaveToCome'))
  BY <1>2 DEF LeaveToCome, UnderWay
<1>4. ASSUME SomebodyWillLeave PROVE SomebodyWillLeave'
  <2>1. presence' \in 1..MaxSockets => presence' \in DOMAIN sockets' /\ sockets'[presence'].wrote
    BY <1>4, PresenceAssumption DEF SomebodyWillLeave, SocketsKept, OverHttp
  <2>2. presence' = OverHttp => LeaveToCome'
    BY <1>3, <1>4 DEF SomebodyWillLeave
  <2> QED BY <2>1, <2>2 DEF SomebodyWillLeave, OverHttp
<1> QED BY <1>1, <1>4 DEF PresenceInv

\* A step that takes no tab, or nothing, away.
LEMMA SocketStep ==
    ASSUME PresenceInv, present' = present, leaves' = leaves, SocketsKept,
           lost' = lost, presence' = presence \/ presence' = MaxSockets + 1
    PROVE  PresenceInv'
<1>1. PresenceTypeOK'
  BY PresenceAssumption DEF PresenceInv, PresenceTypeOK, SocketsKept
<1>2. ASSUME SomebodyWillLeave PROVE SomebodyWillLeave'
  BY <1>2, PresenceAssumption
     DEF SomebodyWillLeave, SocketsKept, OverHttp, LeaveToCome, UnderWay
<1> QED BY <1>1, <1>2 DEF PresenceInv

-----------------------------------------------------------------------------
LEMMA PresenceInvInit == PresenceInit => PresenceInv
<1> SUFFICES ASSUME PresenceInit PROVE PresenceInv
  OBVIOUS
<1>1. PresenceTypeOK
  <2>1. [here |-> FALSE, socket |-> 0, sent |-> 0, answered |-> 0] \in Tab
    BY DEF Tab
  <2> QED BY <2>1, PresenceAssumption DEF PresenceInit, PresenceTypeOK, NoRow
<1>2. SomebodyWillLeave
  BY PresenceAssumption DEF PresenceInit, SomebodyWillLeave, NoRow, OverHttp
<1> QED BY <1>1, <1>2 DEF PresenceInv

LEMMA PresenceInvNext == PresenceInv /\ [PresenceNext]_presenceVars => PresenceInv'
<1> SUFFICES ASSUME PresenceInv, [PresenceNext]_presenceVars PROVE PresenceInv'
  OBVIOUS
<1>0. /\ PresenceTypeOK /\ leaves \in Nat
      /\ \A i \in DOMAIN sockets : sockets[i] \in Socket
      /\ sockets \in Seq(Socket) /\ DOMAIN sockets = 1..Len(sockets) /\ Len(sockets) \in Nat
  BY DEF PresenceInv, PresenceTypeOK
<1>a. \A t \in PresenceTab :
        /\ present[t] \in Tab /\ present[t].here \in BOOLEAN /\ present[t].socket \in Nat
        /\ present[t].sent \in Nat /\ present[t].answered \in Nat
  BY DEF PresenceInv, PresenceTypeOK, Tab
<1>1. CASE UNCHANGED presenceVars
  BY <1>0, <1>1, SocketStep DEF presenceVars, SocketsKept
<1>2. ASSUME NEW t \in PresenceTab, OpenDocument(t) PROVE PresenceInv'
  <2> DEFINE written == present[t].sent + 1
             tab == [present[t] EXCEPT !.here = TRUE, !.socket = 0, !.sent = written]
  <2>1. written \in Nat
    BY <1>a
  <2>2. present' = [present EXCEPT ![t] = tab]
    BY <1>2 DEF OpenDocument
  <2> HIDE DEF written
  <2>3. tab \in Tab /\ tab.here
    BY <1>a, <2>1 DEF Tab
  <2> HIDE DEF tab
  <2>4. SocketsKept
    BY <1>0, <1>2, CloseKeeps DEF OpenDocument
  <2>5. leaves' \in Nat /\ presence' = presence /\ lost' = lost
    BY <1>0, <1>2 DEF OpenDocument
  <2> QED BY <2>2, <2>3, <2>4, <2>5, TabStep
<1>3. ASSUME NEW t \in PresenceTab, LeaveDocument(t) PROVE PresenceInv'
  <2> DEFINE tab == [present[t] EXCEPT !.here = FALSE, !.socket = 0]
  <2>0. leaves' \in Nat /\ leaves' > 0
    BY <1>0, <1>3 DEF LeaveDocument
  <2>1. present' = [present EXCEPT ![t] = tab]
    BY <1>3 DEF LeaveDocument
  <2>2. tab \in Tab
    BY <1>a DEF Tab
  <2> HIDE DEF tab
  <2>3. SocketsKept
    BY <1>0, <1>3, CloseKeeps DEF LeaveDocument
  <2> QED BY <1>3, <2>0, <2>1, <2>2, <2>3, TabStep DEF LeaveDocument
<1>4. ASSUME NEW t \in PresenceTab, OpenSocket(t) PROVE PresenceInv'
  <2> DEFINE new == [open |-> TRUE, waiting |-> TRUE, wrote |-> FALSE]
             tab == [present[t] EXCEPT !.socket = Len(sockets')]
  <2>1. new \in Socket /\ sockets' = Append(sockets, new) /\ Len(sockets) < MaxSockets
    BY <1>4 DEF OpenSocket, Socket
  <2> HIDE DEF new
  <2>2. /\ sockets' \in Seq(Socket) /\ Len(sockets') = Len(sockets) + 1
        /\ \A i \in DOMAIN sockets : i \in DOMAIN sockets' /\ sockets'[i] = sockets[i]
    BY <1>0, <2>1
  <2>3. /\ tab \in Tab /\ tab.here = present[t].here
        /\ tab.sent = present[t].sent /\ tab.answered = present[t].answered
    BY <1>a, <1>0, <2>2 DEF Tab
  <2>4. present' = [present EXCEPT ![t] = tab]
    BY <1>4 DEF OpenSocket
  <2> HIDE DEF tab
  <2>5. PresenceTypeOK'
    <3>1. UNCHANGED <<presence, leaves>> /\ Len(sockets') <= MaxSockets
      BY <1>0, <1>4, <2>1, <2>2, PresenceAssumption DEF OpenSocket
    <3>2. present' \in [PresenceTab -> Tab]
      BY <1>0, <2>3, <2>4 DEF PresenceTypeOK
    <3> QED BY <1>0, <2>2, <3>1, <3>2 DEF PresenceTypeOK
  <2>6. LeaveToCome => LeaveToCome'
    <3>1. \A u \in PresenceTab : /\ present'[u].here = present[u].here
                                 /\ UnderWay(u)' = UnderWay(u)
      BY <1>0, <2>3, <2>4 DEF PresenceTypeOK, UnderWay
    <3> QED BY <1>4, <3>1 DEF LeaveToCome, OpenSocket
  <2> QED BY <1>4, <2>2, <2>5, <2>6 DEF OpenSocket, PresenceInv, SomebodyWillLeave, OverHttp
<1>5. ASSUME NEW t \in PresenceTab, SendHeartbeat(t) PROVE PresenceInv'
  <2>1. CASE present[t].socket # 0
    <3> DEFINE mark == [sockets[present[t].socket] EXCEPT !.waiting = TRUE]
    <3>1. sockets' = [sockets EXCEPT ![present[t].socket] = mark]
      BY <1>5, <2>1 DEF SendHeartbeat
    <3>2. present[t].socket \in DOMAIN sockets =>
            mark \in Socket /\ mark.wrote = sockets[present[t].socket].wrote
      BY <1>0 DEF Socket
    <3> HIDE DEF mark
    <3>3. SocketsKept
      BY <1>0, <3>1, <3>2, SocketMarked
    <3> QED BY <1>5, <2>1, <3>3, SocketStep DEF SendHeartbeat
  <2>2. CASE present[t].socket = 0
    <3> DEFINE written == present[t].sent + 1
               tab == [present[t] EXCEPT !.sent = written]
    <3>1. written \in Nat /\ written > 0
      BY <1>a
    <3>2. present' = [present EXCEPT ![t] = tab]
      BY <1>5, <2>2 DEF SendHeartbeat
    <3> HIDE DEF written
    <3>3. tab \in Tab /\ tab.sent = written /\ tab.answered \in Nat
      BY <1>a, <3>1 DEF Tab
    <3> HIDE DEF tab
    <3>4. tab.sent + tab.answered > 0
      BY <3>1, <3>3
    <3>5. SocketsKept
      BY <1>0, <1>5, <2>2 DEF SendHeartbeat, SocketsKept
    <3> QED BY <1>0, <1>5, <2>2, <3>2, <3>3, <3>4, <3>5, TabStep DEF SendHeartbeat
  <2> QED BY <2>1, <2>2
<1>6. ASSUME NEW t \in PresenceTab, HandlePost(t) PROVE PresenceInv'
  <2> DEFINE written == present[t].sent - 1
             answered == present[t].answered + 1
             tab == [present[t] EXCEPT !.sent = written, !.answered = answered]
  <2>1. written \in Nat /\ answered \in Nat /\ written + answered > 0
    BY <1>a, <1>6 DEF HandlePost
  <2>2. present' = [present EXCEPT ![t] = tab]
    BY <1>6 DEF HandlePost
  <2> HIDE DEF written, answered
  <2>3. tab \in Tab /\ tab.sent = written /\ tab.answered = answered
    BY <1>a, <2>1 DEF Tab
  <2> HIDE DEF tab
  <2>4. SocketsKept
    BY <1>0, <1>6 DEF HandlePost, SocketsKept
  <2> QED BY <1>0, <1>6, <2>1, <2>2, <2>3, <2>4, TabStep DEF HandlePost
<1>7. ASSUME NEW t \in PresenceTab, FinishPost(t) PROVE PresenceInv'
  <2> DEFINE answered == present[t].answered - 1
             tab == [present[t] EXCEPT !.answered = answered]
  <2>1. answered \in Nat /\ leaves' \in Nat
    BY <1>0, <1>a, <1>7 DEF FinishPost
  <2>2. present' = [present EXCEPT ![t] = tab]
    BY <1>7 DEF FinishPost
  <2> HIDE DEF answered
  <2>3. tab \in Tab /\ tab.here = present[t].here
    BY <1>a, <2>1 DEF Tab
  <2> HIDE DEF tab
  <2>4. tab.here \/ leaves' > 0
    BY <1>0, <1>a, <1>7, <2>3 DEF FinishPost
  <2>5. SocketsKept
    BY <1>0, <1>7 DEF FinishPost, SocketsKept
  <2> QED BY <1>7, <2>1, <2>2, <2>3, <2>4, <2>5, TabStep DEF FinishPost
<1>8. ASSUME NEW t \in PresenceTab, BreakSocket(t) PROVE PresenceInv'
  <2> DEFINE i == present[t].socket
             tab == [present[t] EXCEPT !.socket = 0]
  <2>1. PICK w \in {sockets[i].waiting, FALSE} :
            sockets' = [sockets EXCEPT ![i] = [@ EXCEPT !.open = FALSE, !.waiting = w]]
    BY <1>8 DEF BreakSocket
  <2> DEFINE mark == [sockets[i] EXCEPT !.open = FALSE, !.waiting = w]
  <2>2. sockets' = [sockets EXCEPT ![i] = mark]
    BY <2>1
  <2>3. i \in DOMAIN sockets => mark \in Socket /\ mark.wrote = sockets[i].wrote
    BY <1>0 DEF Socket
  <2> HIDE DEF mark
  <2>4. SocketsKept
    BY <1>0, <2>2, <2>3, SocketMarked
  <2>5. present' = [present EXCEPT ![t] = tab]
    BY <1>8 DEF BreakSocket
  <2>6. /\ tab \in Tab /\ tab.here = present[t].here
        /\ tab.sent = present[t].sent /\ tab.answered = present[t].answered
    BY <1>a DEF Tab
  <2> HIDE DEF tab
  <2> QED BY <1>0, <1>8, <2>4, <2>5, <2>6, TabStep DEF BreakSocket
<1>9. ASSUME NEW i \in DOMAIN sockets, HandleHeartbeat(i) \/ HandleClose(i) PROVE PresenceInv'
  <2>1. PICK mark \in Socket :
            /\ sockets' = [sockets EXCEPT ![i] = mark]
            /\ presence' = i => mark.wrote
    <3>1. CASE HandleHeartbeat(i)
      <4> DEFINE mark == [sockets[i] EXCEPT !.waiting = FALSE, !.wrote = TRUE]
      <4>1. mark \in Socket /\ mark.wrote = TRUE
        BY <1>0 DEF Socket
      <4>2. sockets' = [sockets EXCEPT ![i] = mark] /\ presence' = i
        BY <3>1 DEF HandleHeartbeat
      <4> HIDE DEF mark
      <4> QED BY <4>1, <4>2
    <3>2. CASE HandleClose(i)
      <4> DEFINE mark == [sockets[i] EXCEPT !.wrote = FALSE]
      <4>1. mark \in Socket /\ mark.wrote = FALSE
        BY <1>0 DEF Socket
      <4>2. sockets' = [sockets EXCEPT ![i] = mark] /\ presence' # i
        BY <3>2, <1>0, PresenceAssumption DEF HandleClose, NoRow, PresenceTypeOK
      <4> HIDE DEF mark
      <4> QED BY <4>1, <4>2
    <3> QED BY <1>9, <3>1, <3>2
  <2>2. /\ sockets' \in Seq(Socket) /\ Len(sockets') = Len(sockets) /\ sockets'[i] = mark
        /\ \A j \in DOMAIN sockets : j \in DOMAIN sockets' /\ (j # i => sockets'[j] = sockets[j])
    BY <1>0, <2>1
  <2>3. /\ present' = present /\ leaves' = leaves /\ lost' = lost
        /\ presence' \in {i, presence, MaxSockets + 1}
    BY <1>9 DEF HandleHeartbeat, HandleClose, NoRow
  <2>4. PresenceTypeOK'
    BY <1>0, <2>2, <2>3, PresenceAssumption DEF PresenceTypeOK
  <2>5. ASSUME SomebodyWillLeave PROVE SomebodyWillLeave'
    <3>1. LeaveToCome' <=> LeaveToCome
      BY <2>3 DEF LeaveToCome, UnderWay
    <3>2. presence' \in 1..MaxSockets => presence' \in DOMAIN sockets' /\ sockets'[presence'].wrote
      BY <1>0, <2>1, <2>2, <2>3, <2>5, PresenceAssumption DEF SomebodyWillLeave
    <3>3. presence' = OverHttp => presence = OverHttp
      BY <1>0, <2>3, PresenceAssumption DEF OverHttp
    <3> QED BY <2>5, <3>1, <3>2, <3>3 DEF SomebodyWillLeave
  <2> QED BY <2>3, <2>4, <2>5 DEF PresenceInv
<1>10. CASE HandleLeave
  BY <1>0, <1>10, PresenceAssumption
     DEF HandleLeave, PresenceInv, PresenceTypeOK, SomebodyWillLeave, NoRow, OverHttp
<1>11. CASE Expire
  BY <1>0, <1>11, SocketStep DEF Expire, SocketsKept, NoRow
<1>12. CASE Lose
  <2>0. lost' = TRUE /\ presence' = presence
    BY <1>12 DEF Lose
  <2>1. CASE leaves > 0 /\ leaves' = leaves - 1 /\ UNCHANGED <<present, sockets>>
    BY <1>0, <2>0, <2>1 DEF PresenceInv, PresenceTypeOK
  <2>2. ASSUME NEW t \in PresenceTab, sockets' = SocketClosed(t), leaves' = leaves + 1,
               present' = [present EXCEPT ![t].here = FALSE, ![t].socket = 0, ![t].answered = 0]
        PROVE  PresenceInv'
    <3> DEFINE tab == [present[t] EXCEPT !.here = FALSE, !.socket = 0, !.answered = 0]
    <3>1. tab \in Tab
      BY <1>a DEF Tab
    <3>2. present' = [present EXCEPT ![t] = tab]
      BY <2>2
    <3> HIDE DEF tab
    <3>3. SocketsKept
      BY <1>0, <2>2, CloseKeeps
    <3>4. leaves' \in Nat
      BY <1>0, <2>2
    <3> QED BY <1>0, <2>0, <3>1, <3>2, <3>3, <3>4
            DEF PresenceInv, PresenceTypeOK, SocketsKept
  <2>3. ASSUME NEW i \in DOMAIN sockets, leaves' = leaves,
               sockets' = [sockets EXCEPT
                    ![i] = [open |-> FALSE, waiting |-> FALSE, wrote |-> FALSE]],
               present' = [t \in PresenceTab |->
                    IF present[t].socket = i THEN [present[t] EXCEPT !.socket = 0]
                    ELSE present[t]]
        PROVE  PresenceInv'
    <3>1. [open |-> FALSE, waiting |-> FALSE, wrote |-> FALSE] \in Socket
      BY DEF Socket
    <3>2. sockets' \in Seq(Socket) /\ Len(sockets') = Len(sockets)
      BY <1>0, <2>3, <3>1
    <3>3. \A t \in PresenceTab : [present[t] EXCEPT !.socket = 0] \in Tab
      BY <1>a DEF Tab
    <3>4. present' \in [PresenceTab -> Tab]
      BY <1>a, <2>3, <3>3
    <3> QED BY <1>0, <2>0, <2>3, <3>2, <3>4 DEF PresenceInv, PresenceTypeOK
  <2> QED BY <1>12, <2>1, <2>2, <2>3 DEF Lose
<1> QED
  BY <1>1, <1>2, <1>3, <1>4, <1>5, <1>6, <1>7, <1>8, <1>9, <1>10, <1>11, <1>12 DEF PresenceNext

THEOREM PresenceInvariant == PresenceSpec => []PresenceInv
BY PresenceInvInit, PresenceInvNext, PTL DEF PresenceSpec

\* Once every tab has left and nothing is under way, delete_editor_presence has had the
\* last word, unless something was lost.
THEOREM LeftIsGoneHolds == PresenceSpec => []LeftIsGone
<1>1. PresenceInv => LeftIsGone
  <2> SUFFICES ASSUME PresenceInv, Quiet, ~lost PROVE presence = NoRow
    BY DEF LeftIsGone
  <2>1. ~LeaveToCome
    BY DEF Quiet, LeaveToCome
  <2>2. presence \notin 1..MaxSockets /\ presence # OverHttp
    BY <2>1 DEF PresenceInv, SomebodyWillLeave, Quiet
  <2> QED BY <2>2, PresenceAssumption DEF PresenceInv, PresenceTypeOK, OverHttp, NoRow
<1> QED BY <1>1, PresenceInvariant, PTL
=============================================================================
