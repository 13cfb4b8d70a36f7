# OpenJson in TLA+

OpenJson is a collaborative database of versioned JSON documents: a FastAPI
server over one SQLite file and a browser editor. Documents live at paths in
projects; every change is an event with a JSON Patch, and the stored snapshot
is a cache of the event log. Several people edit one document by saving
full contents against a base version (with an optional three-way merge), by
typing into a live text session, or offline, through a queue that is flushed
later. Members have roles, propose and review changes, and comment; tabs learn
of each other's saves through WebSockets, polling and Redis.

This directory models that system: patching and merging, the document store
with its log and its integrity checks, live text from the keystroke to the
other browser, offline queues, tabs that follow a document, presence, members,
reviews, comments, sessions and requests, ZIP imports, and the files of backups. TLC checks
the modules on small instances; TLAPS proves, for instances of any size, that the store
implements an abstract history of versions, that the inverse of a patch undoes it, that the
integrity reports can be trusted, that an edit of live text does what its author meant, and all
other safety properties but those of the diff and the merge. Paths below are relative to `src/`.

## The system

| part | state | operations | hard behaviour | what makes it correct |
|---|---|---|---|---|
| JSON Patch engine (`app/json_patch.py`, `app/json_pointer.py`) | a working copy, the inverse operations | add, replace, remove at a pointer | array shifts, overwritten keys, `-`, failure mid-patch | the inverse undoes exactly; changed paths cover every change; all or nothing |
| Diff and merge (`app/replay.py`, `app/document_service.py`) | none | diff, patch from a diff, auto-merge | order of removals, overlaps, arrays, Python's `==` | the patch reproduces the candidate; a merge is three-way and symmetric |
| Document store (`app/document_service.py`) | `json_documents`, `document_events` | create, patch, save, merge, delete, restore, rollback, load | stale bases, long mixes of operations, paths taken, limits | the chain is unbroken; replay gives the snapshot; a version means one content forever |
| Compaction (`app/snapshot_compaction_service.py`) | `document_snapshots` | compact, reconstruct | a row made at another version | reading from it equals reading the whole log |
| Usage limits (`app/project_usage_service.py`) | derived | check on each write | restores and rollbacks that grow | limits hold in every state |
| Integrity checks (`app/integrity_service.py`) | none | read a document, then its events | a save between the two reads; a check that compares too little | a damaged log is reported, a healthy one passes |
| Live text (`app/text_collaboration_service.py`) | `_sessions` in memory: text, revision, recent operations | join, op, commit | operations on old revisions, repeats, resets, a commit of three transactions | the author's intention survives; nothing accepted is lost or doubled |
| Live text client (`static/app.js`) | buffer, shadow, revision, the operation in flight, timers | input, accepted op, state, error, resync | sockets lost with messages in them, broadcasts out of order | the shadow is a text of the session; editors converge |
| Realtime hub (`app/realtime_service.py`, the socket of `app/main.py`) | sockets per document, Redis listener | connect, broadcast, relay | awaits between sends, dropped sockets, a failing Redis | a clean tab catches up |
| Editor state (`static/app.js`) | what a tab shows, whether it is dirty, its requests | poll, load, type | an answer that comes after the user has typed | edits go only by the user's hand |
| Presence (`app/collaboration_service.py`) | `editor_presence` | heartbeat, leave, expire | heartbeats and leaves that overtake each other | who has left is not listed |
| Offline sync (`app/offline_sync_service.py`, `static/app.js`) | `offline_sync_operations`, the browser's queue | queue, flush, look up, save, record | lost answers, concurrent flushes, crashes | applied once; a row tells the truth; nothing leaves the queue unsettled |
| Members and audit (`app/workspace_service.py`, `app/audit_service.py`) | `project_members`, `project_invitations`, `audit_log` | add, change, remove, invite, accept | owners acting on each other; a refusal recorded by a second transaction | an owner remains; the audit log is true |
| Permissions (`app/permissions.py`) | the role table | a guard on each operation | roles that change meanwhile | as above |
| Reviews (`app/review_service.py`) | requests, changes, decisions | create, decide, apply | several documents, moved versions | applied whole, once, as reviewed and approved by another |
| Comments (`app/comment_service.py`) | threads, comments | create, add, resolve, reopen | two references in one row | an anchor belongs to its document |
| Sessions (`app/auth_service.py`) | token rows, OIDC states | sign up, log in, rotate, log out, OIDC callback | reused tokens, a callback in two transactions | only the newest lives; ended stays ended |
| Requests (`app/rate_limit.py`, `app/request_body_limit.py`, `app/auth_middleware.py`) | counters per key | count, check the size, authenticate, handle | credentials that end under way, windows and clocks | within the limit; acted on for whom it came from |
| Backups (`scripts/backup_sqlite.py`, `scripts/restore_sqlite.py`, `app/backup_scheduler.py`) | files and manifests | copy, check, encrypt, prune, write the manifest, restore | crashes between the files, runs side by side | a sound backup outlives what comes beside it |
| ZIP import (`app/zip_import_service.py`, `static/app.js`) | the file, its preview and request ids in the panel | preview, import | a preview without a transaction, checks and creates in separate code, stale answers, a lost connection | what passes is created whole; only what was shown is imported |
| Schemas, migrations, export, health, e-mail, scripts | see `PROJECT.json` | | | partly or not modelled |

The services are called by endpoint functions (`app/main.py`). `def` endpoints
run in worker threads and their transactions interleave; `async` handlers and
WebSocket messages run on one event loop, and a handler that does not await
anything that yields is atomic among them. Every write transaction of the
modelled services starts with `BEGIN IMMEDIATE`, so it is one step and rolls
back whole. Live text and offline sync both save through
`update_document_content` of the document store; after a commit or a save the
hub broadcasts to the document's sockets. Reviews and invitations read and
write the members and the documents in the transaction of the operation.

## The modules

| module | models | state and actions |
|---|---|---|
| `JsonPatch` | JSON values, pointer lookup, `apply_patch` | operators; a value is a record that names its type, a pointer a sequence of tokens |
| `PatchRun` | the loop of `apply_patch` | working copy, inverse, changed paths; one action per outcome of a turn |
| `JsonMerge` | `diff_json`, `_diff_changes_to_patch`, the auto-merge | operators over `JsonPatch` |
| `ContentSave` | a load, other writers, a save | the trees `DocumentStore` leaves abstract; saves up to date, rejected and merged |
| `EventChain` | the rows of one document with every field, a fault, the integrity checks | the rows the writes store; a document row and event rows read one after the other |
| `DocumentStore` | the store, its log, compaction | a function per column of `json_documents`, sets of event and snapshot rows, what each client loaded; one action per accepted call |
| `VersionHistory` | the abstract specification that the store implements | of every document its numbered versions, its content now, whether it is deleted |
| `TextTransform`, `SessionState` | `_transform_operation`; a session and its operation list | operators |
| `TextSession` | one document's session on the server | versions of the text, the session, what each client sees and has in flight, a commit in progress |
| `LiveText` | browsers, sockets and broadcasts around that session | editors with shadow, revision, flags and timers; queues of sockets; broadcasts under way |
| `DocumentRoom` | tabs, server processes and Redis | shown version, requests and answers, both ends of a socket, broadcasts, relayed messages |
| `EditorPresence` | one user's presence row | who wrote it last, tabs, sockets, requests on their way |
| `OfflineSync` | browser queues and the batch endpoint | events, rows, queues, requests; one action per transaction |
| `Permissions`, `Membership` | roles; accounts, members, invitations, audit | one action per accepted operation, and one each for a refusal and its record |
| `ReviewWorkflow` (extends `Membership`), `Comments` (extends that) | reviews and comments while members and documents change | documents as lists of events, review requests, threads |
| `Sessions`, `Requests` (extends it) | accounts and their tokens; a request on its way to a handler | session rows, OIDC states, callbacks; counters, API tokens, one request |
| `BackupFiles` | backup runs and restores over their files | one action per step that leaves something behind, crashes in between |
| `ZipImport`, `ZipPanel` (extends it) | previews and imports on the server; the panel of one tab | active documents and schemas of the projects, calls with what they have read, the transaction of an import; the panel's file, preview, request ids and flags |
| `PatchProofs` (`JsonPatch`, `PatchRun`, `EventChain`), `StorageProofs` (`DocumentStore`, `BackupFiles`), `TextProofs`, `CollaborationProofs` (`TextSession`, `EditorPresence`), `LiveTextProofs`, `BrowserProofs` (`OfflineSync`, `ZipImport`, `ZipPanel`), `PeopleProofs` (`Membership`, `ReviewWorkflow`, `Comments`, `Sessions`, `Requests`) | theorems and proofs | |
| `FoldLemmas` | induction over naturals and finite sets, sums, folds | lemmas about no particular system |
| `MC...` | instances for TLC | |

`DocumentStore` takes the algorithms on contents as constants (`Patched`,
`GeneratedPatch`, `MergedContent`, `Same`, `Valid`, `Size`) with the few assumptions the
proofs need; `MCDocumentStore` and `MCOfflineSync` give them `JsonMerge`'s
definitions (the first as a table of the patches in use). So the store's proofs hold whatever
a merge returns, and what a merge returns is `ContentSave`'s subject. In `JsonPatch` a pointer is followed by a fold
over its tokens, and a write rebuilds the containers around it, the innermost first, by a
function on the depths of the pointer; no operator of it is recursive. `DecimalTokens` are the
tokens that stand for array indexes, in order, a constant since TLA+ does not spell numbers;
`JsonValue` (`PatchRun`) and `StoredValues` (`EventChain`) are any sets of values that have their members
in them. `EventChain` has `Equal` and `Differences` as constants, Python's `==`
and `diff_json`, to which `MCSaves` gives `JsonMerge`'s definitions, and as `Snapshots` the
contents that its document may come to have. `TextSession` and `LiveText` share
`SessionState`, and with it the server's treatment of an operation; the first
has commits, resets and repeats, the second has the browsers' own logic and
the network, with no commit.

Choices that a reader of the code should know:

* An action is an accepted call, its guard every check the call makes, in
  whatever order the code makes them: a refused call changes nothing, since the
  transaction rolls back. Refusals are steps only where they change something:
  a session reset before an operation is refused, an outcome recorded for a
  conflict, a commit that ends, an entry in the audit log, an error that makes
  a browser join again.
* `ApplyDocumentPatch` is `apply_document_patch_in_transaction`, shared by
  patches, saves and merges as in the code. A canonical document is a member of
  `Content`; a patch that leaves that set is out of the instance.
* Schema validation is a predicate fixed per schema (schemas are immutable by
  trigger); matching a schema by path is the choice of `schema` in
  `CreateDocument`, made there before validation.
* Roles are fixed in `DocumentStore`, whose theorems hold for any `RoleOf`;
  they change in `Membership`, `ReviewWorkflow` and `Comments`.
* Characters of a live text are numbered as they are typed, so a text says
  which typed characters it holds. `seen` and `epoch` of a message in flight,
  `removed` of `LiveText`, `began` and `beside` of a backup run, `passed` and
  `valid_on_receipt` of `Requests`, `history` and `damage` of `EventChain` and
  the marks in `OfflineSync`'s events are history that the program does not
  keep: only properties read them.
* A commit is three steps: capture (under the lock), save, re-read and replace.
  Saves of worker threads or other processes come between them; other WebSocket
  messages do not, because `commit` awaits nothing in between, hence the guard
  `commit = None` of `Join`, `ApplyOperation` and `BeginCommit`.
* A text is a sequence of code points, which is what the server counts. The browser
  measures an operation in UTF-16 units (`diffTextOperation`, `static/app.js:3236-3259`),
  where a character of `Wide` counts twice: `Units` in `LiveText`. Under the condition
  `wide` an index behind such a character names another place on the server, or none.
* `WithinLength` is the server's bound on one operation, `MAX_TEXT_OPERATION_LENGTH`
  (`app/text_collaboration_service.py:13`). What is longer is refused with
  `INVALID_REQUEST`; the browser joins again only after a `VERSION_CONFLICT`
  (`static/app.js:3205-3209`), so that an operation that is refused for its length or its place
  leaves the browser with a shadow that the session does not have.
* A lost socket in `LiveText` may still be read by the server for a while:
  `late` holds what the browser has given up and the server may yet apply. From then on the
  socket is known as `<<c>>`, since broadcasts under way may have been begun by it or still have
  to send to it.
* A broadcast copies the list of sockets and then awaits each send, so two
  broadcasts interleave; a process may stop before it broadcasts; a message
  that Redis does not take is lost with the local broadcast that was to follow.
* A send to a socket that is gone raises `RuntimeError` if its handler has read the loss, and
  is skipped; else `WebSocketDisconnect`, which `broadcast` does not catch
  (`app/realtime_service.py:86`): the sends that are left are dropped and whoever awaits the broadcast
  ends, a socket's handler (which closes the socket) or the Redis listener, for good. Both are
  choices of `FailSend` in `DocumentRoom` and of `SendNext` in `LiveText`.
* Times are orders: a presence row says who wrote it last, a backup file when
  it was modified, a rate limit which window the clock is in (and the clock may
  be set back). Expiry is an action that may come at any time its guard allows.
* `ZipImport` keeps of a document its path, bytes and schema. A preview is three
  reads (paths, schemas, usage) with other writes between them. An import reads
  and creates in one transaction; it is still one step per created file, so that
  a create sees what the others left. A connection may break while the server
  goes on: the tab gets an error, and a second import may run into the first.
  An error while an answer is on its way (`LoseCall`) also stands for a file
  that cannot be read and for `database is locked`.
* A browser that changes document or project forgets the flush under way and
  may start another: `StartSync` does not wait for the first one's answer.
* In `EventChain` a fault is one change of one field, one lost row or one
  change of the document's row, after which nothing is written; contents have
  numbers, not booleans, as the checks compare with Python's `==`.
* An element that a patch appends must have a token among `DecimalTokens` (`HasToken` in
  the guards of `PatchRun`, `TokensSuffice` in the assumption of `EventChain`), and
  `PatchDocument` of `EventChain` must lead to one of `Snapshots`. Both bound the
  instance, not the program.

## The runs

Independent parts share a run where each is small: the initial state draws a
`part`, and only that part's actions are taken from then on (`MCSaves`,
`MCPeople`, `MCRoom`, `MCBrowser`). So their states add up and do not multiply. `Explored` in an MC
module is a constraint on the states that TLC goes on from; it bounds the rarer combinations,
and the states at its border are checked too.

| run | instance | question |
|---|---|---|
| `document_store` | 2 documents, 2 paths, 4 contents, 1 schema; at most 4 events in all, 2 documents, 3 members in all; 3 compacted rows, or 2 once a client has loaded | the store's invariants, the append-only history, the refinement of `VersionHistory` |
| `saves` | *save*: 36 documents of scalars, nested objects and arrays, one write of another; *patch*: 4 documents, 47 operations, patches of up to 3; *events*: 6 patches, 4 versions, one fault, lists of up to 4 numbers; *offline*: 2 browsers, 2 workers, 2 operations, 3 requests, 4 versions, `reject`; *backup*: 4 runs, of which 2 are kept, 2 faults (or 3 runs with 2 at a time and 1 fault) | contents, merges, refusals, inverses, integrity reports, idempotence under failures, retention under crashes |
| `text_session` | 2 clients: 2 characters, 2 messages, 3 versions, commits and merges; or 3 characters, 3 messages, ranges of up to 3; the operation list cut at 2 | sessions, commits, other saves, the transform in sequence |
| `browser` | *live text*: 2 browsers, 1 character; 3 edits and 1 lost socket; or 2 edits with early typing and late reads; or 2 edits and a lost socket with sends that wait or fail; or 2 edits of both with sends that overtake each other; or 3 edits with a character of two units; operations of up to 2 characters; *zip*: 7 archives of up to 3 files, 2 projects, 2 schemas, limits of 2 documents and 3 bytes, 1 fault; 2 changes by others and 1 move of the user, or no changes, 2 archives and 2 moves | shadows, unsent text, convergence; checks and creates that agree, stale answers, buttons |
| `people` | *team*: 3 people, 4 audit entries; 2 documents, 1 review with 2 decisions, 1 thread; *accounts*: 2 people, 3 sessions, 2 OIDC logins; or a limit of 2, 1 API token | members, audit, reviews, comments, sessions, requests |
| `room` | *room*: 1 tab, 2 processes, 2 events (saves, faults, reloads); *presence*: 2 tabs, 4 moves, 2 sockets | catching up, leaving |
| `content_save_booleans` | scalars 0, 1, true under two members | finding 1 |
| `text_session_stale` | 2 clients, 2 characters, 2 versions | finding 2 |
| `offline_sync_auto` | 1 operation, `auto` | finding 3 |
| `offline_sync_actors` | 2 browsers, 1 id, 1 worker | finding 4 |
| `live_text_concurrent` | 2 browsers that both type, no socket lost | finding 5 |
| `edits_kept` | 1 tab, 1 event | finding 6 |

Why these bounds are enough to be worth it:

* Document store: four events are a create and three more of one document
  (delete, restore, rollback over them; patch, patch, merge of a base that is
  one or two behind), or two documents that create, delete, create and restore
  on one path. Three members let two documents collide at the byte limit and a
  rollback grow past it. The four contents differ in two members, so stale
  saves overlap, merge, and do neither. One schema admits three of the four.
  With no bound on versions the theorems take over.
* Content: documents are pairs of everything the diff distinguishes (missing,
  scalar, object with one or two members, array of one, two or three items,
  array in an array); removing two items in one array, and items of an inner and
  an outer array at once, is what the order of removals is about. Three
  operations suffice for one to shift an index that the next one uses and the
  inverse of both to have to be reversed.
* Events: a fault in any field of any of up to four rows, which were made by
  patches that append, insert, remove, add, replace and replace the root, by
  deletes, restores and rollbacks.
* Offline: two operations in one batch, two requests at the same time, and a
  crash or lost answer at every point of either.
* Backups: a run of each kind (sound, failing, crashed at each step) before,
  after and beside one whose file must stay, while retention is two.
* Text: an operation must cross two accepted ones to see composition, and the
  operation list must be cut (its limit is 2 where the code has 1000) for the
  cut to matter; ranges of three characters overlap on the left, on the right,
  on both sides and inside. Two messages and three versions let a commit meet
  another save before its save, between save and re-read, and after.
* Live text: an operation in flight, one typed meanwhile and a third after the
  answer; a socket lost with messages in either direction at any time, also before a broadcast
  under way sends to it. Three characters typed before a diff are over the limit of two, and a
  character of two units stands before the edits that follow it. (In `text_session` the limit is the
  code's 20000, which its operations do not reach.)
* People: two owners who act on each other, and an invitation that outlives its
  maker's role; a review of two documents with one that moves on; a login
  rotated twice, and two overlapping callbacks of one state.
* Room: one save that a process may fail to broadcast and one fault (a broken
  socket, Redis down, a dropped socket), or two of either. Two tabs of one user
  have the leave of one meet the heartbeat of the other, over both transports.
* ZIP: the archives differ in what can go wrong: an existing path, two matching
  schemas, a schema that is not met, a path that is there twice, too many files,
  too large a file, bytes that only fit an empty project, a number out of range, an archive that
  cannot be read. Two changes by others let a preview see paths of one state and
  usage of another, or two schemas match. In the panel, two moves leave one
  answer behind and have another preview in flight.

Names with `Max` are bounds that cut counters the code lets grow, except
`MaxDocuments`, `MaxBytes`, `MaxFiles` and `MaxTotalBytes`, which are limits of the
program, as `Limit` and `KeepCount` are. Symmetry is over model values that no property or action tells
apart, and is not used in the runs that check liveness. Deadlock is not checked: at its
bounds every model stops, and a store nobody writes to may stop as well.

Each property of a passing run has a mutant: a plausible bug in one operation
(a guard dropped, an order swapped, a reset forgotten) under which TLC finds
that property violated.

### Fairness

Three properties are about what must happen, where the code goes on by itself.

* `Converges` (`LiveText`): once nobody types and no socket is lost, every
  browser shows the session's text, if one user types characters of one UTF-16 unit and no
  operation is over the limit when it is sent (`OperationsFit`). Weak fairness is assumed of the next message a
  socket delivers (TCP), of the timers for a due diff, a reconnection
  and a new join (`setTimeout`), of the close of a socket whose handler has ended, and of the
  server's handlers and sends (the event loop runs every task that can run). No edit and no loss is fair.
* `CatchesUp` (`DocumentRoom`): a clean tab behind the latest version comes to
  show it. Weak fairness is assumed of sends and relays under way, of a tab's
  timers (poll, reconnection) and of requests and their answers. Saves, typing,
  broken sockets, a stopped process and a lost publish are not fair, so the
  property holds although any broadcast may be lost: the five-second poll brings
  the tab up. It excepts a tab whose socket the hub dropped after a send of two
  seconds (`app/realtime_service.py:86`): that socket stays open on the tab's
  side, which then neither polls over HTTP nor hears anything, and no document
  promises otherwise (`docs/TASK_106_PLAN.md:44` and `docs/DEV_USAGE.md:490-492` speak of
  sockets that close).
* `ButtonsComeBack` (`ZipPanel`): a tab whose buttons are disabled by a preview
  or an import gets them back. Weak fairness is assumed of the calls' progress: files are
  read, the server's handlers run, and answers arrive, if only as errors. What
  the user does in between is not fair.

The other parts state safety only. A queue is flushed when the browser comes
online or its user asks, a backup when the operator or the scheduler runs it,
so "eventually synced" has no fairness behind it.

### What the runs found

1. **`true` saved as `1` is lost** (`content_save_booleans`).
   `app/replay.py:91` compares scalars with Python's `!=`, and `True == 1`.
   Saving `{"a": 1, "b": 0}` over `{"a": true}` stores `{"a": true, "b": 0}`. The
   patch is documented as "preserving the same final snapshot as the recursive
   diff" (`app/document_service.py:672-673`), and
   `tests/test_document_content_update.py:173` asserts that the saved content is
   the candidate.
2. **A stale delete hits text its author never saw** (`text_session_stale`).
   A reset starts again at revision 0, and only revisions *ahead* of the session
   are refused (`app/text_collaboration_service.py:105`): a delete made at
   revision 0 before a commit is applied to the new session as it is.
   `docs/TASK_138_PLAN.md:13-14`: it "must avoid applying a stale delete or
   replace to newly inserted text".
3. **An offline operation is applied twice** (`offline_sync_auto`). The look-up,
   the save and its record are three transactions (`app/offline_sync_service.py:52`).
   With `reject` the base version saves the day, which `AppliedOnce` shows in
   `saves`; with `auto` and a revert in between, nothing does.
   `docs/API_SPEC.md:829`: "`client_operation_id` is idempotent per actor."
4. **Actors share an id space** (`offline_sync_actors`). The row's key is
   `sync_` and the client's id (`app/offline_sync_service.py:147`), so a second
   actor's operation is applied and its record refused, where
   `docs/DATA_MODEL.md:63` has the pair unique.
5. **Accepted text is deleted by the next operation of another**
   (`live_text_concurrent`). `static/app.js:3161` takes an accepted operation's
   text as shadow and does not move what the user has typed meanwhile, so the
   next diff deletes what the other inserted, at the current revision.
   `docs/TASK_138_PLAN.md:5-6`: "so concurrent edits do not mutate the wrong
   characters".
6. **What is typed while a clean tab reloads is replaced** (`edits_kept`).
   A save, a poll that tells of it, a load under way, a keystroke, the answer:
   `static/app.js:1744` sets the editor without looking at the buffer.
   `docs/USER_WORKFLOW.md:52-53`: "the app warns you to reload or resolve the
   conflict before saving".

What the properties leave out, because the code does not provide it:

* `IntentionPreserved` leaves out, by its premises, what finding 2 is about:
  messages of an earlier session and messages older than the operations kept.
* `ShadowIsSessionText` and `Converges` are stated for one writer with sends in
  order and no typing before a join is answered: otherwise (finding 5) a
  browser's shadow is not the session's text. Sends that overtake each other
  or are dropped (`app/realtime_service.py:80-86`) are in the model and in neither of the two: an older
  payload's text is taken with the larger revision, and a send that was dropped is not repeated.
  `UnsentTextKept` holds under all conditions.
* `Converges` also leaves out characters of two UTF-16 units and operations over the limit,
  where the code does not converge. After an emoji, what one user types alone is put at another
  place than in the editor (and so is the correction that the browser sends next), or is answered with
  `INVALID_REQUEST` once its index is out of the text. A paste of more than 20000 characters, or a
  deletion, is refused likewise. A refusal of this kind does not make the browser join again: editor
  and session stay apart until another operation or a new socket makes it compare them, and a
  difference that is still too long is refused again. Without either premise TLC finds
  `Converges` violated. `ShadowIsSessionText` holds for wide characters too: it is about
  texts, not about the units in which an operation is placed.
* `ReplayMatchesLatest` replays forwards, and `ChangedPathsCover` is about the members of the root: an
  inverse in the wrong order, or `-` recorded at a wrong index, is for `InverseUndoes` to find.
* `OneSessionPerLogin` is about OIDC states and sessions. That one identity has one account
  rests on the transaction and the unique index of `oidc_identities` (`app/database.py:213`).
* `LeftIsGone` excepts lost requests and stopped processes, after which a row
  stays until it expires. A `DELETE` carries no stamp and may take away the row
  of the user's other tab until that one's next heartbeat.
* `KeepsNewest` counts crashed, failed and overlapping runs among those that may
  push a file out: their files take retention slots, and pruning comes before
  the manifest. With encryption and a retention of one, a crash in between
  leaves no backup to restore.
* `ReportsTell` does not ask the checks to see faults they do not look at: two of the event types
  delete, restore and update with an empty patch exchanged, or a deletion mark.
  A save between the two reads makes a healthy document's report fail, never a
  damaged one's pass. A replay check that passes says nothing of the middle of
  a log that a later root replacement covers; the chain check does.
* `ReportIsTrue` leaves out numbers out of range. `json.loads` reads `1e999` as infinity
  (`app/zip_import_service.py:347`; `parse_constant` sees only `NaN` and
  `Infinity`), so the file passes the checks, and its create, which writes JSON
  without infinity, raises `INVALID_JSON_SYNTAX`, where `docs/API_SPEC.md:565-567`
  has `ZIP_IMPORT_PRECHECK_FAILED`. The import is undone, as that page says.
  With usage limits on, the preview fails as well.
* `EndedStaysEnded` is about a login: its logout with a token that was rotated
  out ends that session only, and the newer one lives on.

## The proofs

**JSON Patch engine** (`PatchProofs`), for any JSON values, documents, operations and
lengths of patches. The assumptions (`TokenAssumption`, `PatchAssumption`) say what decoded JSON
and a checked request give: the members of a value are values, the operations are
well formed, no two indexes have one token, and none has `-`. In this order:

* a pointer reads and writes one place (`PointersReadWhatTheyWrite`): what was written
  there is read there, writing what is there changes nothing, and the second of two writes
  wins. Values are read by a fold, and a step of the induction is on the depth of the
  pointer, not on the document, so trees of any shape are covered;
* in the container that it changes, an operation and its inverse cancel out: an insertion
  into a list and the removal at its index, an `add` over a key and the `replace` that puts the old
  value back, `-` and the index it was appended at. With the pointer laws
  they cancel out in the whole document (`OperationUndone`);
* `PatchInv`: after each turn of the loop the inverse operations lead from the working copy
  back to the document, the patch leads forward from the document to the copy, and a member of
  the root that no reported path covers is what it was.

`InverseRestores` (`InverseUndoes`), `PathsTellChanges` (`ChangedPathsCover`) and `LoopAppliesPatch`, by which the
loop that `PatchRun` takes turn by turn is the `ApplyPatch` that the other modules use, follow.

**Integrity checks** (`PatchProofs`), for any contents, patches and number of versions.
`ReportsTell` is not about one step: the two checks are folds over all rows, and the rows may have been
damaged anywhere. `ChainAssumption` says of the contents in use that they are canonical JSON,
that `==` tells them apart, and that `diff_json` does, so that a rollback row
tells what it restores. TLC evaluates it for the run's contents; contents with `true` for `1` do not meet it
(finding 1). The argument:

* rows that pass the event-chain check are a *story* (`Story`): there is a state for each version,
  and the one before a row explains the row (`Explains`). Replay goes along
  that story (`ReplayTells`), and the stored inverses go back along it (`PatchUndone`);
* the rows as they were written are a story, of the history (`CleanRows`), so a healthy document passes
  (`HealthyPasses`);
* one changed field leaves the other rows as they were. If the rows still pass, the story is
  the history up to the changed row; a changed patch cannot lead elsewhere from there, since two
  patches with the same inverses, paths and later values have the same effect (`PatchesAgree`);
  a row whose type was changed is explained by what it holds. So it is the
  history to the end (`DamagedStory`). A lost row leaves a gap in the versions, or the last one does
  not match the document (`LostRowShows`);
* `ChainInv` ties these to the checks: whatever the fault has changed, the rows are those of the history otherwise
  (`HistoryStored`), the document's row is its last version (`RowIsLast`), and what a check has
  read is the row or, when a save came between, one with an earlier version, with which no
  report passes (`ReadIsPast`).

**Document store** (`StorageProofs`), for any actors,
roles, documents, paths, schemas, contents, patches and bounds, from the
assumptions in `DocumentStore`: bounds are naturals, `None` and `Raised` are not
contents, a content has a natural size and equals itself, a root `add` or
`replace` gives its value whatever was there, an empty patch is refused. These
are facts of `apply_patch` (its root branch and its first check), and TLC
evaluates them for `JsonPatch`'s definitions in the run.

No single invariant is inductive. That a write keeps
`ReplayMatchesLatest` needs that the replay of the versions before is
unchanged, which needs the log to have one event per version
(`ChainIsContiguous`); `HistoryValid` and `LoadedIsHistory` speak of those
replays; a rollback's new content validates only because `HistoryValid` held.
`LogInv` is their conjunction with `TypeOK`, with `CompactionExact` (each
compacted row is the replay of its version) and with "an id not drawn yet has no
content and is not marked deleted". The argument:

* the first part of the module: replaying a log is a function of its last version and the
  replay before it (`ReplayOneMore`); logs that agree up to a version replay
  alike (`ReplaySame`); a replay can be split at any version (`ReplaySplit`).
  These need induction on versions, which is done over a set of naturals
  (`NatInduct`).
* every write of the store is one `Write`: an event added at the version after
  the current one, a snapshot that is what the event makes of the old one, and
  the column it changes (`CreateIsWrite`, ..., `RollbackIsWrite`);
* a write preserves `LogInv` (`WritePreserves`); compaction and loads do
  (`CompactPreserves`, `LoadPreserves`).

`LogInvariant` is the theorem; `TypeCorrect`, `ChainCorrect`, `ReplayCorrect`,
`PathsCorrect`, `SchemaCorrect`, `LifecycleCorrect`, `LoadedCorrect`,
`CompactionCorrect` and `AppendOnly` are its consequences. `LifecycleCorrect` is about a
property that no run checks by itself, as the refinement has it.

**The refinement** (`StoreKeepsHistory`, the run's `KeepsHistory`): `DocumentStore` implements
`VersionHistory`, which knows no rows, patches, paths, schemas or limits, only that
a document has numbered versions and that each operation adds one: a new content, the
content of an earlier version, or, for deletes and restores, the same content.
The mapping (`HistoryRead`) is what readers get: of every version the kind of its event,
and its content as it is reconstructed from the nearest compacted snapshot. So
compaction must be a stutter, a write must leave each earlier version as it was read
before, and the columns `current_snapshot` and `deleted` must say what the last version
says. The proof maps each action to its namesake (`CreateImplements`, ...,
`QuietImplements`): under `LogInv` reading is replaying (`ReadsAreReplays`), and a `Write` appends to the
replayed history the version that its event and the new snapshot give (`WriteAddsVersion`).

`WithinUsageLimits` needs an invariant of its own (`UsageInv`), because the limits are
about a sum: that the active documents are finitely many, as each has drawn an id. A
write that makes a document active or larger was allowed the sum of the others and
its own bytes (`BytesIsTotal` makes the model's sum a sum over a set, and `FoldLemmas`
says what adding and removing one member does to it); a delete, a compaction and a load add nothing.

**Text transform** (`TextProofs`), for operations and texts of any
size: a transformed operation is within the bounds of the text that the accepted
one leaves (`TransformStaysInBounds`); a delete or replace removes exactly the
selected characters that are left (`TransformKeepsSelection`) and never one that
the accepted operation put in (`TransformSparesInserted`). Positions are
followed across the accepted operation by a "moved to" relation, and each branch
of the transform is linear arithmetic. Of an operation that crosses several accepted
ones, `Follows` says what is left of its author's intention: each character of the text
either came with an accepted operation, and is not selected, or is one its author saw,
and stands on the same side of the operation as in the text seen (before it, after it,
or selected by it). It holds of the text seen (`FollowsStart`), one accepted operation keeps it
(`FollowsStep`, from `TransformKeepsSides` and `TransformSelectsSeen`), and so it holds
of the whole list (`TransformedFollows`, by induction along the states of the transform's fold).

**Text sessions** (`CollaborationProofs`), for any number of clients, characters, messages,
commits and saves by others, and any merge. `JoinedIsReplay` and `AppliedOnce`
follow from `SessionInv`: as long as no operation was cut from the list, a session's text
is its document's version with the operations applied in order, each known by
its client and its id, unless the document has moved on; then the session stays behind
until a join resets it (`SessionFallsBehind`). `CommitLosesNoOperation` is about the three steps of a
commit; it assumes that `None`, which stands for "no session", is not a session.

`IntentionPreserved` follows from `IntentInv`: a session has a history of texts (`Story`), one per
revision since the oldest operation it keeps, each the one before with an operation applied
that fits it; what a client of the session sees, and what a message in flight was made on, is the text
of that history at the revision it names; and what a message types is in no text before it is accepted
and is typed by no other message. So `TransformedFollows` applies to every message on a
revision that the list reaches back to, and `FollowsPreserves` turns what it says into the
property. The theorem assumes `SavesMakeUpNothing`: what formatting and the merge put into a saved
text is among the characters the documents have or is layout, which has no number of its own
(character 0), so that a character typed later is not one a save invented.

**Live text** (`LiveTextProofs`), for any browsers, edits, lost sockets and
conditions, with `NotCut`: no more operations are sent than a session keeps
(`MaxSent <= MAX_TEXT_SESSION_OPERATIONS`), because `TextAt` and `Accepted` read
past texts from the list the session keeps. That the code keeps 1000 is met by the run with its few
messages; what happens beyond it is `TextSession`'s subject. `LiveInv` says:

* every operation sent has a number and an owner (`Posted`), so that one that is repeated after
  a lost socket is recognised and one of another browser is not; the session's text is
  the replay of its operations (`IsLive`), which needs that a transformed operation fits the text
  (`TransformedIsOperation`, from `TransformStaysInBounds`);
* every answer, error and broadcast on its way tells a text the session has had, at
  its revision (`Told`);
* an editor with nothing unacknowledged has such a text as its shadow (`Shown`);
* when sends do not wait for their sockets, every queue of a socket is in the order of revisions, and nothing
  is still to be sent (`Sequenced`): a browser with the shadow of one
  revision meets the operation of the next one.

`ShadowIsSessionText` is a consequence, for the conditions none and `wide`. `UnsentTextKept` is an action property: every
place that sets the buffer is guarded by "there is nothing local", and then
the buffer is the shadow, whose characters the session has had. Texts are sequences of
naturals; `Operations` filters with a fold because the provers know nothing of `SelectSeq`.

**Offline sync** (`BrowserProofs`), for any users, requests, contents and conflict
strategies. `QueuedUntilSettled` needs that ids are unique per user and that queues, batches and answers hold
the user's own operations and outcomes that its rows bear out (`QueueInv`):
outcomes are matched by id when the queue is filtered, and a browser with another user's
operations would settle the wrong one. `AppliedOnce` is proved for the strategies
without `auto`, as finding 3 refutes it with: the event of an operation sits on
its base version, which is unique (`AppliedIsCurrent`), and a row or a request that says "applied" has its
event (`AppliedHasEvent`). `NobodyAssumption` has `None`, no request, differ from every user. The
operator `Without` is a fold for the same reason as above.

**ZIP imports** (`BrowserProofs`), for any archives, schemas and limits.
`ImportsWhatWasShown` follows from `PanelInv`: the preview on display is about
what is selected, and each call keeps what it was sent for. `ReportIsTrue` follows from
`ZipInv`: the files that the checks let pass and that are still to be
created have distinct free paths, one schema at most, and fit the limits
together with what is there (`IsImport`), so each next create succeeds (`ImportCreates`); sums again
come from `FoldLemmas`. Its limits are naturals (`LimitsAssumption`), as the settings are.

**Team** (`PeopleProofs`), for any people, documents and bounds. `KeepsAnOwner`
needs that the members are finitely many (the guard counts owners, and "more
than one" gives another owner) and that a refusal waiting to be recorded
changes no role. `AppliedAsReviewed` needs that no event names a review that does not exist
yet; `StatusTellsDecisions` follows from how each decision changes the verdict
(`NewVerdict`, `VerdictAfterComment`). `AnchorsBelong` needs that documents only
grow (`EventsStay`). `AuditIsTrue` needs `AuditInv`: the roles that the log gives are those of
the members, a change in it was authorised by the roles before it, an invitation was recorded when it was
made, and one that was used is marked, so that it is not used again. The replay of the
log is a recursive function, and what is needed of it is that longer logs
agree with shorter ones (`AuthorisedStays`). The theorems are about `ReviewSpec`, the one on
`AnchorsBelong` about `TeamSpec`.

**Accounts** (`PeopleProofs`), for any people, projects,
limits and bounds. `OneSessionPerLogin` needs that a callback's state is used,
by that callback alone, and by no session yet (`StatesSpent`);
`EndedStaysEnded` that a new login's family is a new one and that only a usable
refresh token adds to a family. `WithinLimit` needs that a window's count covers
what was let through in it, also after the clock was set back;
`ActsAsAuthenticated` that sessions and tokens go on with their users and do not
revive (`SessionsGoOn`, `TokensGoOn`), so what is valid when authenticated was
valid on receipt.

**Presence** (`CollaborationProofs`), for any number of tabs, sockets and requests:
whoever wrote the row last has yet to take it away (`SomebodyWillLeave`), a
socket by its handler's `finally`, a tab by a `DELETE` or by the answer of a
heartbeat that comes after it left.

**Backups** (`StorageProofs`), for any number to keep and any number of runs at the
same time, crashes and restores: `KeepsNewest` follows from two facts about runs that
come beside or after a backup (its `Rivals`, who only grow). Whoever can still prune it
is one of them (`PrunersAreRivals`), so the files that `_prune_old_backups` counts as
newer, and the run that counts, are `KeepCount` rivals of what it marks
(`DoomedAreCrowded`, from `ToDeleteIsCrowded`); a file that is lost or made anew
belongs to a run that has as many (`KeptOrCrowded`).

Only model-checked:

* `SavedIsCandidate`, `MergeIsThreeWay` and `RefusalIsJustified`: what `diff_json` and the
  auto-merge compute is defined by recursion on JSON trees (`JsonMerge`), whose values for every
  tree need an induction over data that the provers cannot do, with RECURSIVE operators
  that they cannot unfold. For the same reason the theorems on the store, on offline sync and on the event
  rows hold of whatever a merge or a diff returns, within their assumptions, and the run evaluates those
  for `JsonMerge`'s definitions.
* `Converges`, `ButtonsComeBack` and `CatchesUp`, which are liveness under fairness.

## Not modelled

See `PROJECT.json` for every part and its reason. In short:

* Readers (lists, search, history, blame, reports, exports) return what the
  store has; e-mail and logging are rows beside the operations; HTTP wiring and request
  models carry values; most endpoints call one service.
* The project's WebSocket (`app/main.py:1305-1422`), a second room with the same
  hub; the project page of the browser, and its previews and panels other than the
  one of ZIP imports.
* Of a ZIP import: the spelling of paths (separators, drives, blanks), encodings,
  encrypted members, and the grouping of the report by folders.
* Of live text: a text with two different characters of two units that begin alike, where the
  browser's diff may split one; a send that takes two seconds, after which the hub drops an open
  socket (that is in `DocumentRoom`).
* Several server processes with a live text session each: they do not know of
  one another, and diverge until a commit, as the code stands.
* SQLite itself: `-wal` and `-shm` files at a restore, its own integrity checks,
  locks that time out.
* The wording of messages, the formatting of JSON (that a saved text comes back
  formatted is `Formatted` in `TextSession`), secrets, hashes and ciphers.

## What could come next

1. A `DocumentTx` module: the statements of one transaction, a crash between
   them, readers outside; shown to implement `DocumentStore` by a refinement.
2. `TextSession` and `LiveText` in one module, so that commits and resets meet the
   browser's resync, and two processes with a session each.
3. An import shown to implement a sequence of `CreateDocument` of `DocumentStore`, and
   an abstract specification of a live text session that `TextSession` implements.
4. The project's WebSocket, as a second room of `DocumentRoom`.
