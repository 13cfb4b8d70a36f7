----------------------------- MODULE ZipImport -----------------------------
(***************************************************************************)
(* The ZIP import of app/zip_import_service.py on the server: a preview,   *)
(* which reads without a transaction, and an import, which checks the      *)
(* archive again and creates its documents in one write transaction, while *)
(* others write to the project. A call is a request on its way.            *)
(***************************************************************************)
EXTENDS Naturals, Sequences, FiniteSets, SequencesExt, FiniteSetsExt

CONSTANTS
    Project, Schema,
    Pattern,        \* Pattern[s]: the paths that a schema's file_pattern matches
    Archive,
    Listing,        \* Listing[a]: whether an archive can be read, and its members
    OtherPath,      \* the paths that others write to
    MaxDocuments, MaxBytes,         \* the project's usage limits
    MaxFiles, MaxTotalBytes,        \* the importer's limits
    MaxChanges,     \* bound on what others change
    MaxFaults       \* bound on lost answers and stops of the server

\* A path is a list of segments. A member has a path, which ends in .json or not; a text; a
\* size in the archive and one as a snapshot; references to other files; and schemas that
\* its content meets.
ASSUME ZipImportAssumption ==
    /\ \A s \in Schema : \A path \in Pattern[s] : Len(path) > 0
    /\ \A a \in Archive : IsFiniteSet(DOMAIN Listing[a].members)
    /\ \A a \in Archive : \A i \in DOMAIN Listing[a].members :
          /\ Len(Listing[a].members[i].path) > 0
          /\ Listing[a].members[i].size \in Nat /\ Listing[a].members[i].bytes \in Nat

ASSUME LimitsAssumption == MaxDocuments \in Nat /\ MaxBytes \in Nat

VARIABLES
    limited,        \* whether usage limits are on; never changes
    documents,      \* the active documents: project, path, bytes and schema
    schemas,        \* schemas[p]: the active schemas with a file pattern
    mayWrite,       \* whether the user has the permission to write
    calls,
    transaction,    \* the import under way
    changes, faults

importVars == <<limited, documents, schemas, mayWrite, calls, transaction, changes, faults>>

NoImport == [todo |-> {}, work |-> {}, edges |-> {}]

ImportInit ==
    /\ limited \in BOOLEAN
    /\ documents = {}
    /\ schemas = [p \in Project |-> {}]
    /\ mayWrite = TRUE
    /\ calls = {}
    /\ transaction = NoImport
    /\ changes = 0 /\ faults = 0

DocumentsOf(p, all) == {d \in all : d.project = p}

PathsOf(all) == {d.path : d \in all}

Importing == \E c \in calls : c.phase = "importing"

-----------------------------------------------------------------------------
(* The checks                                                              *)

\* The .json members.
Candidates(a) ==
    LET members == Listing[a].members IN {i \in DOMAIN members : members[i].json}

\* A mutant: a path that is twice in the archive passes.
WithoutErrorsNorDuplicates(a, i, found, active) ==
    LET m == Listing[a].members[i]
        matched == {s \in active : m.path \in Pattern[s]}
    IN  /\ m.text \in {"json", "infinite"}
        /\ m.path \notin PathsOf(found)
        /\ Cardinality(matched) <= 1
        /\ matched \subseteq m.meets

\* can_import: an object or array, at a path of its own, that no active document has,
\* and that meets the schema, if one matches; two may not. A number out of range (1e999)
\* is read as infinity and is no error.
CanImport(a, i, found, active) ==
    LET m == Listing[a].members[i]
        matched == {s \in active : m.path \in Pattern[s]}
    IN  /\ m.text \in {"json", "infinite"}
        /\ \A j \in Candidates(a) \ {i} : Listing[a].members[j].path # m.path
        /\ m.path \notin PathsOf(found)
        /\ Cardinality(matched) <= 1
        /\ matched \subseteq m.meets

Bytes(S) == MapThenSumSet(LAMBDA d : d.bytes, S)

MembersAt(a, S) == {[at |-> i, size |-> Listing[a].members[i].size,
                     bytes |-> Listing[a].members[i].bytes] : i \in S}

Sizes(S) == MapThenSumSet(LAMBDA m : m.size, S)

OverLimits(count, bytes) == limited /\ (count > MaxDocuments \/ bytes > MaxBytes)

\* What the checks say, given the documents and the schemas that were read for them and
\* the documents that the usage is taken from. The usage check cannot write infinity.
Verdict(a, found, active, used) ==
    LET passing == {i \in Candidates(a) : CanImport(a, i, found, active)}
    IN  IF limited /\ \E i \in passing : Listing[a].members[i].text = "infinite"
        THEN "error"
        ELSE IF /\ Candidates(a) # {} /\ passing = Candidates(a)
                /\ Cardinality(passing) <= MaxFiles /\ Sizes(MembersAt(a, passing)) <= MaxTotalBytes
                /\ ~OverLimits(Cardinality(used) + Cardinality(passing),
                               Bytes(used) + Bytes(MembersAt(a, passing)))
             THEN "ready"
             ELSE "blocked"

-----------------------------------------------------------------------------
(* References between files                                                *)

Escaped == <<"..">>

\* _normalize_relative_reference_path: ".." takes a segment away, if there is one.
NormalizeReference(steps) ==
    FoldLeft(LAMBDA parts, step :
                CASE parts = Escaped \/ step = "." -> parts
                  [] step = ".." -> IF parts = << >> THEN Escaped ELSE Front(parts)
                  [] OTHER -> Append(parts, step),
             << >>, steps)

\* From the project's root or from the folder of the source.
ReferenceTarget(source, ref) ==
    NormalizeReference((IF ref.rooted THEN << >> ELSE Front(source)) \o ref.steps)

\* A mutant: the files that are skipped count as well.
PathsOfMembers(a) == {Listing[a].members[i].path : i \in DOMAIN Listing[a].members}

ArchivePaths(a) == {Listing[a].members[i].path : i \in Candidates(a)}

\* What the report says of the files that the candidates refer to.
Edges(a, found) ==
    UNION {{LET target == ReferenceTarget(Listing[a].members[i].path, ref)
            IN  [ target |-> target,
                  status |-> IF target \in ArchivePaths(a) THEN "in_archive"
                             ELSE IF target \in PathsOf(found) THEN "existing_document"
                             ELSE "missing" ] : ref \in Listing[a].members[i].refs}
           : i \in Candidates(a)}

-----------------------------------------------------------------------------
(* A preview                                                               *)

\* A call nobody waits for any more has no answer.
Becomes(c, d) ==
    calls' = (calls \ {c}) \cup (IF d.phase = "answered" /\ ~d.awaited THEN {} ELSE {d})

Answered(c, answer) == [c EXCEPT !.phase = "answered", !.answer = answer,
                                 !.found = {}, !.active = {}]

\* The permission, the archive and the paths are read.
ReadPaths(c) ==
    /\ c \in calls /\ c.kind = "preview" /\ c.phase = "sent"
    /\ Becomes(c, IF mayWrite /\ Listing[c.file].readable
                  THEN [c EXCEPT !.phase = "paths", !.found = DocumentsOf(c.project, documents)]
                  ELSE Answered(c, "error"))
    /\ UNCHANGED <<limited, documents, schemas, mayWrite, transaction, changes, faults>>

ReadSchemas(c) ==
    /\ c \in calls /\ c.phase = "paths"
    /\ Becomes(c, [c EXCEPT !.phase = "schemas", !.active = schemas[c.project]])
    /\ UNCHANGED <<limited, documents, schemas, mayWrite, transaction, changes, faults>>

\* The usage is read last.
AnswerPreview(c) ==
    /\ c \in calls /\ c.phase = "schemas"
    /\ Becomes(c, Answered(c, Verdict(c.file, c.found, c.active,
                                      DocumentsOf(c.project, documents))))
    /\ UNCHANGED <<limited, documents, schemas, mayWrite, transaction, changes, faults>>

-----------------------------------------------------------------------------
(* An import                                                               *)

\* A candidate with the schema that it is bound to.
Planned(p, i, a) ==
    LET m == Listing[a].members[i]
        matched == {s \in schemas[p] : m.path \in Pattern[s]}
    IN  [ path |-> m.path, bytes |-> m.bytes, text |-> m.text, meets |-> m.meets,
          schema |-> IF matched = {} THEN "none" ELSE CHOOSE s \in matched : TRUE ]

\* BEGIN IMMEDIATE waits for others; then all the checks are made again.
BeginImport(c) ==
    LET p == c.project
        found == DocumentsOf(p, documents)
    IN  /\ c \in calls /\ c.kind = "apply" /\ c.phase = "sent"
        /\ ~Importing
        /\ IF /\ mayWrite /\ Listing[c.file].readable
              /\ Verdict(c.file, found, schemas[p], found) = "ready"
           THEN /\ transaction' = [ todo |-> {Planned(p, i, c.file) : i \in Candidates(c.file)},
                                    work |-> documents, edges |-> Edges(c.file, found) ]
                /\ Becomes(c, [c EXCEPT !.phase = "importing"])
           ELSE Becomes(c, Answered(c, "error")) /\ UNCHANGED transaction
        /\ UNCHANGED <<limited, documents, schemas, mayWrite, changes, faults>>

\* create_document_in_transaction: the schema named is active, or none matches; the
\* content can be written and meets it; the usage with it and the path allow it.
Creatable(p, m) ==
    LET now == DocumentsOf(p, transaction.work)
        matched == {s \in schemas[p] : m.path \in Pattern[s]}
    IN  /\ IF m.schema = "none"
           THEN Cardinality(matched) <= 1 /\ matched \subseteq m.meets
           ELSE m.schema \in schemas[p] /\ m.schema \in m.meets
        /\ m.text = "json"
        /\ ~OverLimits(Cardinality(now) + 1, Bytes(now) + m.bytes)
        /\ m.path \notin PathsOf(now)

\* The candidates are taken in the order of their paths: nobody sees which.
CreateMember(c, m) ==
    /\ c \in calls /\ c.phase = "importing"
    /\ m \in transaction.todo /\ Creatable(c.project, m)
    /\ transaction' = [transaction EXCEPT
            !.todo = @ \ {m},
            !.work = @ \cup {[ project |-> c.project, path |-> m.path, bytes |-> m.bytes,
                               schema |-> m.schema ]}]
    /\ UNCHANGED <<limited, documents, schemas, mayWrite, calls, changes, faults>>

\* A create raises: connect() rolls the transaction back.
FailImport(c, m) ==
    /\ c \in calls /\ c.phase = "importing"
    /\ m \in transaction.todo /\ ~Creatable(c.project, m)
    /\ transaction' = NoImport
    /\ Becomes(c, Answered(c, "error"))
    /\ UNCHANGED <<limited, documents, schemas, mayWrite, changes, faults>>

CommitImport(c) ==
    /\ c \in calls /\ c.phase = "importing" /\ transaction.todo = {}
    /\ documents' = transaction.work
    /\ transaction' = NoImport
    /\ Becomes(c, Answered(c, "applied"))
    /\ UNCHANGED <<limited, schemas, mayWrite, changes, faults>>

-----------------------------------------------------------------------------
(* Others, and faults                                                      *)

\* Another user creates or restores a document, which meets no schema.
OtherCreates(p, path) ==
    LET now == DocumentsOf(p, documents)
        matched == {s \in schemas[p] : path \in Pattern[s]}
    IN  /\ changes < MaxChanges /\ ~Importing
        /\ path \notin PathsOf(now) /\ matched = {}
        /\ ~OverLimits(Cardinality(now) + 1, Bytes(now) + 1)
        /\ changes' = changes + 1
        /\ documents' = documents \cup {[project |-> p, path |-> path, bytes |-> 1,
                                         schema |-> "none"]}
        /\ UNCHANGED <<limited, schemas, mayWrite, calls, transaction, faults>>

OtherDeletes(d) ==
    /\ changes < MaxChanges /\ ~Importing
    /\ changes' = changes + 1
    /\ documents' = documents \ {d}
    /\ UNCHANGED <<limited, schemas, mayWrite, calls, transaction, faults>>

OtherAddsSchema(p, s) ==
    /\ changes < MaxChanges /\ ~Importing
    /\ \A q \in Project : s \notin schemas[q]
    /\ changes' = changes + 1
    /\ schemas' = [schemas EXCEPT ![p] = @ \cup {s}]
    /\ UNCHANGED <<limited, documents, mayWrite, calls, transaction, faults>>

LoseRole ==
    /\ changes < MaxChanges /\ ~Importing /\ mayWrite
    /\ changes' = changes + 1
    /\ mayWrite' = FALSE
    /\ UNCHANGED <<limited, documents, schemas, calls, transaction, faults>>

\* The file cannot be read, the answer does not arrive, or the server stops with what it
\* has under way. If only the connection breaks, the server goes on.
LoseCall(c) ==
    /\ faults < MaxFaults
    /\ faults' = faults + 1
    /\ c \in calls /\ c.awaited /\ c.answer # "error"
    /\ \/ /\ Becomes(c, Answered(c, "error"))
          /\ transaction' = IF c.phase = "importing" THEN NoImport ELSE transaction
       \/ /\ c.phase \notin {"reading", "answered"}
          /\ calls' = (calls \ {c}) \cup {Answered(c, "error"), [c EXCEPT !.awaited = FALSE]}
          /\ UNCHANGED transaction
    /\ UNCHANGED <<limited, documents, schemas, mayWrite, changes>>

ServerStep(c) ==
    \/ ReadPaths(c) \/ ReadSchemas(c) \/ AnswerPreview(c)
    \/ BeginImport(c) \/ CommitImport(c)
    \/ \E m \in transaction.todo : CreateMember(c, m) \/ FailImport(c, m)

OtherStep ==
    \/ \E p \in Project : \/ \E path \in OtherPath : OtherCreates(p, path)
                          \/ \E s \in Schema : OtherAddsSchema(p, s)
    \/ \E d \in documents : OtherDeletes(d)
    \/ LoseRole

-----------------------------------------------------------------------------
(* Properties                                                              *)

\* What passes the checks can be created, file after file, in a project that grows with
\* each, but for a number out of range.
CreatesSucceed ==
    \A c \in calls : c.phase = "importing" =>
        \A m \in transaction.todo : m.text # "infinite" => Creatable(c.project, m)

\* The references that a finished import reports as found, and only these, have a document.
ReferencesAccurate ==
    \A c \in calls : c.phase = "importing" /\ transaction.todo = {} =>
        \A e \in transaction.edges :
            e.status # "missing" <=> e.target \in PathsOf(DocumentsOf(c.project, transaction.work))

\* What the checks of an import say holds when it is done.
ReportIsTrue == CreatesSucceed /\ ReferencesAccurate
=============================================================================
