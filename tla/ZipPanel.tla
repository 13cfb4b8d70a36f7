------------------------------ MODULE ZipPanel ------------------------------
(***************************************************************************)
(* The ZIP panel of one browser tab (static/app.js) with the server of     *)
(* ZipImport: the user selects a file, looks at its preview and imports    *)
(* it, and may go to another project, or take another file or document,    *)
(* while answers are on their way.                                         *)
(***************************************************************************)
EXTENDS ZipImport

CONSTANTS
    Document,       \* documents that the user may have open
    MaxAttempts,    \* bound on the previews, and on the imports
    MaxMoves        \* bound on what else the user does

VARIABLES
    project,            \* state.projectId
    selected,           \* state.selectedDocumentId
    file,               \* state.zipFile
    preview,            \* state.zipPreview
    previewRequest, applyRequest,   \* state.zipPreviewRequestId, zipApplyRequestId
    previewing, applying,           \* state.zipPreviewing, zipApplying
    panel,              \* the result that is displayed
    moves

requestVars == <<previewRequest, applyRequest, previewing, applying>>
tabVars == <<project, selected, file, preview, requestVars, panel, moves>>
panelVars == <<importVars, tabVars>>

Nothing == [answer |-> "none"]

PanelInit ==
    /\ ImportInit
    /\ project \in Project /\ selected \in Document
    /\ file = "none" /\ preview = Nothing /\ panel = Nothing
    /\ previewRequest = 0 /\ applyRequest = 0
    /\ previewing = FALSE /\ applying = FALSE
    /\ moves = 0

\* The buttons are disabled.
Busy == previewing \/ applying

-----------------------------------------------------------------------------
(* What else the user does                                                 *)

\* A mutant: the buttons are left as they are.
InvalidateWithoutFlags ==
    /\ previewRequest' = previewRequest + 1
    /\ applyRequest' = applyRequest + 1
    /\ UNCHANGED <<previewing, applying>>

InvalidateZipImportRequests ==
    /\ previewRequest' = previewRequest + 1
    /\ applyRequest' = applyRequest + 1
    /\ previewing' = FALSE
    /\ applying' = FALSE

ResetZipImportSelection ==
    /\ InvalidateZipImportRequests
    /\ file' = "none" /\ preview' = Nothing /\ panel' = Nothing

Move == moves < MaxMoves /\ moves' = moves + 1 /\ UNCHANGED importVars

\* Opening a project, with one of its documents; the list of projects and the end of the
\* session reset as much.
OpenProject(p) ==
    /\ Move
    /\ project' = p /\ selected' \in Document
    /\ ResetZipImportSelection

PickFile(a) ==
    /\ Move
    /\ InvalidateZipImportRequests
    /\ file' = a /\ preview' = Nothing /\ panel' = Nothing
    /\ UNCHANGED <<project, selected>>

\* Another document is loaded.
SelectDocument(d) ==
    /\ Move /\ selected # d
    /\ selected' = d
    /\ UNCHANGED <<project, file, preview, requestVars, panel>>

-----------------------------------------------------------------------------
(* Requests                                                                *)

NewCall(kind, id) ==
    [ kind |-> kind, id |-> id, project |-> project, file |-> file, preview |-> preview,
      selected |-> selected, phase |-> "reading", answer |-> "none",
      found |-> {}, active |-> {}, awaited |-> TRUE ]

\* The requests of the tab's code, before the server gets them.
Send(c) ==
    /\ calls' = calls \cup {c}
    /\ UNCHANGED <<limited, documents, schemas, mayWrite, transaction, changes, faults>>

PreviewZipImport ==
    /\ file # "none" /\ ~Busy /\ previewRequest < MaxAttempts
    /\ previewRequest' = previewRequest + 1
    /\ previewing' = TRUE
    /\ Send(NewCall("preview", previewRequest + 1))
    /\ UNCHANGED <<project, selected, file, preview, applyRequest, applying, panel, moves>>

ApplyZipImport ==
    /\ file # "none" /\ preview.answer = "ready" /\ ~Busy /\ applyRequest < MaxAttempts
    /\ applyRequest' = applyRequest + 1
    /\ applying' = TRUE
    /\ Send(NewCall("apply", applyRequest + 1))
    /\ UNCHANGED <<project, selected, file, preview, previewRequest, previewing, panel, moves>>

IsLatest(c) == c.id = IF c.kind = "preview" THEN previewRequest ELSE applyRequest

\* A mutant: an answer belongs to the project alone.
IsOfProject(c) == project = c.project

\* isCurrentZipPreviewRequest, isCurrentZipApplyRequest.
IsCurrent(c) ==
    /\ IsLatest(c) /\ project = c.project /\ file = c.file
    /\ c.kind = "apply" => preview = c.preview /\ selected = c.selected

\* The finally block.
Finish(c) ==
    /\ previewing' = (previewing /\ ~(c.kind = "preview" /\ IsLatest(c)))
    /\ applying' = (applying /\ ~(c.kind = "apply" /\ IsLatest(c)))
    /\ UNCHANGED <<previewRequest, applyRequest>>

Leave(c) ==
    /\ calls' = calls \ {c}
    /\ UNCHANGED <<limited, documents, schemas, mayWrite, transaction, changes, faults>>

\* The file has been read: the request is sent, or given up.
FileRead(c) ==
    /\ c \in calls /\ c.phase = "reading"
    /\ IF IsCurrent(c)
       THEN /\ Becomes(c, [c EXCEPT !.phase = "sent"])
            /\ UNCHANGED <<limited, documents, schemas, mayWrite, transaction, changes, faults>>
            /\ UNCHANGED requestVars
       ELSE Leave(c) /\ Finish(c)
    /\ UNCHANGED <<project, selected, file, preview, panel, moves>>

Shown(c) == [answer |-> c.answer, project |-> c.project, file |-> c.file, id |-> c.id]

\* An answer is displayed if it is current, an error too. After an import the file is taken
\* away and the first document created is loaded.
TakeAnswer(c) ==
    /\ c \in calls /\ c.phase = "answered"
    /\ Leave(c) /\ Finish(c)
    /\ IF IsCurrent(c)
       THEN /\ panel' = Shown(c)
            /\ preview' = IF c.answer = "error" THEN preview ELSE Shown(c)
            /\ IF c.answer = "applied"
               THEN file' = "none" /\ selected' \in Document
               ELSE UNCHANGED <<file, selected>>
       ELSE UNCHANGED <<file, preview, selected, panel>>
    /\ UNCHANGED <<project, moves>>

-----------------------------------------------------------------------------
Progress(c) ==
    \/ FileRead(c) \/ TakeAnswer(c)
    \/ (ServerStep(c) /\ UNCHANGED tabVars)

PanelNext ==
    \/ \E p \in Project : OpenProject(p)
    \/ \E a \in Archive : PickFile(a)
    \/ \E d \in Document : SelectDocument(d)
    \/ PreviewZipImport \/ ApplyZipImport
    \/ \E c \in calls : Progress(c) \/ (LoseCall(c) /\ UNCHANGED tabVars)
    \/ (OtherStep /\ UNCHANGED tabVars)

\* Files are read and calls answered, at least by an error; the user need not do anything.
PanelFairness == WF_panelVars(\E c \in calls : Progress(c))

PanelSpec == PanelInit /\ [][PanelNext]_panelVars /\ PanelFairness

-----------------------------------------------------------------------------
(* Properties                                                              *)

\* A user gets what was shown: only a file is imported whose own preview, made for that
\* project, said that it can be; and what is displayed is about the file and the project
\* that are selected, or an import that is done and has no file any more.
ImportsWhatWasShown ==
    /\ \A c \in calls : c.kind = "apply" =>
          /\ c.preview.answer = "ready"
          /\ c.preview.project = c.project /\ c.preview.file = c.file
    /\ panel # Nothing =>
          /\ panel.project = project
          /\ panel.file = file \/ (panel.answer = "applied" /\ file = "none")

\* The buttons come back, whatever the user does while a request is on its way.
ButtonsComeBack == Busy ~> ~Busy
=============================================================================
