--------------------------- MODULE SettingsFiles ---------------------------
(***************************************************************************)
(* The SSH config and the known hosts: the files that the settings name,   *)
(* their upload (uploadSettings), the editor (settingsEditor) with its     *)
(* revision and its two looks at the file, other programs that save the    *)
(* same files, and a kill or a power failure between any two steps.  The   *)
(* handlers hold the lock ops: one of them is under way at a time.         *)
(***************************************************************************)
EXTENDS Naturals, Sequences, FiniteSets

CONSTANTS
    Text,      \* contents of settings files
    MaxFiles,  \* bound on the files that uploads create
    MaxEdits,  \* bound on the requests, and on the edits of other programs
    MaxStops,  \* bound on kills and power failures
    Missing,   \* no file
    Partial    \* a file that is empty or incomplete

Kind == {"ssh_config", "known_hosts"}

\* The user's own files, the copies of uploads, the temporary file of an edit.
OwnFile(kind) == <<"own", kind>>
Copy(n) == <<"copy", n>>
Temp == <<"temp", 0>>
Place == {OwnFile(kind) : kind \in Kind} \cup {Copy(n) : n \in 1..MaxFiles} \cup {Temp}

ASSUME SettingsAssumption ==
    /\ MaxFiles \in Nat /\ MaxEdits \in Nat /\ MaxStops \in Nat
    /\ Missing \notin Text \cup Place /\ Partial \notin Text \cup {Missing}
    /\ Missing \notin [kind : Kind, path : Place, text : Text \cup {Missing, Partial}]

VARIABLES
    disk,      \* the content of each file
    unflushed, \* files that a power failure may harm
    setting,   \* the path that the settings have for each kind
    step,      \* where the handler is; "idle": none is under way
    upload,    \* what an upload still has to write: kind and text
    chosen,    \* the paths of an upload so far
    made,      \* the files the handler has created
    draft,     \* the text the editor saves
    view,      \* what the browser's editor shows: kind, path, text
    copies,    \* files created by uploads so far
    edits, stops,
    named,     \* observed: the paths that were ever in the settings
    leftover,  \* observed: a file could not be removed
    late       \* observed: an edit of another program after the second look

handlerVars == <<upload, chosen, made, draft>>
settingsVars == <<disk, unflushed, setting, step, handlerVars, view, copies,
                  edits, stops, named, leftover, late>>

NoCopies == [kind \in Kind |-> Missing]

SettingsTypeOK ==
    /\ disk \in [Place -> Text \cup {Missing, Partial}]
    /\ unflushed \in SUBSET Place
    /\ setting \in [Kind -> Place \ {Temp}]
    /\ step \in {"idle", "upload", "write", "draft", "look", "rename", "undo"}
    /\ upload \in Seq([kind : Kind, text : Text])
    /\ chosen \in [Kind -> Place \cup {Missing}]
    /\ made \in SUBSET Place
    /\ draft \in Text \cup {Missing}
    /\ view \in [kind : Kind, path : Place, text : Text \cup {Missing, Partial}] \cup {Missing}
    /\ copies \in 0..MaxFiles /\ edits \in 0..MaxEdits /\ stops \in 0..MaxStops
    /\ named \in SUBSET Place /\ leftover \in BOOLEAN /\ late \in BOOLEAN

\* The user has a config, or none yet; the same for the known hosts.
SettingsInit ==
    /\ disk \in {d \in [Place -> Text \cup {Missing}] :
                    \A q \in Place : d[q] = Missing \/ \E kind \in Kind : q = OwnFile(kind)}
    /\ unflushed = {}
    /\ setting = [kind \in Kind |-> OwnFile(kind)]
    /\ step = "idle" /\ upload = <<>> /\ chosen = NoCopies /\ made = {} /\ draft = Missing
    /\ view = Missing
    /\ copies = 0 /\ edits = 0 /\ stops = 0
    /\ named = {} /\ leftover = FALSE /\ late = FALSE

Edited == edits < MaxEdits /\ edits' = edits + 1

\* The handler is through with its request.
Over ==
    /\ step' = "idle"
    /\ upload' = <<>> /\ chosen' = NoCopies /\ made' = {} /\ draft' = Missing
    /\ late' = FALSE

\* It fails: what it created is removed, then it answers.
GivesUp ==
    /\ step' = "undo"
    /\ late' = FALSE
    /\ UNCHANGED <<handlerVars, disk, unflushed, setting, view, copies, edits, stops, named, leftover>>

\* The file is created, and empty.
Makes(q) ==
    /\ disk' = [disk EXCEPT ![q] = Partial]
    /\ unflushed' = unflushed \cup {q}
    /\ made' = made \cup {q}

\* It is written, synced and closed.
Fills(q, t) ==
    /\ disk' = [disk EXCEPT ![q] = t]
    /\ unflushed' = unflushed \ {q}

----------------------------------------------------------------------------
(* uploadSettings, and save with other paths.                              *)

\* A config, known hosts, or both, one after the other.
UploadAsked ==
    /\ step = "idle" /\ Edited
    /\ \E t \in Text, kinds \in {<<"ssh_config">>, <<"known_hosts">>, <<"ssh_config", "known_hosts">>} :
          upload' = [i \in DOMAIN kinds |-> [kind |-> kinds[i], text |-> t]]
    /\ step' = "upload"
    /\ UNCHANGED <<chosen, made, draft, disk, unflushed, setting, view, copies, stops, named, leftover, late>>

CopyMade ==
    /\ step = "upload" /\ upload # <<>>
    /\ copies < MaxFiles
    /\ copies' = copies + 1
    /\ Makes(Copy(copies'))
    /\ step' = "write"
    /\ UNCHANGED <<upload, chosen, draft, setting, view, edits, stops, named, leftover, late>>

CopyWritten ==
    /\ step = "write"
    /\ Fills(Copy(copies), Head(upload).text)
    /\ chosen' = [chosen EXCEPT ![Head(upload).kind] = Copy(copies)]
    /\ upload' = Tail(upload)
    /\ step' = "upload"
    /\ UNCHANGED <<made, draft, setting, view, copies, edits, stops, named, leftover, late>>

\* A file cannot be created or written, its content is refused, or the
\* update fails.
UploadFails == step \in {"upload", "write"} /\ GivesUp

\* Paths that the form may have: of the user's own file, or shown at any time.
Form == {form \in [Kind -> Place] : \A kind \in Kind : form[kind] \in {OwnFile(kind)} \cup named}

\* One update with all new paths, and the path in the form where there is none.
UploadSaved ==
    /\ step = "upload" /\ upload = <<>>
    /\ \E form \in Form :
          setting' = [kind \in Kind |-> IF chosen[kind] = Missing THEN form[kind] ELSE chosen[kind]]
    /\ named' = named \cup ({chosen[kind] : kind \in Kind} \ {Missing})
    /\ Over
    /\ UNCHANGED <<disk, unflushed, view, copies, edits, stops, leftover>>

\* The user saves the form without a file.
SettingsSaved ==
    /\ step = "idle" /\ Edited
    /\ setting' \in Form
    /\ UNCHANGED <<disk, unflushed, step, handlerVars, view, copies, stops, named, leftover, late>>

----------------------------------------------------------------------------
(* settingsEditor.                                                         *)

\* The browser gets the path, the text and its revision, also of no file.
EditorReads(kind) ==
    /\ step = "idle" /\ Edited
    /\ view' = [kind |-> kind, path |-> setting[kind], text |-> disk[setting[kind]]]
    /\ UNCHANGED <<disk, unflushed, setting, step, handlerVars, copies, stops, named, leftover, late>>

\* The path and the revision are those the browser has; a change is a conflict.
AsOpened ==
    /\ setting[view.kind] = view.path
    /\ disk[view.path] = view.text

EditorSaves(t) ==
    /\ step = "idle" /\ Edited
    /\ view # Missing
    /\ AsOpened
    /\ draft' = t
    /\ Makes(Temp)
    /\ step' = "draft"
    /\ UNCHANGED <<upload, chosen, setting, view, copies, stops, named, leftover, late>>

DraftWritten ==
    /\ step = "draft"
    /\ Fills(Temp, draft)
    /\ step' = "look"
    /\ UNCHANGED <<handlerVars, setting, view, copies, edits, stops, named, leftover, late>>

\* Mutant: no second look.
StillAsOpenedUnread == TRUE

StillAsOpened == disk[view.path] = view.text

\* "Recheck after preparing the replacement"
EditorLooks ==
    /\ step = "look"
    /\ StillAsOpened
    /\ step' = "rename"
    /\ UNCHANGED <<disk, unflushed, setting, handlerVars, view, copies, edits, stops, named, leftover, late>>

\* The file has changed, or a step fails: the original is kept.
EditorFails == step \in {"draft", "look", "rename"} /\ GivesUp

\* The temporary file takes the place of the original.
DraftRenamed ==
    /\ step = "rename"
    /\ disk' = [disk EXCEPT ![view.path] = disk[Temp], ![Temp] = Missing]
    /\ view' = [view EXCEPT !.text = draft]
    /\ Over
    /\ UNCHANGED <<unflushed, setting, copies, edits, stops, named, leftover>>

\* Mutant: a failed handler leaves its files.
HandlerUndoneForgets ==
    /\ step = "undo"
    /\ Over
    /\ UNCHANGED <<disk, unflushed, setting, view, copies, edits, stops, named, leftover>>

\* The deferred function removes a file, or is done.
HandlerUndone ==
    /\ step = "undo"
    /\ IF made = {}
         THEN Over /\ UNCHANGED <<disk, unflushed>>
         ELSE \E q \in made :
                 /\ Fills(q, Missing)
                 /\ made' = made \ {q}
                 /\ UNCHANGED <<step, upload, chosen, draft, late>>
    /\ UNCHANGED <<setting, view, copies, edits, stops, named, leftover>>

\* A file cannot be removed: the error of Remove is dropped.
HandlerLeaves ==
    /\ step = "undo"
    /\ \E q \in made : made' = made \ {q}
    /\ leftover' = TRUE
    /\ UNCHANGED <<step, upload, chosen, draft, disk, unflushed, setting, view, copies,
                   edits, stops, named, late>>

----------------------------------------------------------------------------
(* Other programs, and the end of this one.                                *)

\* Another program saves a settings file.
ExternalEdit(kind, t) ==
    /\ Edited
    /\ disk' = [disk EXCEPT ![setting[kind]] = t]
    /\ late' = (late \/ step = "rename")
    /\ UNCHANGED <<unflushed, setting, step, handlerVars, view, copies, stops, named, leftover>>

\* The program is killed, or the power fails, and it is started again.
Stops(harmed) ==
    /\ stops < MaxStops
    /\ stops' = stops + 1
    /\ disk' = [q \in Place |-> IF q \in harmed THEN Partial ELSE disk[q]]
    /\ unflushed' = {}
    /\ Over
    /\ UNCHANGED <<setting, view, copies, edits, named, leftover>>

SettingsNext ==
    \/ UploadAsked \/ CopyMade \/ CopyWritten \/ UploadFails \/ UploadSaved
    \/ SettingsSaved \/ (\E kind \in Kind : EditorReads(kind))
    \/ \E t \in Text : EditorSaves(t)
    \/ DraftWritten \/ EditorLooks \/ EditorFails \/ DraftRenamed
    \/ HandlerUndone \/ HandlerLeaves
    \/ \E kind \in Kind, t \in Text : ExternalEdit(kind, t)
    \/ \E harmed \in SUBSET unflushed : Stops(harmed)

SettingsSpec == SettingsInit /\ [][SettingsNext]_settingsVars

----------------------------------------------------------------------------
(* Properties.                                                             *)

(***************************************************************************)
(* The settings never name a file that is half written, whatever fails or  *)
(* stops: uploads are whole before the settings name them, and an edit     *)
(* replaces the original in one step ("원본은 유지됩니다",                 *)
(* settingseditor.go:121: the original is kept).  While nothing stops the  *)
(* program and every file that is to be removed can be, a handler that is  *)
(* over leaves no copy that the settings never named and no temporary      *)
(* file.                                                                   *)
(***************************************************************************)
SettingsWhole ==
    /\ \A kind \in Kind : disk[setting[kind]] # Partial
    /\ stops = 0 /\ ~leftover /\ step = "idle" =>
          \A q \in {Temp} \cup {Copy(n) : n \in 1..copies} :
              disk[q] # Missing => q \in named

(***************************************************************************)
(* The editor replaces only the text that the browser showed, never an     *)
(* edit that another program, an upload or another tab made since.  The    *)
(* code cannot see an edit after its second look (settingseditor.go:132).  *)
(***************************************************************************)
OnlySeenReplaced ==
    [][step = "rename" /\ step' = "idle" /\ stops' = stops
          => late \/ disk[view.path] = view.text]_settingsVars
=============================================================================
