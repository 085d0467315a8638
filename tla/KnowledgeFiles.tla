--------------------------- MODULE KnowledgeFiles ---------------------------
(***************************************************************************)
(* The knowledge library of the FastAPI application: a row per source in   *)
(* PostgreSQL and, for an uploaded document, a file that the row names     *)
(* (KnowledgeFileStore). No transaction spans the two. An upload writes    *)
(* the file first, a removal deletes the row first.                        *)
(*                                                                         *)
(* Every upload makes a new source id and a new storage key, so a source   *)
(* stands for both. Requests are interleaved at their awaits and may end   *)
(* at each of them: the process stops, or the client leaves and the task   *)
(* is cancelled, which "except Exception" does not catch.                  *)
(***************************************************************************)
EXTENDS Integers, FiniteSets

CONSTANTS
    Sources,    \* sources of one tenant, each uploaded once
    Requests,   \* concurrent delete or content requests
    NoSource    \* what an idle request works on

ConstantsOK == NoSource \notin Sources

VARIABLES
    rows,       \* sources with a committed row
    files,      \* sources with a file on disk
    upload,     \* how far the upload of each source is
    pc,         \* how far each request is
    target,     \* the source it works on
    \* --- history
    uncertain,  \* sources whose commit was reported as failed
    cut,        \* sources whose upload or removal ended early
    removed,    \* sources some request has deleted the row of
    broken      \* sources some request found the row of but not the file

requestVars == <<pc, target>>
historyVars == <<uncertain, cut, removed, broken>>
vars == <<rows, files, upload, requestVars, historyVars>>

TypeOK ==
    /\ rows \subseteq Sources
    /\ files \subseteq Sources
    /\ upload \in [Sources -> {"new", "saved", "raised", "ended"}]
    /\ pc \in [Requests -> {"idle", "delete", "unlink", "content"}]
    /\ target \in [Requests -> Sources \union {NoSource}]
    /\ \A r \in Requests : (target[r] = NoSource) <=> (pc[r] = "idle")
    /\ uncertain \subseteq Sources
    /\ cut \subseteq Sources
    /\ removed \subseteq Sources
    /\ broken \subseteq Sources

Init ==
    /\ rows = {}
    /\ files = {}
    /\ upload = [s \in Sources |-> "new"]
    /\ pc = [r \in Requests |-> "idle"]
    /\ target = [r \in Requests |-> NoSource]
    /\ uncertain = {}
    /\ cut = {}
    /\ removed = {}
    /\ broken = {}

-----------------------------------------------------------------------------
(* upload_admin_knowledge.                                                  *)

Advance(s, step) == upload' = [upload EXCEPT ![s] = step]

\* file_store.save.
SaveFile(s) ==
    /\ upload[s] = "new"
    /\ files' = files \union {s}
    /\ Advance(s, "saved")
    /\ UNCHANGED <<rows, requestVars, historyVars>>

\* write_bytes raises, perhaps with a part of the file written: outside the
\* try, nothing cleans up.
SaveRaises(s) ==
    /\ upload[s] = "new"
    /\ files' \in {files, files \union {s}}
    /\ Advance(s, "ended")
    /\ cut' = cut \union {s}
    /\ UNCHANGED <<rows, requestVars, uncertain, removed, broken>>

\* Mutant: the row is committed before the file is written.
BeforeSave(s) == upload[s] = "new"

AfterSave(s) == upload[s] = "saved"

\* knowledge.add commits.
AddRow(s) ==
    /\ AfterSave(s)
    /\ rows' = rows \union {s}
    /\ Advance(s, "ended")
    /\ UNCHANGED <<files, requestVars, historyVars>>

\* knowledge.add raises; if the connection broke during the commit, the row
\* may be there.
AddRowRaises(s) ==
    /\ AfterSave(s)
    /\ Advance(s, "raised")
    /\ \/ UNCHANGED <<rows, uncertain>>
       \/ /\ rows' = rows \union {s}
          /\ uncertain' = uncertain \union {s}
    /\ UNCHANGED <<files, requestVars, cut, removed, broken>>

\* Mutant: the exception is passed on without removing the file.
KeepFile(s) == UNCHANGED files

RemoveFile(s) == files' = files \ {s}

\* The except clause: file_store.delete, and the exception goes on.
UndoSave(s) ==
    /\ upload[s] = "raised"
    /\ RemoveFile(s)
    /\ Advance(s, "ended")
    /\ UNCHANGED <<rows, requestVars, historyVars>>

\* The upload is cancelled or dies at an await.
CutUpload(s) ==
    /\ upload[s] = "saved"
    /\ Advance(s, "ended")
    /\ cut' = cut \union {s}
    /\ UNCHANGED <<rows, files, requestVars, uncertain, removed, broken>>

-----------------------------------------------------------------------------
(* delete_admin_knowledge and admin_knowledge_content.                      *)

Take(r, s, step) ==
    /\ pc[r] = "idle"
    /\ s \in rows
    /\ pc' = [pc EXCEPT ![r] = step]
    /\ target' = [target EXCEPT ![r] = s]

\* Mutant: the request goes on with the source of the one before.
EndKeepsTarget(r) ==
    /\ pc' = [pc EXCEPT ![r] = "idle"]
    /\ UNCHANGED target

End(r) ==
    /\ pc' = [pc EXCEPT ![r] = "idle"]
    /\ target' = [target EXCEPT ![r] = NoSource]

\* Mutant: the removal deletes the file before its transaction commits.
FileFirst(s) == files' = files \ {s}

LeaveFile(s) == UNCHANGED files

\* knowledge.delete finds the row, in its transaction.
SelectRow(r, s) ==
    /\ Take(r, s, "delete")
    /\ LeaveFile(s)
    /\ UNCHANGED <<rows, upload, historyVars>>

\* Its transaction commits, also if another one has deleted the row.
DeleteRow(r) ==
    /\ pc[r] = "delete"
    /\ rows' = rows \ {target[r]}
    /\ removed' = removed \union {target[r]}
    /\ pc' = [pc EXCEPT ![r] = "unlink"]
    /\ UNCHANGED <<files, upload, target, uncertain, cut, broken>>

\* file_store.delete, which accepts that the file is gone.
Unlink(r) ==
    /\ pc[r] = "unlink"
    /\ RemoveFile(target[r])
    /\ End(r)
    /\ UNCHANGED <<rows, upload, historyVars>>

\* The removal is rolled back, cut off, or unlink raises.
CutDelete(r) ==
    /\ pc[r] \in {"delete", "unlink"}
    /\ cut' = IF pc[r] = "unlink" THEN cut \union {target[r]} ELSE cut
    /\ End(r)
    /\ UNCHANGED <<rows, files, upload, uncertain, removed, broken>>

\* knowledge.get finds the row of the document to show.
GetRow(r, s) ==
    /\ Take(r, s, "content")
    /\ UNCHANGED <<rows, files, upload, historyVars>>

\* FileResponse opens the file after the handler has returned.
ServeFile(r) ==
    /\ pc[r] = "content"
    /\ broken' = IF target[r] \in files THEN broken
                 ELSE broken \union {target[r]}
    /\ End(r)
    /\ UNCHANGED <<rows, files, upload, uncertain, cut, removed>>

-----------------------------------------------------------------------------
Upload(s) ==
    \/ SaveFile(s)
    \/ SaveRaises(s)
    \/ AddRow(s)
    \/ AddRowRaises(s)
    \/ UndoSave(s)
    \/ CutUpload(s)

Serve(r) ==
    \/ \E s \in Sources : SelectRow(r, s) \/ GetRow(r, s)
    \/ DeleteRow(r)
    \/ Unlink(r)
    \/ CutDelete(r)
    \/ ServeFile(r)

Next == (\E s \in Sources : Upload(s)) \/ (\E r \in Requests : Serve(r))

Spec == Init /\ [][Next]_vars

-----------------------------------------------------------------------------
(* Properties.                                                              *)

\* A row names a file that is there, whatever is uploaded, removed or cut off
\* around it; only a commit that succeeded and was reported as failed makes
\* the upload delete the file of a row (main.py:376-387, 413-417).
RowHasFile == rows \ uncertain \subseteq files

\* A file without a row belongs to a request still at work on it or to one
\* that was cut off: requests that run to their end leave no orphan.
OrphanOnlyByCut ==
    \A s \in files \ rows :
        \/ upload[s] \in {"saved", "raised"}
        \/ \E r \in Requests : pc[r] = "unlink" /\ target[r] = s
        \/ s \in cut

\* A document that is listed and cannot be read was removed meanwhile, or its
\* commit was uncertain (main.py:396-400).
BrokenOnlyByRemoval == broken \subseteq removed \union uncertain

\* The three together: rows, files and what readers find of them agree.
FilesAgree == RowHasFile /\ OrphanOnlyByCut /\ BrokenOnlyByRemoval
=============================================================================
