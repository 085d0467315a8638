--------------------------- MODULE VectorKnowledge ---------------------------
(***************************************************************************)
(* The knowledge base of the Cloudflare deployment. A source is a row with *)
(* its fragments in the tenant's Durable Object (TenantWorkspace), and one *)
(* vector per fragment in Vectorize. No transaction spans the two: an      *)
(* upload writes the vectors first and takes them back when a later step   *)
(* throws; a removal deletes the row first, because the row is what says   *)
(* how many vectors there are.                                             *)
(*                                                                         *)
(* Row and fragments are written and deleted together (transactionSync,    *)
(* ON DELETE CASCADE), so a row stands for both. A call that throws may    *)
(* have been carried out, in part or whole, and an upsert that was given   *)
(* up may still be applied later. Vectorize applies what it accepts in     *)
(* order; that it shows it with a delay only makes a search older, and     *)
(* searches change nothing.                                                *)
(***************************************************************************)
EXTENDS Integers, FiniteSets

CONSTANTS
    Sources,    \* ids made by crypto.randomUUID, one per upload
    Fragments,  \* positions of the fragments of a source
    Removals,   \* concurrent requests to remove a source
    NoSource    \* what an idle removal works on

ConstantsOK == Fragments # {} /\ NoSource \notin Sources

VARIABLES
    rows,       \* sources with a row in the Durable Object
    vectors,    \* fragments of each source that have a vector
    late,       \* uploads whose given-up upsert may still be applied
    upload,     \* how far the upload of each source is
    pc,         \* how far each removal is
    target,     \* the source it removes
    audits,     \* audit events "knowledge.deleted", per source
    \* --- history
    unsure,     \* sources whose row was committed though the call threw
    faulty      \* sources some step failed for in a way nothing repairs

removalVars == <<pc, target, audits>>
historyVars == <<unsure, faulty>>
vars == <<rows, vectors, late, upload, removalVars, historyVars>>

TypeOK ==
    /\ rows \subseteq Sources
    /\ vectors \in [Sources -> SUBSET Fragments]
    /\ late \subseteq Sources
    /\ upload \in [Sources -> {"new", "stored", "undo", "added", "failed"}]
    /\ pc \in [Removals -> {"idle", "purge", "audit"}]
    /\ target \in [Removals -> Sources \union {NoSource}]
    /\ \A r \in Removals : (target[r] = NoSource) <=> (pc[r] = "idle")
    /\ audits \in [Sources -> Nat]
    /\ unsure \subseteq Sources
    /\ faulty \subseteq Sources

Init ==
    /\ rows = {}
    /\ vectors = [s \in Sources |-> {}]
    /\ late = {}
    /\ upload = [s \in Sources |-> "new"]
    /\ pc = [r \in Removals |-> "idle"]
    /\ target = [r \in Removals |-> NoSource]
    /\ audits = [s \in Sources |-> 0]
    /\ unsure = {}
    /\ faulty = {}

Advance(s, step) == upload' = [upload EXCEPT ![s] = step]
SetVectors(s, fragments) == vectors' = [vectors EXCEPT ![s] = fragments]

-----------------------------------------------------------------------------
(* addKnowledge, with ingestTextKnowledge.                                  *)

\* The payload is invalid or Workers AI returns no embeddings.
Refuse(s) ==
    /\ upload[s] = "new"
    /\ Advance(s, "failed")
    /\ UNCHANGED <<rows, vectors, late, removalVars, historyVars>>

Upsert(s) ==
    /\ upload[s] = "new"
    /\ SetVectors(s, Fragments)
    /\ Advance(s, "stored")
    /\ UNCHANGED <<rows, late, removalVars, historyVars>>

\* upsert throws: applied in part or whole, or on its way.
UpsertThrows(s) ==
    /\ upload[s] = "new"
    /\ \/ \E applied \in SUBSET Fragments : SetVectors(s, applied)
          /\ UNCHANGED late
       \/ /\ late' = late \union {s}
          /\ UNCHANGED vectors
    /\ Advance(s, "undo")
    /\ UNCHANGED <<rows, removalVars, historyVars>>

\* The upsert that was given up is applied after all, before the deletion of
\* the same vectors or after it.
LateUpsert(s) ==
    /\ s \in late
    /\ SetVectors(s, Fragments)
    /\ late' = late \ {s}
    /\ faulty' = IF upload[s] = "undo" THEN faulty ELSE faulty \union {s}
    /\ UNCHANGED <<rows, upload, removalVars, unsure>>

\* Mutant: the row is added without the vectors being awaited.
IsNew(s) == upload[s] = "new"

IsStored(s) == upload[s] = "stored"

\* TenantWorkspace.addKnowledge commits, and 201 is answered.
AddSource(s) ==
    /\ IsStored(s)
    /\ rows' = rows \union {s}
    /\ Advance(s, "added")
    /\ UNCHANGED <<vectors, late, removalVars, historyVars>>

\* The call to the Durable Object throws: rolled back, or committed with the
\* answer lost.
AddSourceThrows(s) ==
    /\ IsStored(s)
    /\ \/ UNCHANGED <<rows, unsure>>
       \/ /\ rows' = rows \union {s}
          /\ unsure' = unsure \union {s}
    /\ Advance(s, "undo")
    /\ UNCHANGED <<vectors, late, removalVars, faulty>>

\* Mutant: the vectors are left behind.
KeepVectors(s) == UNCHANGED vectors

DeleteByIds(s) == SetVectors(s, {})

\* The catch clauses: deleteByIds, and the exception goes on.
Undo(s) ==
    /\ upload[s] = "undo"
    /\ DeleteByIds(s)
    /\ Advance(s, "failed")
    /\ UNCHANGED <<rows, late, removalVars, historyVars>>

\* deleteByIds throws in the catch clause, which ignores it, or the
\* invocation ends before it is called.
LeaveVectors(s) ==
    /\ upload[s] = "undo"
    /\ \E left \in SUBSET vectors[s] : SetVectors(s, left)
    /\ Advance(s, "failed")
    /\ faulty' = faulty \union {s}
    /\ UNCHANGED <<rows, late, removalVars, unsure>>

\* The invocation ends before the Durable Object is called or has answered.
CutUpload(s) ==
    /\ upload[s] = "stored"
    /\ \/ /\ rows' = rows \union {s}
          /\ UNCHANGED faulty
       \/ /\ faulty' = faulty \union {s}
          /\ UNCHANGED rows
    /\ Advance(s, "failed")
    /\ UNCHANGED <<vectors, late, removalVars, unsure>>

-----------------------------------------------------------------------------
(* removeKnowledge. A source without a row is answered with 404.            *)

Goto(r, step, s) ==
    /\ pc' = [pc EXCEPT ![r] = step]
    /\ target' = [target EXCEPT ![r] = s]

\* Mutant: the handler trusts the id instead of the row.
AnySource == Sources

Removable == rows

\* TenantWorkspace.deleteKnowledge returns the ids of the vectors.
DeleteRow(r, s) ==
    /\ pc[r] = "idle"
    /\ s \in Removable
    /\ rows' = rows \ {s}
    /\ Goto(r, "purge", s)
    /\ UNCHANGED <<vectors, late, upload, audits, historyVars>>

\* The row is deleted and the ids are lost with the answer.
DeleteRowThrows(r, s) ==
    /\ pc[r] = "idle"
    /\ s \in Removable
    /\ rows' = rows \ {s}
    /\ faulty' = faulty \union {s}
    /\ UNCHANGED <<vectors, late, upload, removalVars, unsure>>

\* Mutant: deleteByIds is not awaited and its failure is not seen.
NotAwaited(r) == UNCHANGED vectors

AwaitDelete(r) == DeleteByIds(target[r])

DeleteVectors(r) ==
    /\ pc[r] = "purge"
    /\ AwaitDelete(r)
    /\ Goto(r, "audit", target[r])
    /\ UNCHANGED <<rows, late, upload, audits, historyVars>>

\* deleteByIds throws, or the invocation ends before it is called.
DeleteVectorsThrows(r) ==
    /\ pc[r] = "purge"
    /\ \E left \in SUBSET vectors[target[r]] : SetVectors(target[r], left)
    /\ faulty' = faulty \union {target[r]}
    /\ Goto(r, "idle", NoSource)
    /\ UNCHANGED <<rows, late, upload, audits, unsure>>

\* The audit event is inserted, or the insert fails and only the answer does.
Audit(r) ==
    /\ pc[r] = "audit"
    /\ audits' \in {audits, [audits EXCEPT ![target[r]] = @ + 1]}
    /\ Goto(r, "idle", NoSource)
    /\ UNCHANGED <<rows, vectors, late, upload, historyVars>>

-----------------------------------------------------------------------------
Upload(s) ==
    \/ Refuse(s)
    \/ Upsert(s)
    \/ UpsertThrows(s)
    \/ LateUpsert(s)
    \/ AddSource(s)
    \/ AddSourceThrows(s)
    \/ Undo(s)
    \/ LeaveVectors(s)
    \/ CutUpload(s)

Remove(r) ==
    \/ \E s \in Sources : DeleteRow(r, s) \/ DeleteRowThrows(r, s)
    \/ DeleteVectors(r)
    \/ DeleteVectorsThrows(r)
    \/ Audit(r)

Next == (\E s \in Sources : Upload(s)) \/ (\E r \in Removals : Remove(r))

Spec == Init /\ [][Next]_vars

-----------------------------------------------------------------------------
(* Properties.                                                              *)

\* A listed source is found by a search through every one of its fragments,
\* in the middle of any other upload or removal. Only a row whose commit was
\* answered with an exception is listed without its vectors (index.ts:241-248,
\* 407-409).
ListedIsSearchable ==
    \A s \in rows \ unsure : vectors[s] = Fragments

\* Vectors without a row, which take places of a search and can no longer be
\* removed through the panel, belong to a request still at work or to one
\* whose clean-up failed or was never reached.
OrphanOnlyByFault ==
    \A s \in Sources \ (rows \union faulty) :
        vectors[s] # {} =>
            \/ upload[s] \in {"stored", "undo"}
            \/ \E r \in Removals : pc[r] = "purge" /\ target[r] = s

\* A source whose removal was audited is gone for good: neither its row nor
\* one of its vectors is there or comes back (index.ts:407-420).
AuditedIsGone ==
    \A s \in Sources : audits[s] > 0 => s \notin rows /\ vectors[s] = {}

\* Of several requests that remove a source, one is told that it did.
AuditedOnce == \A s \in Sources : audits[s] <= 1
=============================================================================
