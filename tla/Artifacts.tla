----------------------------- MODULE Artifacts ------------------------------
(***************************************************************************)
(* Customer bytes and the rows that account for them: the evidence of      *)
(* ingest/evidence.rs, the original captures of captures.rs and            *)
(* db/tenant/captures.rs, the retention pass of operations.rs, the project *)
(* deletion of auth/projects.rs and the sample deletion of triage/mod.rs.  *)
(* A blob and its row are never written in one transaction: uploads        *)
(* reserve the row first, retention and project deletion remove the blob   *)
(* first, the sample deletion removes the rows first, and any step in      *)
(* between may fail or be the last one its process takes.  A put is not    *)
(* atomic either: the local store writes in place, and a put that reports  *)
(* an error may have written a part or all of the object.                  *)
(*                                                                         *)
(* The evidence belongs to one project, App; every object is one unit of   *)
(* its quota.  The capture is one report under review and upload.          *)
(***************************************************************************)
EXTENDS Naturals, FiniteSets

CONSTANTS
    App, Other,  \* two projects of the tenant
    Uploads,     \* evidence objects, each with a key of its own
    Files,       \* the files the capture's manifest declares a hash for
    Handlers,    \* concurrent put_file requests
    Quota,       \* max_evidence_bytes_per_app
    Expired,     \* the uploads whose error is past the retention window
    Sample,      \* the uploads whose error belongs to the onboarding sample bucket
    Faults       \* "put", "delete", "crash": which failures happen

Manifest == "manifest.json"
Names == Files \cup {Manifest}

\* The model parameters: "manifest.json" is the one name without a declared
\* hash, and evidence and capture files have keys of their own.
ASSUME ArtifactAssumption ==
    /\ Manifest \notin Files /\ Uploads \cap Names = {}
    /\ Expired \subseteq Uploads /\ Sample \subseteq Uploads /\ App # Other
    /\ Quota \in Nat /\ IsFiniteSet(Uploads) /\ IsFiniteSet(Files)

\* Contents of uploaded bodies: "a" has the hash the manifest declares.
Contents == {"a", "b"}
declared(f) == IF f = Manifest THEN Contents ELSE {"a"}

VARIABLES
    projects,  \* projects rows
    evidence,  \* evidence rows
    usage,     \* app_storage_usage.bytes of App
    errors,    \* uploads whose error row exists (each upload has an error of its own)
    up,        \* up[u]: store_evidence_for_error of object u
    blob,      \* blob[k]: contents of the object at key k, "partial" when some of them
               \*   are missing, "none" when there is no object
    capture,   \* captures row: [status, app, link]
    files,     \* files[f]: capture_files row [sha256, uploaded], or NoRow
    put,       \* put[h]: a put_file request
    completing,  \* complete handlers that have verified the files
    sweep,     \* the retention pass: [pc, todo, done]
    removal,   \* the deletion of App's project: [pc, todo, gone], gone a history
               \*   of the declared files whose objects it deleted
    sample,    \* the deletion of the sample bucket: [pc, todo]
    raced,     \* history: keys written while a deletion had them in hand
    stray,     \* history: keys at which a put that reported an error left something,
               \*   and keys a sample deletion failed to delete
    torn       \* history: files whose latest reservation overlapped another upload of them

evidenceVars == <<evidence, usage, errors, up>>
captureVars == <<capture, files, put, completing, torn>>
deletionVars == <<sweep, removal, sample, raced, stray>>
vars == <<projects, evidence, usage, errors, up, blob, capture, files, put, completing, sweep,
          removal, sample, raced, stray, torn>>

NoRow == [sha256 |-> "none", uploaded |-> FALSE]
NoCapture == [status |-> "absent", app |-> "none", link |-> FALSE]
IdlePut == [pc |-> "idle", file |-> Manifest, body |-> "a", app |-> "none", client |-> TRUE]
IdleSweep == [pc |-> "idle", todo |-> {}, done |-> {}]

Rows == {f \in Names : files[f] # NoRow}
\* Bytes of app's capture files, not counting the file about to be replaced.
CaptureBytes(app, f) == IF capture.app = app THEN Cardinality(Rows \ {f}) ELSE 0
quota_allows(used) == used + 1 <= Quota

Init ==
    /\ projects = {App, Other}
    /\ evidence = {} /\ usage = 0 /\ errors = Uploads
    /\ up = [u \in Uploads |-> "new"]
    /\ blob = [k \in Uploads \cup Names |-> "none"]
    /\ capture = NoCapture
    /\ files = [f \in Names |-> NoRow]
    /\ put = [h \in Handlers |-> IdlePut]
    /\ completing = 0
    /\ sweep = IdleSweep
    /\ removal = [pc |-> "idle", todo |-> {}, gone |-> {}]
    /\ sample = [pc |-> "idle", todo |-> {}]
    /\ raced = {} /\ stray = {} /\ torn = {}

-----------------------------------------------------------------------------
(* Evidence: reserve the row, upload, compensate. *)

\* One transaction holding the app_storage_usage row; the new row references
\* its error.
add_evidence_within_quota(u) ==
    /\ up[u] = "new"
    /\ IF quota_allows(usage) /\ u \in errors
       THEN /\ evidence' = evidence \cup {u}
            /\ usage' = usage + 1
            /\ up' = [up EXCEPT ![u] = "reserved"]
       ELSE up' = [up EXCEPT ![u] = "done"] /\ UNCHANGED <<evidence, usage>>
    /\ UNCHANGED <<projects, errors, blob, captureVars, deletionVars>>

\* A deletion has listed the keys it deletes, or the row of the key is gone.
InHand(u) == \/ u \in sweep.todo \cup sweep.done \/ removal.pc # "idle"
             \/ sample.pc # "idle" /\ u \in Sample
             \/ u \notin evidence

blobs_put(u) ==
    /\ up[u] = "reserved"
    /\ blob' = [blob EXCEPT ![u] = "a"]
    /\ up' = [up EXCEPT ![u] = "done"]
    /\ raced' = IF InHand(u) THEN raced \cup {u} ELSE raced
    /\ UNCHANGED <<projects, evidence, usage, errors, captureVars, sweep, removal, sample,
                   stray>>

\* What a put leaves that fails or stops: fs::write breaks off, or the answer of
\* a remote store is lost on its way.
Left == {"none", "partial", "a"}

blobs_put_failed(u) ==
    /\ "put" \in Faults /\ up[u] = "reserved"
    /\ \E c \in Left :
         /\ blob' = [blob EXCEPT ![u] = c]
         /\ stray' = IF c # "none" THEN stray \cup {u} ELSE stray
    /\ up' = [up EXCEPT ![u] = "undo"]
    /\ raced' = IF InHand(u) THEN raced \cup {u} ELSE raced
    /\ UNCHANGED <<projects, evidence, usage, errors, captureVars, sweep, removal, sample>>

\* Mutant: the trigger does not follow deletions.
Unreserve_NoTrigger(S) == evidence' = evidence \ S /\ usage' = usage

\* DELETE FROM evidence, and update_app_storage_usage for each row.
Unreserve(S) ==
    /\ evidence' = evidence \ S
    /\ usage' = IF Cardinality(S \cap evidence) <= usage
                THEN usage - Cardinality(S \cap evidence) ELSE 0

\* The server of an evidence upload stops between two steps or during the put.
store_evidence_lost(u) ==
    /\ "crash" \in Faults /\ up[u] = "reserved"
    /\ \E c \in Left : blob' = [blob EXCEPT ![u] = c]
    /\ up' = [up EXCEPT ![u] = "done"]
    /\ raced' = IF InHand(u) THEN raced \cup {u} ELSE raced
    /\ UNCHANGED <<projects, evidence, usage, errors, captureVars, sweep, removal, sample,
                   stray>>

\* Nor does a failed put always remove its row: the error of that is ignored.
remove_evidence_lost(u) ==
    /\ "crash" \in Faults /\ up[u] = "undo"
    /\ up' = [up EXCEPT ![u] = "done"]
    /\ UNCHANGED <<projects, evidence, usage, errors, blob, captureVars, deletionVars>>

remove_evidence(u) ==
    /\ up[u] = "undo"
    /\ Unreserve({u})
    /\ up' = [up EXCEPT ![u] = "done"]
    /\ UNCHANGED <<projects, errors, blob, captureVars, deletionVars>>

-----------------------------------------------------------------------------
(* Captures: create, review, upload, complete. *)

\* Mutant: a conflicting create also rewrites a capture that is under way.
create_AnyStatus(app) ==
    /\ app \in projects \cup {"none"}
    /\ capture' = [status |-> IF capture.status = "absent" THEN "pending_review"
                              ELSE capture.status,
                   app |-> app, link |-> TRUE]
    /\ UNCHANGED <<projects, evidenceVars, blob, files, put, completing, torn,
                   deletionVars>>

\* INSERT ... ON CONFLICT DO UPDATE WHERE status='pending_review': a repeated
\* create with the same manifest makes a new review link.
create(app) ==
    /\ app \in projects \cup {"none"}
    /\ capture.status \in {"absent", "pending_review"}
    /\ capture' = [status |-> "pending_review", app |-> app, link |-> TRUE]
    /\ UNCHANGED <<projects, evidenceVars, blob, files, put, completing, torn,
                   deletionVars>>

\* Thirty minutes pass: expires_at.
link_expires ==
    /\ capture.link
    /\ capture' = [capture EXCEPT !.link = FALSE]
    /\ UNCHANGED <<projects, evidenceVars, blob, files, put, completing, torn,
                   deletionVars>>

approve(app) ==
    /\ capture.link /\ capture.status = "pending_review" /\ app \in projects
    /\ capture' = [capture EXCEPT !.status = "approved", !.app = app]
    /\ UNCHANGED <<projects, evidenceVars, blob, files, put, completing, torn,
                   deletionVars>>

UploadReady == capture.status \in {"approved", "uploading"}

\* The handler up to the reservation: status check, then the streamed body's
\* hash against the declared one.
put_file(h, f, body) ==
    /\ put[h].pc = "idle" /\ UploadReady
    /\ body \in declared(f)
    /\ put' = [put EXCEPT ![h] = [pc |-> "select", file |-> f, body |-> body,
                                  app |-> "none", client |-> TRUE]]
    /\ UNCHANGED <<projects, evidenceVars, blob, capture, files, completing, torn,
                   deletionVars>>

\* The first SELECT of add_capture_file takes no lock; the quota is charged to
\* the app it returns.
add_capture_file_select(h) ==
    /\ put[h].pc = "select"
    /\ put' = [put EXCEPT ![h] = IF UploadReady /\ capture.app # "none"
                                 THEN [@ EXCEPT !.pc = "insert", !.app = capture.app]
                                 ELSE IdlePut]
    /\ UNCHANGED <<projects, evidenceVars, blob, capture, files, completing, torn,
                   deletionVars>>

\* Uploads of f between their reservation and their mark, or still copying.
Uploading(f) == {h \in Handlers : put[h].file = f /\ put[h].pc \in {"upload", "copy", "mark"}}

\* Mutant: a repeated upload leaves the row marked as uploaded.
add_capture_file_KeepsMark(h) ==
    /\ put[h].pc = "insert" /\ capture.status # "absent"
    /\ LET f == put[h].file IN
       /\ files' = [files EXCEPT ![f].sha256 = put[h].body]
       /\ torn' = IF Uploading(f) # {} THEN torn \cup {f} ELSE torn \ {f}
    /\ capture' = [capture EXCEPT !.status = "uploading"]
    /\ put' = [put EXCEPT ![h].pc = "upload", ![h].app = "none"]
    /\ UNCHANGED <<projects, evidenceVars, blob, completing, deletionVars>>

\* Its quota check, upsert and status update, under the app's advisory lock.
\* A capture deleted meanwhile fails the foreign key.
add_capture_file(h) ==
    /\ put[h].pc = "insert"
    /\ LET f == put[h].file IN
       IF capture.status # "absent" /\ quota_allows(
              (IF put[h].app = App THEN Cardinality(evidence) ELSE 0)
              + CaptureBytes(put[h].app, f))
       THEN /\ files' = [files EXCEPT ![f] = [sha256 |-> put[h].body, uploaded |-> FALSE]]
            /\ capture' = [capture EXCEPT !.status = "uploading"]
            /\ put' = [put EXCEPT ![h].pc = "upload", ![h].app = "none"]
            /\ torn' = IF Uploading(f) # {} THEN torn \cup {f} ELSE torn \ {f}
       ELSE put' = [put EXCEPT ![h] = IdlePut] /\ UNCHANGED <<files, capture, torn>>
    /\ UNCHANGED <<projects, evidenceVars, blob, completing, deletionVars>>

\* LocalBackend::put_path is fs::copy onto the key: it truncates the object that
\* is there.  A remote put is this step and the next with none in between.
blobs_put_path(h) ==
    /\ put[h].pc = "upload"
    /\ blob' = [blob EXCEPT ![put[h].file] = "partial"]
    /\ put' = [put EXCEPT ![h].pc = "copy"]
    /\ UNCHANGED <<projects, evidenceVars, capture, files, completing, torn, deletionVars>>

\* At its end the object is whole, unless another copy of it is under way or it
\* was deleted meanwhile: then it is whole or as it was.
Copied(h) ==
    LET f == put[h].file IN
    IF blob[f] = "none" \/ \E g \in Handlers \ {h} : put[g].pc = "copy" /\ put[g].file = f
    THEN {blob[f], put[h].body} ELSE {put[h].body}

\* The request goes on when its client still waits for it.
AfterPut(h, pc) ==
    put' = [put EXCEPT ![h] = IF put[h].client THEN [@ EXCEPT !.pc = pc, !.body = "a"]
                              ELSE IdlePut]

blobs_put_path_done(h) ==
    /\ put[h].pc = "copy"
    /\ \E c \in Copied(h) : blob' = [blob EXCEPT ![put[h].file] = c]
    /\ AfterPut(h, "mark")
    /\ UNCHANGED <<projects, evidenceVars, capture, files, completing, torn, deletionVars>>

\* An error before the copy, in the middle of it, or after all of it.
blobs_put_path_failed(h) ==
    /\ "put" \in Faults
    /\ \/ put[h].pc = "upload" /\ blob' = blob
       \/ /\ put[h].pc = "copy"
          /\ \E c \in Copied(h) \cup {blob[put[h].file]} :
               blob' = [blob EXCEPT ![put[h].file] = c]
    /\ AfterPut(h, "undo")
    /\ UNCHANGED <<projects, evidenceVars, capture, files, completing, torn, deletionVars>>

\* The client goes away and its handler is dropped; the copy, on a thread of
\* its own, goes on.
client_gone(h) ==
    /\ "crash" \in Faults /\ put[h].pc \in {"upload", "copy"}
    /\ put' = [put EXCEPT ![h].client = FALSE]
    /\ UNCHANGED <<projects, evidenceVars, blob, capture, files, completing, torn,
                   deletionVars>>

remove_capture_file(h) ==
    /\ put[h].pc = "undo"
    /\ files' = [files EXCEPT ![put[h].file] = NoRow]
    /\ put' = [put EXCEPT ![h] = IdlePut]
    /\ UNCHANGED <<projects, evidenceVars, blob, capture, completing, torn, deletionVars>>

mark_capture_file_uploaded(h) ==
    /\ put[h].pc = "mark"
    /\ files' = IF put[h].file \in Rows
                THEN [files EXCEPT ![put[h].file].uploaded = TRUE] ELSE files
    /\ put' = [put EXCEPT ![h] = IdlePut]
    /\ UNCHANGED <<projects, evidenceVars, blob, capture, completing, torn, deletionVars>>

\* The server of a put_file request stops, or drops it between two calls.
put_file_lost(h) ==
    /\ "crash" \in Faults /\ put[h].pc # "idle"
    /\ put' = [put EXCEPT ![h] = IdlePut]
    /\ UNCHANGED <<projects, evidenceVars, blob, capture, files, completing, torn,
                   deletionVars>>

\* Every declared file is uploaded with its declared hash, and the manifest.
Verified ==
    /\ files[Manifest].uploaded
    /\ \A f \in Files : files[f].uploaded /\ files[f].sha256 \in declared(f)

complete ==
    /\ capture.status # "absent" /\ Verified /\ completing = 0
    /\ completing' = 1
    /\ UNCHANGED <<projects, evidenceVars, blob, capture, files, put, torn, deletionVars>>

complete_capture ==
    /\ completing = 1 /\ completing' = 0
    /\ capture' = IF UploadReady
                  THEN [capture EXCEPT !.status = "complete", !.link = FALSE] ELSE capture
    /\ UNCHANGED <<projects, evidenceVars, blob, files, put, torn, deletionVars>>

-----------------------------------------------------------------------------
(* Retention: expired blobs, then their rows, then the errors. *)

\* retention_pass up to its blob deletes; without expired errors it is a no-op.
expired_evidence_keys ==
    /\ sweep.pc = "idle" /\ Expired # {}
    /\ sweep' = [pc |-> "blobs", todo |-> evidence \cap Expired, done |-> {}]
    /\ UNCHANGED <<projects, evidenceVars, blob, captureVars, removal, sample, raced, stray>>

\* Mutant: a failed delete is taken for a deleted blob.
retention_delete_failed_Forgets(u) ==
    /\ "delete" \in Faults /\ u \in sweep.todo
    /\ sweep' = [sweep EXCEPT !.todo = @ \ {u}, !.done = @ \cup {u}]
    /\ UNCHANGED <<projects, evidenceVars, blob, captureVars, removal, sample, raced, stray>>

\* "Keep the row so the next pass retries this blob."
retention_delete_failed(u) ==
    /\ "delete" \in Faults /\ u \in sweep.todo
    /\ sweep' = [sweep EXCEPT !.todo = @ \ {u}]
    /\ UNCHANGED <<projects, evidenceVars, blob, captureVars, removal, sample, raced, stray>>

retention_delete(u) ==
    /\ u \in sweep.todo
    /\ blob' = [blob EXCEPT ![u] = "none"]
    /\ sweep' = [sweep EXCEPT !.todo = @ \ {u}, !.done = @ \cup {u}]
    /\ UNCHANGED <<projects, evidenceVars, captureVars, removal, sample, raced, stray>>

delete_evidence_rows ==
    /\ sweep.pc = "blobs" /\ sweep.todo = {}
    /\ Unreserve(sweep.done)
    /\ sweep' = [pc |-> "errors", todo |-> {}, done |-> {}]
    /\ UNCHANGED <<projects, errors, up, blob, captureVars, removal, sample, raced, stray>>

\* Mutant: expired errors go although they still have evidence rows.
delete_expired_errors_All ==
    /\ sweep.pc = "errors"
    /\ errors' = errors \ Expired
    /\ sweep' = IdleSweep
    /\ UNCHANGED <<projects, evidence, usage, up, blob, captureVars, removal, sample, raced, stray>>

\* An error that still has evidence rows is skipped.
delete_expired_errors ==
    /\ sweep.pc = "errors"
    /\ errors' = errors \ (Expired \ evidence)
    /\ sweep' = IdleSweep
    /\ UNCHANGED <<projects, evidence, usage, up, blob, captureVars, removal, sample, raced, stray>>

\* A database error returns, and a crash stops, the pass at any step.
retention_stops ==
    /\ "crash" \in Faults /\ sweep.pc # "idle"
    /\ sweep' = IdleSweep
    /\ UNCHANGED <<projects, evidenceVars, blob, captureVars, removal, sample, raced, stray>>

-----------------------------------------------------------------------------
(* Project deletion: delete_project_for. *)

ProjectKeys == evidence \cup (IF capture.app = App THEN Rows ELSE {})

project_evidence_keys ==
    /\ removal.pc = "idle" /\ App \in projects
    /\ removal' = [removal EXCEPT !.pc = "blobs", !.todo = ProjectKeys]
    /\ UNCHANGED <<projects, evidenceVars, blob, captureVars, sweep, sample, raced, stray>>

delete_project_blob(k) ==
    /\ k \in removal.todo
    /\ blob' = [blob EXCEPT ![k] = "none"]
    /\ removal' = [removal EXCEPT !.todo = @ \ {k}, !.gone = @ \cup ({k} \cap Files)]
    /\ UNCHANGED <<projects, evidenceVars, captureVars, sweep, sample, raced, stray>>

\* A blob delete, the revocation of the project's keys or the transaction
\* fails, or the server stops: the request ends and may be repeated.
delete_project_fails ==
    /\ Faults \cap {"delete", "crash"} # {} /\ removal.pc = "blobs"
    /\ removal' = [removal EXCEPT !.pc = "idle", !.todo = {}]
    /\ UNCHANGED <<projects, evidenceVars, blob, captureVars, sweep, sample, raced, stray>>

\* One transaction: App's rows, then its project row, whose deletion cascades
\* to its captures and their files.
delete_project_by_app ==
    /\ removal.pc = "blobs" /\ removal.todo = {}
    /\ evidence' = {} /\ usage' = 0 /\ errors' = {} /\ projects' = projects \ {App}
    /\ IF capture.app = App
       THEN capture' = NoCapture /\ files' = [f \in Names |-> NoRow]
       ELSE UNCHANGED <<capture, files>>
    /\ removal' = [removal EXCEPT !.pc = "idle"]
    /\ UNCHANGED <<up, blob, put, completing, torn, sweep, sample, raced, stray>>

-----------------------------------------------------------------------------
(* Deletion of the sample bucket: delete_sample_bucket. *)

\* The first SELECT of the transaction.
sample_evidence_keys ==
    /\ sample.pc = "idle" /\ Sample \cap errors # {}
    /\ sample' = [pc |-> "rows", todo |-> evidence \cap Sample]
    /\ UNCHANGED <<projects, evidenceVars, blob, captureVars, sweep, removal, raced, stray>>

\* Its DELETE, which cascades to the evidence rows, and the commit.
delete_sample_bucket_data ==
    /\ sample.pc = "rows"
    /\ errors' = errors \ Sample
    /\ Unreserve(Sample)
    /\ sample' = [sample EXCEPT !.pc = "blobs"]
    /\ UNCHANGED <<projects, up, blob, captureVars, sweep, removal, raced, stray>>

\* Blobs whose rows it has deleted.
SampleInHand == IF sample.pc = "blobs" THEN sample.todo ELSE {}

\* Then the blobs; a failed delete is logged.
delete_sample_blob(u) ==
    /\ sample.pc = "blobs" /\ u \in sample.todo
    /\ sample' = [sample EXCEPT !.todo = @ \ {u}]
    /\ \/ blob' = [blob EXCEPT ![u] = "none"] /\ stray' = stray
       \/ "delete" \in Faults /\ stray' = stray \cup {u} /\ blob' = blob
    /\ UNCHANGED <<projects, evidenceVars, captureVars, sweep, removal, raced>>

\* The request ends: at its end, or because the transaction fails or the server
\* stops.
delete_sample_ends ==
    /\ sample.pc # "idle"
    /\ (sample.pc = "blobs" /\ sample.todo = {}) \/ "crash" \in Faults
    /\ sample' = [pc |-> "idle", todo |-> {}]
    /\ stray' = IF sample.pc = "blobs" THEN stray \cup sample.todo ELSE stray
    /\ UNCHANGED <<projects, evidenceVars, blob, captureVars, sweep, removal, raced>>

-----------------------------------------------------------------------------
Evidence ==
    \E u \in Uploads : \/ add_evidence_within_quota(u)
                       \/ blobs_put(u)
                       \/ blobs_put_failed(u)
                       \/ remove_evidence(u)
                       \/ store_evidence_lost(u)
                       \/ remove_evidence_lost(u)

Review == \/ \E app \in {App, Other, "none"} : create(app)
          \/ \E app \in {App, Other} : approve(app)
          \/ link_expires

Upload ==
    \E h \in Handlers : \/ \E f \in Names, body \in Contents : put_file(h, f, body)
                        \/ add_capture_file_select(h)
                        \/ add_capture_file(h)
                        \/ blobs_put_path(h)
                        \/ blobs_put_path_done(h)
                        \/ blobs_put_path_failed(h)
                        \/ client_gone(h)
                        \/ remove_capture_file(h)
                        \/ mark_capture_file_uploaded(h)
                        \/ put_file_lost(h)

Retention == \/ expired_evidence_keys
             \/ \E u \in Uploads : retention_delete(u) \/ retention_delete_failed(u)
             \/ delete_evidence_rows
             \/ delete_expired_errors
             \/ retention_stops

Deletion == \/ project_evidence_keys
            \/ \E k \in Uploads \cup Names : delete_project_blob(k)
            \/ delete_project_fails
            \/ delete_project_by_app

SampleDeletion == \/ sample_evidence_keys
                  \/ delete_sample_bucket_data
                  \/ \E u \in Uploads : delete_sample_blob(u)
                  \/ delete_sample_ends

Next == Evidence \/ Review \/ Upload \/ complete \/ complete_capture
        \/ Retention \/ Deletion \/ SampleDeletion

Spec == Init /\ [][Next]_vars

-----------------------------------------------------------------------------
(* Properties. *)

CaptureStatus == {"absent", "pending_review", "approved", "uploading", "complete"}
FileType == [sha256 : Contents \cup {"none"}, uploaded : BOOLEAN]
PutType == [pc : {"idle", "select", "insert", "upload", "copy", "undo", "mark"}, file : Names,
            body : Contents, app : {App, Other, "none"}, client : BOOLEAN]

\* Every variable holds a value of its column or of its handler's states, and
\* every evidence row references an error (retention skips the others).
TypeOK ==
    /\ projects \subseteq {App, Other}
    /\ evidence \subseteq errors /\ errors \subseteq Uploads
    /\ usage \in Nat
    /\ up \in [Uploads -> {"new", "reserved", "undo", "done"}]
    /\ blob \in [Uploads \cup Names -> Contents \cup {"partial", "none"}]
    /\ capture \in [status : CaptureStatus, app : projects \cup {"none"}, link : BOOLEAN]
    /\ files \in [Names -> FileType]
    /\ put \in [Handlers -> PutType]
    /\ completing \in {0, 1}
    /\ sweep \in [pc : {"idle", "blobs", "errors"}, todo : SUBSET Uploads,
                  done : SUBSET Uploads]
    /\ removal \in [pc : {"idle", "blobs"}, todo : SUBSET (Uploads \cup Names),
                    gone : SUBSET Files]
    /\ sample \in [pc : {"idle", "rows", "blobs"}, todo : SUBSET Sample]
    /\ raced \subseteq Uploads /\ stray \subseteq Uploads /\ torn \subseteq Names

\* The usage counter that admits evidence equals the evidence rows through
\* every reservation, compensation, sweep and deletion, and stays in the quota.
UsageExact == usage = Cardinality(evidence) /\ usage <= Quota

\* A row that says a declared file is uploaded is backed by an object with the
\* declared contents, however uploads of it fail, stop and are repeated.  Except
\* when two uploads of it overlapped and none has replaced it since (the mark of
\* one does not see that the other truncates the object), and for an object that
\* a project deletion took before it stopped half way.
DeclaredFilesIntact ==
    \A f \in Files \ torn : files[f].uploaded =>
        \/ blob[f] \in declared(f)
        \/ blob[f] = "none" /\ f \in removal.gone

\* An evidence object keeps its row until it is deleted, so a deletion that
\* failed or stopped can be repeated (operations.rs, "a crash can only leave
\* re-processable rows behind").  The only objects without a row are ones an
\* upload wrote while a deletion was under way, ones a put left that reported an
\* error, whose row remove_evidence takes, and ones delete_sample_bucket has yet
\* to delete, or failed to, after it had deleted their rows.
DeletionIsRetryable ==
    \A u \in Uploads \ (raced \cup stray) :
        blob[u] # "none" => u \in evidence \cup SampleInHand

\* Once a reviewer has approved a capture it stays with the approved project
\* and never returns to review; its row only goes with its project.
ApprovedProjectFixed ==
    [][capture.status \notin {"absent", "pending_review"} =>
          \/ capture'.app = capture.app /\ capture'.status # "pending_review"
          \/ capture' = NoCapture]_vars
=============================================================================
