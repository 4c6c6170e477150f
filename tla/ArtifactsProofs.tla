-------------------------- MODULE ArtifactsProofs ---------------------------
(***************************************************************************)
(* Proofs about Artifacts for any number of uploads, files and concurrent  *)
(* requests, any quota and any combination of failures: types, the usage   *)
(* counter, the retry of deletions, the contents of declared files, and    *)
(* the project of an approved capture.                                     *)
(***************************************************************************)
EXTENDS Artifacts, FiniteSetTheorems, TLAPS

-----------------------------------------------------------------------------
(* The parts of the inductive invariant. *)

\* An upload that has not reserved has no row.
NewHasNoRow == \A u \in Uploads : up[u] = "new" => u \notin evidence

\* Nothing is at the key of an upload before its put.
UnwrittenBeforePut == \A u \in Uploads : up[u] \in {"new", "reserved"} => blob[u] = "none"

\* A put that reported an error is known to have left what it left.
UndoneAreStray == \A u \in Uploads \ stray : up[u] = "undo" => blob[u] = "none"

\* What a retention pass has deleted is gone, unless an upload raced it.
SweptAreGone == \A u \in sweep.done \ raced : blob[u] = "none"

\* A project deletion still has in hand whatever it has to delete.
RemovalHasAll ==
    removal.pc = "blobs" =>
        \A u \in Uploads \ (raced \cup stray) :
            blob[u] # "none" => u \in removal.todo \cup SampleInHand

\* So has a sample deletion that is about to delete the rows.
SampleHasAll ==
    sample.pc = "rows" =>
        \A u \in Sample \ (raced \cup stray) : blob[u] # "none" => u \in sample.todo

\* An upload that passed its hash check carries the declared contents.
CheckedBodies ==
    \A h \in Handlers : put[h].pc \in {"select", "insert", "upload", "copy"} =>
        put[h].body \in declared(put[h].file)

Backed(f) == \/ blob[f] \in declared(f)
             \/ blob[f] = "none" /\ f \in removal.gone

\* Of a file no uploads of which overlapped: only one of them is past its
\* reservation, its row is unmarked until that one has ended its put, and a file
\* about to be marked has been written; its object only disappears in a project
\* deletion.
FileGuarded(f) ==
    /\ files[f].uploaded => Backed(f)
    /\ \A g, h \in Uploading(f) : g = h
    /\ \A h \in Uploading(f) :
          /\ put[h].pc \in {"upload", "copy"} => ~files[f].uploaded
          /\ put[h].pc = "mark" => Backed(f)
          /\ put[h].pc = "copy" /\ blob[f] = "none" => f \in removal.gone

FilesGuarded == \A f \in Files \ torn : FileGuarded(f)

\* The inductive invariant.
ArtifactInv ==
    /\ TypeOK /\ UsageExact /\ NewHasNoRow
    /\ UnwrittenBeforePut /\ UndoneAreStray /\ SweptAreGone /\ RemovalHasAll
    /\ SampleHasAll /\ DeletionIsRetryable
    /\ CheckedBodies /\ FilesGuarded

-----------------------------------------------------------------------------
\* Deleting rows of evidence (remove_evidence, the retention pass) lowers the
\* counter by the number of rows that were there.
LEMMA UnreserveType ==
    ASSUME TypeOK, NEW S, Unreserve(S)
    PROVE  evidence' \subseteq evidence /\ usage' \in Nat
<1>1. IsFiniteSet(evidence)
  BY ArtifactAssumption, FS_Subset DEF ArtifactAssumption, TypeOK
<1>2. Cardinality(S \cap evidence) \in Nat
  BY <1>1, FS_Intersection, FS_CardinalityType
<1> QED BY <1>2 DEF Unreserve, TypeOK

\* Every step preserves the types of the rows and of the handlers' states.
LEMMA TypeStep == TypeOK /\ [Next]_vars => TypeOK'
<1> SUFFICES ASSUME TypeOK, [Next]_vars PROVE TypeOK'
  OBVIOUS
<1> USE ArtifactAssumption DEF ArtifactAssumption
<1>a. put \in [Handlers -> PutType] /\ files \in [Names -> FileType]
      /\ capture.app \in {App, Other, "none"}
  BY DEF TypeOK
<1>b. IdlePut \in PutType /\ NoRow \in FileType
  BY DEF IdlePut, PutType, NoRow, FileType, Names, Contents
<1>c. ASSUME NEW h \in Handlers, NEW q \in PutType, put' = [put EXCEPT ![h] = q]
      PROVE  put' \in [Handlers -> PutType]
  BY <1>a, <1>c
<1>d. ASSUME NEW f \in Names, NEW r \in FileType, files' = [files EXCEPT ![f] = r]
      PROVE  files' \in [Names -> FileType]
  BY <1>a, <1>d
<1>1. ASSUME NEW u \in Uploads, add_evidence_within_quota(u) PROVE TypeOK'
  BY <1>1 DEF add_evidence_within_quota, quota_allows, TypeOK, captureVars, deletionVars
<1>2. ASSUME NEW u \in Uploads, blobs_put(u) PROVE TypeOK'
  BY <1>2 DEF blobs_put, TypeOK, Contents, captureVars, deletionVars
<1>3. ASSUME NEW u \in Uploads, blobs_put_failed(u) PROVE TypeOK'
  BY <1>3 DEF blobs_put_failed, Left, TypeOK, Contents, captureVars, deletionVars
<1>4. ASSUME NEW u \in Uploads, remove_evidence(u) PROVE TypeOK'
  <2>1. evidence' \subseteq evidence /\ usage' \in Nat
    BY <1>4, UnreserveType DEF remove_evidence, TypeOK
  <2> QED BY <1>4, <2>1 DEF remove_evidence, TypeOK, captureVars, deletionVars
<1>5. ASSUME NEW u \in Uploads, store_evidence_lost(u) PROVE TypeOK'
  BY <1>5 DEF store_evidence_lost, Left, TypeOK, Contents, captureVars, deletionVars
<1>30. ASSUME NEW u \in Uploads, remove_evidence_lost(u) PROVE TypeOK'
  BY <1>30 DEF remove_evidence_lost, TypeOK, captureVars, deletionVars
<1>6. ASSUME NEW app \in {App, Other, "none"}, create(app) PROVE TypeOK'
  BY <1>6 DEF create, TypeOK, CaptureStatus, evidenceVars, deletionVars
<1>7. ASSUME NEW app \in {App, Other}, approve(app) PROVE TypeOK'
  BY <1>7 DEF approve, TypeOK, CaptureStatus, evidenceVars, deletionVars
<1>8. ASSUME link_expires PROVE TypeOK'
  BY <1>8 DEF link_expires, TypeOK, evidenceVars, deletionVars, captureVars
<1>9. ASSUME NEW h \in Handlers, NEW f \in Names, NEW body \in Contents,
             put_file(h, f, body)
      PROVE  TypeOK'
  <2>1. [pc |-> "select", file |-> f, body |-> body, app |-> "none", client |-> TRUE] \in PutType
    BY DEF PutType
  <2>2. put' \in [Handlers -> PutType]
    BY <1>9, <2>1, <1>c DEF put_file
  <2> QED BY <1>9, <2>2 DEF put_file, TypeOK, evidenceVars, deletionVars
<1>10. ASSUME NEW h \in Handlers, add_capture_file_select(h) PROVE TypeOK'
  <2>1. put' \in [Handlers -> PutType]
    <3>1. \E q \in PutType : put' = [put EXCEPT ![h] = q]
      BY <1>10, <1>a, <1>b DEF add_capture_file_select, PutType, Contents
    <3> QED BY <3>1, <1>c
  <2> QED BY <1>10, <2>1 DEF add_capture_file_select, TypeOK, evidenceVars, deletionVars
<1>11. ASSUME NEW h \in Handlers, add_capture_file(h) PROVE TypeOK'
  <2>1. put' \in [Handlers -> PutType]
    <3>1. \E q \in PutType : put' = [put EXCEPT ![h] = q]
      BY <1>11, <1>a, <1>b DEF add_capture_file, PutType, Contents
    <3> QED BY <3>1, <1>c
  <2>2. files' \in [Names -> FileType]
    BY <1>11, <1>a, <1>d DEF add_capture_file, PutType, FileType
  <2>3. capture' \in [status : CaptureStatus, app : projects \cup {"none"}, link : BOOLEAN]
    BY <1>11 DEF add_capture_file, TypeOK, CaptureStatus
  <2>4. put[h].file \in Names
    BY <1>a DEF PutType
  <2> QED BY <1>11, <2>1 , <2>2, <2>3, <2>4 DEF add_capture_file, TypeOK, evidenceVars, deletionVars
<1>e. ASSUME NEW h \in Handlers, NEW pc \in {"mark", "undo"}, AfterPut(h, pc)
      PROVE  put' \in [Handlers -> PutType]
  <2>1. \E q \in PutType : put' = [put EXCEPT ![h] = q]
    BY <1>e, <1>a, <1>b DEF AfterPut, PutType, Contents
  <2> QED BY <2>1, <1>c
<1>f. ASSUME NEW h \in Handlers, NEW c \in Copied(h) \cup {blob[put[h].file]},
             blob' = [blob EXCEPT ![put[h].file] = c]
      PROVE  blob' \in [Uploads \cup Names -> Contents \cup {"partial", "none"}]
  BY <1>f, <1>a DEF TypeOK, Copied, PutType
<1>12. ASSUME NEW h \in Handlers, blobs_put_path(h) \/ client_gone(h) PROVE TypeOK'
  <2>1. put' \in [Handlers -> PutType]
    <3>1. \E q \in PutType : put' = [put EXCEPT ![h] = q]
      BY <1>12, <1>a, <1>b DEF blobs_put_path, client_gone, PutType, Contents
    <3> QED BY <3>1, <1>c
  <2>2. blob' \in [Uploads \cup Names -> Contents \cup {"partial", "none"}]
    BY <1>12, <1>a DEF blobs_put_path, client_gone, TypeOK, PutType
  <2> QED BY <1>12, <2>1 , <2>2 DEF blobs_put_path, client_gone, TypeOK, evidenceVars,
                                   deletionVars
<1>13. ASSUME NEW h \in Handlers, blobs_put_path_done(h) \/ blobs_put_path_failed(h)
       PROVE  TypeOK'
  <2>1. put' \in [Handlers -> PutType]
    BY <1>13, <1>e DEF blobs_put_path_done, blobs_put_path_failed
  <2>2. blob' \in [Uploads \cup Names -> Contents \cup {"partial", "none"}]
    <3>1. CASE blob' = blob
      BY <3>1 DEF TypeOK
    <3>2. CASE \E c \in Copied(h) \cup {blob[put[h].file]} :
                  blob' = [blob EXCEPT ![put[h].file] = c]
      BY <3>2, <1>f
    <3> QED BY <1>13, <3>1, <3>2 DEF blobs_put_path_done, blobs_put_path_failed
  <2> QED BY <1>13, <2>1 , <2>2 DEF blobs_put_path_done, blobs_put_path_failed, TypeOK,
                                   evidenceVars, deletionVars
<1>14. ASSUME NEW h \in Handlers, remove_capture_file(h) PROVE TypeOK'
  <2>1. put' \in [Handlers -> PutType]
    <3>1. \E q \in PutType : put' = [put EXCEPT ![h] = q]
      BY <1>14, <1>a, <1>b DEF remove_capture_file, PutType, Contents
    <3> QED BY <3>1, <1>c
  <2>2. files' \in [Names -> FileType]
    BY <1>14, <1>a, <1>b, <1>d DEF remove_capture_file, PutType, FileType
  <2> QED BY <1>14, <2>1 , <2>2 DEF remove_capture_file, TypeOK, evidenceVars, deletionVars
<1>15. ASSUME NEW h \in Handlers, mark_capture_file_uploaded(h) PROVE TypeOK'
  <2>1. put' \in [Handlers -> PutType]
    <3>1. \E q \in PutType : put' = [put EXCEPT ![h] = q]
      BY <1>15, <1>a, <1>b DEF mark_capture_file_uploaded, PutType, Contents
    <3> QED BY <3>1, <1>c
  <2>2. files' \in [Names -> FileType]
    BY <1>15, <1>a, <1>b, <1>d DEF mark_capture_file_uploaded, PutType, FileType
  <2> QED BY <1>15, <2>1 , <2>2 DEF mark_capture_file_uploaded, TypeOK, evidenceVars, deletionVars
<1>16. ASSUME NEW h \in Handlers, put_file_lost(h) PROVE TypeOK'
  <2>1. put' \in [Handlers -> PutType]
    <3>1. \E q \in PutType : put' = [put EXCEPT ![h] = q]
      BY <1>16, <1>a, <1>b DEF put_file_lost, PutType, Contents
    <3> QED BY <3>1, <1>c
  <2> QED BY <1>16, <2>1 DEF put_file_lost, TypeOK, evidenceVars, deletionVars
<1>17. ASSUME complete PROVE TypeOK'
  BY <1>17 DEF complete, TypeOK, evidenceVars, deletionVars, captureVars
<1>18. ASSUME complete_capture PROVE TypeOK'
  BY <1>18 DEF complete_capture, TypeOK, CaptureStatus, evidenceVars, deletionVars
<1>19. ASSUME expired_evidence_keys PROVE TypeOK'
  BY <1>19 DEF expired_evidence_keys, TypeOK, evidenceVars, deletionVars, captureVars
<1>20. ASSUME NEW u \in Uploads, retention_delete(u) PROVE TypeOK'
  BY <1>20 DEF retention_delete, TypeOK, evidenceVars, deletionVars, captureVars
<1>21. ASSUME NEW u \in Uploads, retention_delete_failed(u) PROVE TypeOK'
  BY <1>21 DEF retention_delete_failed, TypeOK, evidenceVars, deletionVars, captureVars
<1>22. ASSUME delete_evidence_rows PROVE TypeOK'
  <2>1. evidence' \subseteq evidence /\ usage' \in Nat
    BY <1>22, UnreserveType DEF delete_evidence_rows, TypeOK
  <2> QED BY <1>22, <2>1 DEF delete_evidence_rows, TypeOK, captureVars, deletionVars
<1>23. ASSUME delete_expired_errors PROVE TypeOK'
  BY <1>23 DEF delete_expired_errors, TypeOK, evidenceVars, deletionVars, captureVars, IdleSweep
<1>24. ASSUME retention_stops PROVE TypeOK'
  BY <1>24 DEF retention_stops, TypeOK, evidenceVars, deletionVars, captureVars, IdleSweep
<1>25. ASSUME project_evidence_keys PROVE TypeOK'
  BY <1>25 DEF project_evidence_keys, TypeOK, evidenceVars, deletionVars, captureVars, ProjectKeys, Rows
<1>26. ASSUME NEW k \in Uploads \cup Names, delete_project_blob(k) PROVE TypeOK'
  BY <1>26 DEF delete_project_blob, TypeOK, evidenceVars, deletionVars, captureVars
<1>27. ASSUME delete_project_fails PROVE TypeOK'
  BY <1>27 DEF delete_project_fails, TypeOK, evidenceVars, deletionVars, captureVars
<1>28. ASSUME delete_project_by_app PROVE TypeOK'
  <2>1. capture' \in [status : CaptureStatus, app : projects' \cup {"none"}, link : BOOLEAN]
    <3>1. CASE capture.app = App
      <4>1. capture' = [status |-> "absent", app |-> "none", link |-> FALSE]
        BY <1>28, <3>1 DEF delete_project_by_app, NoCapture
      <4> QED BY <4>1 DEF CaptureStatus
    <3>2. CASE capture.app # App
      <4>1. projects' = projects \ {App} /\ capture' = capture
        BY <1>28, <3>2 DEF delete_project_by_app
      <4>2. capture \in [status : CaptureStatus, app : projects \cup {"none"}, link : BOOLEAN]
        BY DEF TypeOK
      <4> QED BY <3>2, <4>1, <4>2
    <3> QED BY <3>1, <3>2
  <2>2. files' \in [Names -> FileType]
    BY <1>28, <1>a, <1>b DEF delete_project_by_app
  <2> QED BY <1>28, <2>1, <2>2 DEF delete_project_by_app, TypeOK
<1>31. ASSUME sample_evidence_keys PROVE TypeOK'
  BY <1>31 DEF sample_evidence_keys, TypeOK, evidenceVars, captureVars
<1>32. ASSUME delete_sample_bucket_data PROVE TypeOK'
  <2>1. evidence' \subseteq evidence /\ usage' \in Nat /\ evidence' = evidence \ Sample
    BY <1>32, UnreserveType DEF delete_sample_bucket_data, Unreserve
  <2> QED BY <1>32, <2>1 DEF delete_sample_bucket_data, TypeOK, captureVars
<1>33. ASSUME NEW u \in Uploads, delete_sample_blob(u) PROVE TypeOK'
  BY <1>33 DEF delete_sample_blob, TypeOK, evidenceVars, captureVars
<1>34. ASSUME delete_sample_ends PROVE TypeOK'
  BY <1>34 DEF delete_sample_ends, TypeOK, evidenceVars, captureVars
<1>29. ASSUME UNCHANGED vars PROVE TypeOK'
  BY <1>29 DEF vars, TypeOK
<1> QED
  BY <1>1, <1>2, <1>3, <1>4, <1>5, <1>6, <1>7, <1>8, <1>9, <1>10, <1>11, <1>12,
     <1>13, <1>14, <1>15, <1>16, <1>17, <1>18, <1>19, <1>20, <1>21, <1>22, <1>23, <1>24,
     <1>25, <1>26, <1>27, <1>28, <1>29, <1>30, <1>31, <1>32, <1>33, <1>34
     DEF Next, Evidence, Review, Upload, Retention, Deletion, SampleDeletion

\* The tables start empty and no request is under way.
LEMMA InitType == Init => TypeOK
<1> SUFFICES ASSUME Init PROVE TypeOK
  OBVIOUS
<1>1. NoCapture \in [status : CaptureStatus, app : projects \cup {"none"}, link : BOOLEAN]
  BY DEF NoCapture, CaptureStatus
<1>2. NoRow \in FileType /\ IdlePut \in PutType
  BY DEF NoRow, FileType, IdlePut, PutType, Contents, Names
<1> QED BY <1>1, <1>2 DEF Init, TypeOK, IdleSweep

\* Every row, counter and handler state keeps its type, and every evidence row
\* has its error: retention never deletes an error before its evidence.
THEOREM TypeCorrect == Spec => []TypeOK
BY InitType, TypeStep, PTL DEF Spec

-----------------------------------------------------------------------------
(* The usage counter. *)

\* Deleting a set of rows (Unreserve) keeps the counter exact: only rows that
\* were there are counted off.
LEMMA UnreserveExact ==
    ASSUME TypeOK, UsageExact, NEW S, Unreserve(S)
    PROVE  UsageExact'
<1>1. IsFiniteSet(evidence)
  BY ArtifactAssumption, FS_Subset DEF ArtifactAssumption, TypeOK
<1>2. /\ Cardinality(S \cap evidence) \in Nat
      /\ Cardinality(S \cap evidence) <= Cardinality(evidence)
      /\ Cardinality(evidence \ S) = Cardinality(evidence) - Cardinality(S \cap evidence)
  <2>1. S \cap evidence = evidence \cap S
    OBVIOUS
  <2>2. /\ IsFiniteSet(evidence \cap S)
        /\ Cardinality(evidence \cap S) <= Cardinality(evidence)
    BY <1>1, FS_Intersection
  <2>3. Cardinality(evidence \ S) = Cardinality(evidence) - Cardinality(evidence \cap S)
    BY <1>1, FS_Difference
  <2> QED BY <2>1, <2>2, <2>3, FS_CardinalityType
<1>3. usage \in Nat /\ Quota \in Nat /\ usage = Cardinality(evidence) /\ usage <= Quota
  BY ArtifactAssumption DEF ArtifactAssumption, TypeOK, UsageExact
<1>4. evidence' = evidence \ S /\ usage' = usage - Cardinality(S \cap evidence)
  BY <1>2, <1>3 DEF Unreserve
<1> QED BY <1>2, <1>3, <1>4 DEF UsageExact

\* Every step keeps the usage counter exact and within the quota.
LEMMA UsageStep == TypeOK /\ UsageExact /\ NewHasNoRow /\ [Next]_vars => UsageExact'
<1> SUFFICES ASSUME TypeOK, UsageExact, NewHasNoRow, [Next]_vars PROVE UsageExact'
  OBVIOUS
<1>1. ASSUME NEW u \in Uploads, add_evidence_within_quota(u) PROVE UsageExact'
  <2>1. CASE quota_allows(usage) /\ u \in errors
    <3>1. IsFiniteSet(evidence)
      BY ArtifactAssumption, FS_Subset DEF ArtifactAssumption, TypeOK
    <3>2. u \notin evidence
      BY <1>1 DEF add_evidence_within_quota, NewHasNoRow
    <3>3. Cardinality(evidence \cup {u}) = Cardinality(evidence) + 1
      BY <3>1, <3>2, FS_AddElement
    <3> QED BY <1>1, <2>1, <3>3 DEF add_evidence_within_quota, quota_allows, UsageExact
  <2>2. CASE ~(quota_allows(usage) /\ u \in errors)
    BY <1>1, <2>2 DEF add_evidence_within_quota, UsageExact
  <2> QED BY <2>1, <2>2
<1>2. ASSUME NEW u \in Uploads, remove_evidence(u) PROVE UsageExact'
  BY <1>2, UnreserveExact DEF remove_evidence
<1>3. ASSUME delete_evidence_rows PROVE UsageExact'
  BY <1>3, UnreserveExact DEF delete_evidence_rows
<1>4. ASSUME delete_project_by_app PROVE UsageExact'
  BY <1>4, ArtifactAssumption, FS_EmptySet
     DEF delete_project_by_app, UsageExact, ArtifactAssumption
<1>5. ASSUME delete_sample_bucket_data PROVE UsageExact'
  BY <1>5, UnreserveExact DEF delete_sample_bucket_data
<1>6. CASE UNCHANGED <<evidence, usage>>
  BY <1>6 DEF UsageExact
<1> QED
  BY <1>1, <1>2, <1>3, <1>4, <1>5, <1>6
     DEF Next, Evidence, Review, Upload, Retention, Deletion, SampleDeletion, vars,
         evidenceVars, blobs_put, blobs_put_failed, store_evidence_lost,
         remove_evidence_lost, create, link_expires, approve,
         put_file, add_capture_file_select, add_capture_file, blobs_put_path,
         blobs_put_path_done, blobs_put_path_failed, client_gone, remove_capture_file,
         mark_capture_file_uploaded,
         put_file_lost, complete, complete_capture, expired_evidence_keys, retention_delete,
         retention_delete_failed, delete_expired_errors, retention_stops,
         project_evidence_keys, delete_project_blob, delete_project_fails,
         sample_evidence_keys, delete_sample_blob, delete_sample_ends

-----------------------------------------------------------------------------
(* Deletions that can be repeated. *)

DeletionParts ==
    /\ NewHasNoRow /\ UnwrittenBeforePut /\ UndoneAreStray /\ SweptAreGone /\ RemovalHasAll
    /\ SampleHasAll /\ DeletionIsRetryable

\* A step that writes no evidence object, keeps the rows of evidence and keeps
\* or drops what retention and project deletion have in hand leaves every part as
\* it is.
LEMMA DeletionUntouched ==
    ASSUME TypeOK, DeletionParts,
           \A u \in Uploads : blob'[u] = blob[u],
           UNCHANGED <<evidence, up, raced, stray, sample>>,
           sweep'.done \subseteq sweep.done,
           removal' = removal \/ removal'.pc = "idle"
    PROVE  DeletionParts'
<1>1. sweep'.done \subseteq Uploads
  BY DEF TypeOK
<1>2. SampleInHand' = SampleInHand
  BY DEF SampleInHand
<1>3. NewHasNoRow' /\ UnwrittenBeforePut' /\ UndoneAreStray' /\ SweptAreGone'
  BY <1>1 DEF DeletionParts, NewHasNoRow, UnwrittenBeforePut, UndoneAreStray, SweptAreGone
<1>4. RemovalHasAll' /\ DeletionIsRetryable'
  BY <1>2 DEF DeletionParts, RemovalHasAll, DeletionIsRetryable
<1>5. SampleHasAll'
  BY ArtifactAssumption DEF DeletionParts, SampleHasAll, ArtifactAssumption
<1> QED BY <1>3, <1>4, <1>5 DEF DeletionParts

\* The put of an upload that has its reservation writes its object, whole or not
\* (blobs_put, blobs_put_failed, store_evidence_lost): when a deletion is under way
\* the key counts as raced, when the put reports an error as stray.
LEMMA DeletionWritten ==
    ASSUME TypeOK, DeletionParts, NEW u \in Uploads, NEW c, NEW x \in {"undo", "done"},
           up[u] = "reserved", blob' = [blob EXCEPT ![u] = c], up' = [up EXCEPT ![u] = x],
           raced' = IF InHand(u) THEN raced \cup {u} ELSE raced,
           stray \subseteq stray', stray' \subseteq stray \cup {u},
           x = "undo" /\ c # "none" => u \in stray',
           UNCHANGED <<evidence, sweep, removal, sample>>
    PROVE  DeletionParts'
<1>1. /\ raced \subseteq raced' /\ raced' \subseteq raced \cup {u}
      /\ u \in raced' \/ /\ u \notin sweep.done /\ removal.pc = "idle" /\ u \in evidence
                         /\ u \notin Sample \/ sample.pc = "idle"
  BY DEF InHand
<1>2. \A v \in Uploads : v # u => blob'[v] = blob[v] /\ up'[v] = up[v]
  BY DEF TypeOK
<1>3. blob'[u] = c /\ up'[u] = x /\ SampleInHand' = SampleInHand
  BY DEF TypeOK, SampleInHand
<1>4. NewHasNoRow' /\ UnwrittenBeforePut' /\ UndoneAreStray'
  BY <1>2, <1>3 DEF DeletionParts, NewHasNoRow, UnwrittenBeforePut, UndoneAreStray
<1>5. SweptAreGone'
  BY <1>1, <1>2 DEF DeletionParts, SweptAreGone, TypeOK
<1>6. RemovalHasAll'
  BY <1>1, <1>2, <1>3 DEF DeletionParts, RemovalHasAll, TypeOK
<1>7. SampleHasAll'
  <2> SUFFICES ASSUME sample.pc = "rows", NEW v \in Sample \ (raced' \cup stray'),
                      blob'[v] # "none"
               PROVE  v \in sample.todo
    BY DEF SampleHasAll
  <2>1. v # u
    BY <1>1
  <2>2. v \in Uploads /\ v \in Sample \ (raced \cup stray)
    BY <1>1, ArtifactAssumption DEF ArtifactAssumption
  <2> QED BY <1>2, <2>1, <2>2 DEF DeletionParts, SampleHasAll
<1>8. DeletionIsRetryable'
  BY <1>1, <1>2, <1>3 DEF DeletionParts, DeletionIsRetryable
<1> QED BY <1>4, <1>5, <1>6, <1>7, <1>8 DEF DeletionParts

\* Every step preserves DeletionParts.
LEMMA DeletionStep == TypeOK /\ DeletionParts /\ [Next]_vars => DeletionParts'
<1> SUFFICES ASSUME TypeOK, DeletionParts, [Next]_vars PROVE DeletionParts'
  OBVIOUS
<1>p. /\ NewHasNoRow /\ UnwrittenBeforePut /\ UndoneAreStray /\ SweptAreGone /\ RemovalHasAll
      /\ SampleHasAll /\ DeletionIsRetryable
  BY DEF DeletionParts
<1>t. /\ up \in [Uploads -> {"new", "reserved", "undo", "done"}]
      /\ blob \in [Uploads \cup Names -> Contents \cup {"partial", "none"}]
      /\ evidence \subseteq Uploads /\ sweep.done \subseteq Uploads
      /\ sweep.todo \subseteq Uploads
      /\ sweep \in [pc : {"idle", "blobs", "errors"}, todo : SUBSET Uploads,
                     done : SUBSET Uploads]
      /\ removal \in [pc : {"idle", "blobs"}, todo : SUBSET (Uploads \cup Names),
                       gone : SUBSET Files]
      /\ sample \in [pc : {"idle", "rows", "blobs"}, todo : SUBSET Sample]
  BY DEF TypeOK
<1>k. (\A u \in Uploads : u \notin Names) /\ Sample \subseteq Uploads
  BY ArtifactAssumption DEF ArtifactAssumption
<1>1. ASSUME NEW u \in Uploads, add_evidence_within_quota(u) PROVE DeletionParts'
  <2>1. evidence \subseteq evidence' /\ evidence' \subseteq evidence \cup {u}
        /\ up' = [up EXCEPT ![u] = up'[u]] /\ up'[u] \in {"reserved", "done"}
        /\ up[u] = "new" /\ UNCHANGED <<blob, sweep, removal, sample, raced, stray>>
    BY <1>1, <1>t DEF add_evidence_within_quota, deletionVars
  <2>2. SampleInHand' = SampleInHand
    BY <2>1 DEF SampleInHand
  <2>3. NewHasNoRow' /\ UnwrittenBeforePut' /\ UndoneAreStray' /\ SweptAreGone'
    BY <1>p, <1>t, <2>1 DEF NewHasNoRow, UnwrittenBeforePut, UndoneAreStray, SweptAreGone
  <2>4. RemovalHasAll' /\ SampleHasAll' /\ DeletionIsRetryable'
    BY <1>p, <2>1, <2>2 DEF RemovalHasAll, SampleHasAll, DeletionIsRetryable
  <2> QED BY <2>3, <2>4 DEF DeletionParts
<1>2. ASSUME NEW u \in Uploads, blobs_put(u) PROVE DeletionParts'
  BY <1>2, DeletionWritten DEF blobs_put
<1>3. ASSUME NEW u \in Uploads, blobs_put_failed(u) \/ store_evidence_lost(u)
      PROVE  DeletionParts'
  <2>1. CASE blobs_put_failed(u)
    BY <2>1, DeletionWritten DEF blobs_put_failed
  <2>2. CASE store_evidence_lost(u)
    BY <2>2, DeletionWritten DEF store_evidence_lost
  <2> QED BY <1>3, <2>1, <2>2
<1>4. ASSUME NEW u \in Uploads, remove_evidence(u) \/ remove_evidence_lost(u)
      PROVE  DeletionParts'
  <2>1. /\ up[u] = "undo" /\ up' = [up EXCEPT ![u] = "done"]
        /\ evidence \ {u} \subseteq evidence' /\ evidence' \subseteq evidence
        /\ UNCHANGED <<blob, sweep, removal, sample, raced, stray>>
    BY <1>4 DEF remove_evidence, remove_evidence_lost, Unreserve, deletionVars
  <2>2. u \notin stray => blob[u] = "none"
    BY <1>p, <2>1 DEF UndoneAreStray
  <2>3. SampleInHand' = SampleInHand
    BY <2>1 DEF SampleInHand
  <2>4. NewHasNoRow' /\ UnwrittenBeforePut' /\ UndoneAreStray' /\ SweptAreGone'
    BY <1>p, <1>t, <2>1 DEF NewHasNoRow, UnwrittenBeforePut, UndoneAreStray, SweptAreGone
  <2>5. RemovalHasAll' /\ SampleHasAll' /\ DeletionIsRetryable'
    BY <1>p, <2>1, <2>2, <2>3 DEF RemovalHasAll, SampleHasAll, DeletionIsRetryable
  <2> QED BY <2>4, <2>5 DEF DeletionParts
<1>5. ASSUME NEW h \in Handlers,
             blobs_put_path(h) \/ blobs_put_path_done(h) \/ blobs_put_path_failed(h)
      PROVE  DeletionParts'
  <2>1. put[h].file \in Names
    BY DEF TypeOK, PutType
  <2>2. \A u \in Uploads : blob'[u] = blob[u]
    BY <1>5, <1>t, <1>k, <2>1 DEF blobs_put_path, blobs_put_path_done, blobs_put_path_failed
  <2> QED
    BY <1>5, <2>2, DeletionUntouched
       DEF blobs_put_path, blobs_put_path_done, blobs_put_path_failed, evidenceVars,
           deletionVars
<1>6. ASSUME expired_evidence_keys \/ delete_expired_errors \/ retention_stops
             \/ \E u \in Uploads : retention_delete_failed(u)
      PROVE  DeletionParts'
  <2>1. /\ sweep'.done \subseteq sweep.done
        /\ UNCHANGED <<evidence, up, blob, raced, stray, sample, removal>>
    BY <1>6, <1>t DEF expired_evidence_keys, delete_expired_errors, retention_stops,
                      retention_delete_failed, IdleSweep, evidenceVars
  <2> QED BY <2>1, DeletionUntouched
\* Deleting an object disturbs no part but those that say what is in hand.
<1>e. ASSUME NEW k, blob' = [blob EXCEPT ![k] = "none"], UNCHANGED <<evidence, up, raced>>,
             stray' = stray
      PROVE  NewHasNoRow' /\ UnwrittenBeforePut' /\ UndoneAreStray'
             /\ \A v \in Uploads : blob'[v] = IF v = k THEN "none" ELSE blob[v]
  BY <1>e, <1>p, <1>t DEF NewHasNoRow, UnwrittenBeforePut, UndoneAreStray
<1>7. ASSUME NEW u \in Uploads, retention_delete(u) PROVE DeletionParts'
  <2>1. /\ blob' = [blob EXCEPT ![u] = "none"] /\ sweep'.done = sweep.done \cup {u}
        /\ UNCHANGED <<evidence, up, removal, sample, raced, stray>>
    BY <1>7, <1>t DEF retention_delete, evidenceVars
  <2>2. SampleInHand' = SampleInHand
    BY <2>1 DEF SampleInHand
  <2>3. SweptAreGone' /\ RemovalHasAll' /\ SampleHasAll' /\ DeletionIsRetryable'
    BY <1>p, <1>t, <1>k, <1>e, <2>1, <2>2 DEF SweptAreGone, RemovalHasAll, SampleHasAll,
                                         DeletionIsRetryable
  <2> QED BY <1>e, <2>1, <2>3 DEF DeletionParts
<1>8. ASSUME delete_evidence_rows PROVE DeletionParts'
  <2>1. /\ evidence' = evidence \ sweep.done /\ sweep'.done = {}
        /\ UNCHANGED <<up, blob, removal, sample, raced, stray>>
    BY <1>8 DEF delete_evidence_rows, Unreserve
  <2>2. SampleInHand' = SampleInHand
    BY <2>1 DEF SampleInHand
  <2> QED
    BY <1>p, <1>t, <2>1, <2>2
       DEF DeletionParts, NewHasNoRow, UnwrittenBeforePut, UndoneAreStray, SweptAreGone,
           RemovalHasAll, SampleHasAll, DeletionIsRetryable
<1>9. ASSUME project_evidence_keys PROVE DeletionParts'
  <2>1. /\ evidence \subseteq removal'.todo
        /\ UNCHANGED <<evidence, up, blob, sweep, sample, raced, stray>>
    BY <1>9, <1>t DEF project_evidence_keys, ProjectKeys, evidenceVars
  <2>2. SampleInHand' = SampleInHand
    BY <2>1 DEF SampleInHand
  <2> QED
    BY <1>p, <1>t, <2>1, <2>2
       DEF DeletionParts, NewHasNoRow, UnwrittenBeforePut, UndoneAreStray, SweptAreGone,
           RemovalHasAll, SampleHasAll, DeletionIsRetryable
<1>10. ASSUME NEW k \in Uploads \cup Names, delete_project_blob(k) PROVE DeletionParts'
  <2>1. /\ blob' = [blob EXCEPT ![k] = "none"]
        /\ removal'.todo = removal.todo \ {k} /\ removal'.pc = removal.pc
        /\ UNCHANGED <<evidence, up, sweep, sample, raced, stray>>
    BY <1>10, <1>t DEF delete_project_blob, evidenceVars
  <2>2. SampleInHand' = SampleInHand
    BY <2>1 DEF SampleInHand
  <2>3. SweptAreGone' /\ RemovalHasAll' /\ SampleHasAll' /\ DeletionIsRetryable'
    BY <1>p, <1>t, <1>k, <1>e, <2>1, <2>2 DEF SweptAreGone, RemovalHasAll, SampleHasAll,
                                         DeletionIsRetryable
  <2> QED BY <1>e, <2>1, <2>3 DEF DeletionParts
<1>11. ASSUME delete_project_fails PROVE DeletionParts'
  BY <1>11, <1>t, DeletionUntouched DEF delete_project_fails, evidenceVars
<1>12. ASSUME delete_project_by_app PROVE DeletionParts'
  <2>1. /\ removal.pc = "blobs" /\ removal.todo = {} /\ evidence' = {}
        /\ removal'.pc = "idle" /\ UNCHANGED <<up, blob, sweep, sample, raced, stray>>
    BY <1>12, <1>t DEF delete_project_by_app
  <2>2. SampleInHand' = SampleInHand
    BY <2>1 DEF SampleInHand
  <2>3. \A u \in Uploads \ (raced \cup stray) : blob[u] # "none" => u \in SampleInHand
    BY <1>p, <2>1 DEF RemovalHasAll
  <2> QED
    BY <1>p, <1>t, <2>1, <2>2, <2>3
       DEF DeletionParts, NewHasNoRow, UnwrittenBeforePut, UndoneAreStray, SweptAreGone,
           RemovalHasAll, SampleHasAll, DeletionIsRetryable
<1>13. ASSUME sample_evidence_keys PROVE DeletionParts'
  <2>1. /\ sample.pc = "idle" /\ sample' = [pc |-> "rows", todo |-> evidence \cap Sample]
        /\ UNCHANGED <<evidence, up, blob, sweep, removal, raced, stray>>
    BY <1>13 DEF sample_evidence_keys, evidenceVars
  <2>2. SampleInHand = {} /\ SampleInHand' = {}
    BY <2>1 DEF SampleInHand
  <2>3. SampleHasAll'
    BY <1>p, <1>k, <2>1, <2>2 DEF SampleHasAll, DeletionIsRetryable
  <2> QED
    BY <1>p, <1>t, <2>1, <2>2, <2>3
       DEF DeletionParts, NewHasNoRow, UnwrittenBeforePut, UndoneAreStray, SweptAreGone,
           RemovalHasAll, DeletionIsRetryable
<1>14. ASSUME delete_sample_bucket_data PROVE DeletionParts'
  <2>1. /\ sample.pc = "rows" /\ evidence' = evidence \ Sample
        /\ sample' = [sample EXCEPT !.pc = "blobs"]
        /\ UNCHANGED <<up, blob, sweep, removal, raced, stray>>
    BY <1>14 DEF delete_sample_bucket_data, Unreserve
  <2>2. SampleInHand = {} /\ SampleInHand' = sample.todo /\ sample'.pc = "blobs"
    BY <1>t, <2>1 DEF SampleInHand
  <2>3. \A u \in Uploads \ (raced \cup stray) :
            blob[u] # "none" => u \in evidence /\ (u \in Sample => u \in sample.todo)
    BY <1>p, <2>1, <2>2 DEF DeletionIsRetryable, SampleHasAll
  <2>4. DeletionIsRetryable' /\ RemovalHasAll' /\ SampleHasAll'
    BY <1>p, <2>1, <2>2, <2>3 DEF DeletionIsRetryable, RemovalHasAll, SampleHasAll
  <2> QED
    BY <1>p, <1>t, <2>1, <2>4
       DEF DeletionParts, NewHasNoRow, UnwrittenBeforePut, UndoneAreStray, SweptAreGone
<1>15. ASSUME NEW u \in Uploads, delete_sample_blob(u) PROVE DeletionParts'
  <2>1. /\ sample.pc = "blobs" /\ sample' = [sample EXCEPT !.todo = sample.todo \ {u}]
        /\ UNCHANGED <<evidence, up, sweep, removal, raced>>
    BY <1>15, <1>t DEF delete_sample_blob, evidenceVars
  <2>2. SampleInHand = sample.todo /\ SampleInHand' = sample.todo \ {u} /\ sample'.pc = "blobs"
    BY <1>t, <2>1 DEF SampleInHand
  <2>3. CASE blob' = [blob EXCEPT ![u] = "none"] /\ stray' = stray
    <3>1. SweptAreGone' /\ RemovalHasAll' /\ SampleHasAll' /\ DeletionIsRetryable'
      BY <1>p, <1>t, <1>e, <2>1, <2>2, <2>3 DEF SweptAreGone, RemovalHasAll, SampleHasAll,
                                           DeletionIsRetryable
    <3> QED BY <1>e, <2>1, <2>3, <3>1 DEF DeletionParts
  <2>4. CASE blob' = blob /\ stray' = stray \cup {u}
    BY <1>p, <1>t, <2>1, <2>2, <2>4
       DEF DeletionParts, NewHasNoRow, UnwrittenBeforePut, UndoneAreStray, SweptAreGone,
           RemovalHasAll, SampleHasAll, DeletionIsRetryable
  <2> QED BY <1>15, <2>3, <2>4 DEF delete_sample_blob
<1>16. ASSUME delete_sample_ends PROVE DeletionParts'
  <2>1. /\ sample' = [pc |-> "idle", todo |-> {}] /\ stray' = stray \cup SampleInHand
        /\ UNCHANGED <<evidence, up, blob, sweep, removal, raced>>
    BY <1>16 DEF delete_sample_ends, SampleInHand, evidenceVars
  <2>2. SampleInHand' = {}
    BY <2>1 DEF SampleInHand
  <2> QED
    BY <1>p, <1>t, <2>1, <2>2
       DEF DeletionParts, NewHasNoRow, UnwrittenBeforePut, UndoneAreStray, SweptAreGone,
           RemovalHasAll, SampleHasAll, DeletionIsRetryable
<1>17. CASE UNCHANGED <<evidence, up, blob, sweep, removal, sample, raced, stray>>
  BY <1>17, DeletionUntouched
<1> QED
  BY <1>1, <1>2, <1>3, <1>4, <1>5, <1>6, <1>7, <1>8, <1>9, <1>10, <1>11, <1>12, <1>13,
     <1>14, <1>15, <1>16, <1>17
     DEF Next, Evidence, Review, Upload, Retention, Deletion, SampleDeletion, vars,
         evidenceVars, deletionVars, create,
         link_expires, approve, put_file, add_capture_file_select, add_capture_file,
         client_gone, remove_capture_file, mark_capture_file_uploaded,
         put_file_lost, complete, complete_capture

-----------------------------------------------------------------------------
(* Declared files. *)

\* A step that writes neither the object nor the row of a file, takes no upload of
\* it past its reservation and none further leaves the file guarded.
LEMMA GuardKept ==
    ASSUME NEW f \in Files, FileGuarded(f),
           Uploading(f)' \subseteq Uploading(f),
           \A h \in Uploading(f)' : put'[h].pc = put[h].pc,
           files'[f].uploaded => files[f].uploaded,
           blob'[f] = blob[f], removal.gone \subseteq removal'.gone
    PROVE  FileGuarded(f)'
BY DEF FileGuarded, Backed

\* So does one that changes no handler and no row, and deletes objects only as a
\* project deletion does.
LEMMA GuardUndisturbed ==
    ASSUME FilesGuarded, UNCHANGED <<put, files, torn>>,
           removal.gone \subseteq removal'.gone,
           \A f \in Files : blob'[f] # blob[f] => blob'[f] = "none" /\ f \in removal'.gone
    PROVE  FilesGuarded'
BY DEF FilesGuarded, FileGuarded, Backed, Uploading

\* An upload that passed its hash check keeps the body it was checked with.
LEMMA CheckedStep == TypeOK /\ CheckedBodies /\ [Next]_vars => CheckedBodies'
<1> SUFFICES ASSUME TypeOK, CheckedBodies, [Next]_vars PROVE CheckedBodies'
  OBVIOUS
<1>t. put \in [Handlers -> PutType]
  BY DEF TypeOK
\* A handler that ends, or stays with the body and the file it has.
<1>h. ASSUME NEW h \in Handlers, \A g \in Handlers \ {h} : put'[g] = put[g],
             \/ put'[h].pc \in {"idle", "undo", "mark"}
             \/ /\ put'[h].body = put[h].body /\ put'[h].file = put[h].file
                /\ put[h].pc \in {"select", "insert", "upload", "copy"}
             \/ put'[h].body \in declared(put'[h].file)
      PROVE  CheckedBodies'
  BY <1>h DEF CheckedBodies
<1>1. ASSUME NEW h \in Handlers, NEW f \in Names, NEW body \in Contents,
             put_file(h, f, body)
      PROVE  CheckedBodies'
  <2>1. /\ \A g \in Handlers \ {h} : put'[g] = put[g]
        /\ put'[h].body = body /\ put'[h].file = f /\ body \in declared(f)
    BY <1>1, <1>t DEF put_file
  <2> QED BY <2>1, <1>h
<1>2. ASSUME NEW h \in Handlers,
             \/ add_capture_file_select(h) \/ add_capture_file(h) \/ blobs_put_path(h)
             \/ client_gone(h)
      PROVE  CheckedBodies'
  <2>1. /\ \A g \in Handlers \ {h} : put'[g] = put[g]
        /\ \/ put'[h].pc = "idle"
           \/ /\ put'[h].body = put[h].body /\ put'[h].file = put[h].file
              /\ put[h].pc \in {"select", "insert", "upload", "copy"}
    <3>1. CASE add_capture_file_select(h)
      BY <3>1, <1>t DEF add_capture_file_select, IdlePut, PutType
    <3>2. CASE add_capture_file(h)
      BY <3>2, <1>t DEF add_capture_file, IdlePut, PutType
    <3>3. CASE blobs_put_path(h) \/ client_gone(h)
      BY <3>3, <1>t DEF blobs_put_path, client_gone, PutType
    <3> QED BY <1>2, <3>1, <3>2, <3>3
  <2> QED BY <2>1, <1>h
<1>3. ASSUME NEW h \in Handlers,
             \/ blobs_put_path_done(h) \/ blobs_put_path_failed(h)
             \/ remove_capture_file(h) \/ mark_capture_file_uploaded(h) \/ put_file_lost(h)
      PROVE  CheckedBodies'
  <2>1. (\A g \in Handlers \ {h} : put'[g] = put[g]) /\ put'[h].pc \in {"idle", "undo", "mark"}
    <3>1. CASE blobs_put_path_done(h) \/ blobs_put_path_failed(h)
      <4>1. AfterPut(h, "mark") \/ AfterPut(h, "undo")
        BY <3>1 DEF blobs_put_path_done, blobs_put_path_failed
      <4>2. CASE AfterPut(h, "mark")
        BY <4>2, <1>t DEF AfterPut, IdlePut, PutType
      <4>3. CASE AfterPut(h, "undo")
        BY <4>3, <1>t DEF AfterPut, IdlePut, PutType
      <4> QED BY <4>1, <4>2, <4>3
    <3>2. CASE remove_capture_file(h) \/ mark_capture_file_uploaded(h) \/ put_file_lost(h)
      BY <3>2, <1>t DEF remove_capture_file, mark_capture_file_uploaded, put_file_lost, IdlePut
    <3> QED BY <1>3, <3>1, <3>2
  <2> QED BY <2>1, <1>h
<1>4. CASE UNCHANGED put
  BY <1>4 DEF CheckedBodies
<1> QED
  BY <1>1, <1>2, <1>3, <1>4
     DEF Next, Evidence, Review, Upload, Retention, Deletion, SampleDeletion, vars,
         captureVars, add_evidence_within_quota, blobs_put, blobs_put_failed,
         store_evidence_lost, remove_evidence, remove_evidence_lost, create, link_expires,
         approve, complete, complete_capture, expired_evidence_keys, retention_delete,
         retention_delete_failed, delete_evidence_rows, delete_expired_errors,
         retention_stops, project_evidence_keys, delete_project_blob, delete_project_fails,
         delete_project_by_app, sample_evidence_keys, delete_sample_bucket_data,
         delete_sample_blob, delete_sample_ends

\* Every step leaves guarded the files no uploads of which overlap.
LEMMA FileStep ==
    TypeOK /\ CheckedBodies /\ FilesGuarded /\ [Next]_vars => FilesGuarded'
<1> SUFFICES ASSUME TypeOK, CheckedBodies, FilesGuarded, [Next]_vars PROVE FilesGuarded'
  OBVIOUS
<1>d. \A e \in Files : e \in Uploads \cup Names
  BY DEF Names
<1>n. \A k \in Names : k \in Uploads \cup Names
  OBVIOUS
<1>t. /\ put \in [Handlers -> PutType] /\ files \in [Names -> FileType]
      /\ blob \in [Uploads \cup Names -> Contents \cup {"partial", "none"}]
      /\ removal \in [pc : {"idle", "blobs"}, todo : SUBSET (Uploads \cup Names),
                       gone : SUBSET Files]
      /\ sweep.todo \subseteq Uploads
  BY DEF TypeOK
<1>k. /\ \A u \in Uploads : u \notin Names
      /\ \A f \in Files : f \in Names
      /\ \A h \in Handlers : put[h].file \in Names
      /\ \A f \in Names : f \in Files <=> f # Manifest
  BY <1>t, ArtifactAssumption DEF ArtifactAssumption, Names, PutType
\* A handler that takes no upload past its reservation, and no row to "uploaded".
<1>h. ASSUME NEW h \in Handlers, \A g \in Handlers \ {h} : put'[g] = put[g],
             \/ put'[h].pc \in {"idle", "select", "insert", "undo"}
             \/ put'[h].pc = put[h].pc /\ put'[h].file = put[h].file,
             \A f \in Files : files'[f].uploaded => files[f].uploaded,
             UNCHANGED <<blob, torn, removal>>
      PROVE  FilesGuarded'
  <2> SUFFICES ASSUME NEW f \in Files \ torn PROVE FileGuarded(f)'
    BY <1>h DEF FilesGuarded
  <2>2. /\ Uploading(f)' \subseteq Uploading(f)
        /\ \A g \in Uploading(f)' : put'[g].pc = put[g].pc
    BY <1>h DEF Uploading
  <2> QED BY <1>h, <2>2, GuardKept DEF FilesGuarded
<1>1. ASSUME NEW h \in Handlers, NEW f \in Names, NEW body \in Contents,
             put_file(h, f, body)
      PROVE  FilesGuarded'
  <2>1. (\A g \in Handlers \ {h} : put'[g] = put[g]) /\ put'[h].pc = "select"
    BY <1>1, <1>t DEF put_file
  <2> QED BY <1>1, <2>1, <1>h DEF put_file, deletionVars
<1>2. ASSUME NEW h \in Handlers, add_capture_file_select(h) PROVE FilesGuarded'
  <2>1. (\A g \in Handlers \ {h} : put'[g] = put[g]) /\ put'[h].pc \in {"idle", "insert"}
    BY <1>2, <1>t DEF add_capture_file_select, IdlePut, PutType
  <2> QED BY <1>2, <2>1, <1>h DEF add_capture_file_select, deletionVars
<1>3. ASSUME NEW h \in Handlers, client_gone(h) \/ remove_capture_file(h) \/ put_file_lost(h)
      PROVE  FilesGuarded'
  <2>1. /\ \A g \in Handlers \ {h} : put'[g] = put[g]
        /\ put'[h].pc = "idle" \/ (put'[h].pc = put[h].pc /\ put'[h].file = put[h].file)
    BY <1>3, <1>t DEF client_gone, remove_capture_file, put_file_lost, IdlePut, PutType
  <2>2. /\ \A f \in Files : files'[f].uploaded => files[f].uploaded
        /\ UNCHANGED <<blob, torn, removal>>
    BY <1>3, <1>t, <1>k DEF client_gone, remove_capture_file, put_file_lost, NoRow,
                            deletionVars
  <2> QED BY <2>1, <2>2, <1>h
<1>4. ASSUME NEW h \in Handlers, add_capture_file(h) PROVE FilesGuarded'
  <2> DEFINE n == put[h].file
  <2>1. CASE put' = [put EXCEPT ![h] = IdlePut] /\ UNCHANGED <<files, torn>>
    <3>1. (\A g \in Handlers \ {h} : put'[g] = put[g]) /\ put'[h].pc = "idle"
      BY <2>1, <1>t DEF IdlePut
    <3> QED BY <1>4, <1>h, <2>1, <3>1 DEF add_capture_file, deletionVars
  <2>2. CASE /\ put' = [put EXCEPT ![h].pc = "upload", ![h].app = "none"]
             /\ files' = [files EXCEPT ![n] = [sha256 |-> put[h].body, uploaded |-> FALSE]]
             /\ torn' = IF Uploading(n) # {} THEN torn \cup {n} ELSE torn \ {n}
    <3>1. put[h].pc = "insert" /\ UNCHANGED <<blob, removal>> /\ n \in Names
      BY <1>4, <1>k DEF add_capture_file, deletionVars
    <3>2. /\ \A g \in Handlers \ {h} : put'[g] = put[g]
          /\ put'[h].pc = "upload" /\ put'[h].file = n
      BY <1>t, <2>2 DEF PutType
    <3> SUFFICES ASSUME NEW f \in Files \ torn' PROVE FileGuarded(f)'
      BY DEF FilesGuarded
    <3>3. CASE f = n
      <4>1. Uploading(f) = {} /\ files'[f].uploaded = FALSE
        BY <2>2, <3>1, <3>3, <1>t, <1>k
      <4>2. Uploading(f)' \subseteq {h}
        BY <3>2, <4>1 DEF Uploading
      <4> QED BY <3>2, <4>1, <4>2 DEF FileGuarded
    <3>4. CASE f # n
      <4>1. Uploading(f)' \subseteq Uploading(f) /\ h \notin Uploading(f)'
        BY <3>2, <3>4 DEF Uploading
      <4>2. \A g \in Uploading(f)' : put'[g].pc = put[g].pc
        BY <3>2, <4>1 DEF Uploading
      <4>3. files'[f] = files[f] /\ f \notin torn
        BY <2>2, <3>4, <1>t, <1>k
      <4> QED BY <3>1, <4>1, <4>2, <4>3, GuardKept DEF FilesGuarded
    <3> QED BY <3>3, <3>4
  <2> QED BY <1>4, <2>1, <2>2 DEF add_capture_file
\* A put writes the object of one file; the others are kept.
<1>p. ASSUME NEW h \in Handlers, \A g \in Handlers \ {h} : put'[g] = put[g],
             put'[h].file = put[h].file \/ put'[h].pc \in {"idle", "undo"},
             \A e \in Files : e # put[h].file => blob'[e] = blob[e],
             UNCHANGED <<files, torn, removal>>,
             put[h].pc \in {"upload", "copy"},
             put'[h].pc = "mark" => \A f \in Files \ torn : f = put[h].file => Backed(f)',
             put'[h].pc = "copy" => blob'[put[h].file] # "none",
             put'[h].pc # "upload"
      PROVE  FilesGuarded'
  <2> SUFFICES ASSUME NEW f \in Files \ torn PROVE FileGuarded(f)'
    BY <1>p DEF FilesGuarded
  <2>2. CASE f = put[h].file
    <3>1. h \in Uploading(f) /\ FileGuarded(f)
      BY <1>p, <2>2 DEF Uploading, FilesGuarded
    <3>2. Uploading(f) \subseteq {h} /\ ~files[f].uploaded
      BY <1>p, <3>1 DEF FileGuarded
    <3>3. Uploading(f)' \subseteq {h} /\ ~files'[f].uploaded
      BY <1>p, <3>2 DEF Uploading
    <3>4. h \in Uploading(f)' => put'[h].pc \in {"copy", "mark"}
      BY <1>p DEF Uploading
    <3>5. put'[h].pc = "mark" => Backed(f)'
      BY <1>p, <2>2
    <3> QED BY <1>p, <2>2, <3>3, <3>4, <3>5 DEF FileGuarded
  <2>3. CASE f # put[h].file
    <3>1. h \notin Uploading(f) /\ h \notin Uploading(f)'
      BY <1>p, <2>3 DEF Uploading
    <3>2. Uploading(f)' \subseteq Uploading(f) /\ \A g \in Uploading(f)' : put'[g].pc = put[g].pc
      BY <1>p, <3>1 DEF Uploading
    <3>3. blob'[f] = blob[f]
      BY <1>p, <2>3
    <3> QED BY <1>p, <3>2, <3>3, GuardKept DEF FilesGuarded
  <2> QED BY <2>2, <2>3
<1>b. ASSUME NEW k \in Names, NEW c, blob' = [blob EXCEPT ![k] = c]
      PROVE  blob'[k] = c /\ \A e \in Files : e # k => blob'[e] = blob[e]
  <2>1. blob'[k] = c
    BY <1>b, <1>t, <1>n
  <2>2. ASSUME NEW e \in Files, e # k PROVE blob'[e] = blob[e]
    BY <1>b, <1>t, <1>d, <2>2
  <2> QED BY <2>1, <2>2
<1>5. ASSUME NEW h \in Handlers, blobs_put_path(h) PROVE FilesGuarded'
  <2>1. /\ \A g \in Handlers \ {h} : put'[g] = put[g]
        /\ put'[h].pc = "copy" /\ put'[h].file = put[h].file
    BY <1>5, <1>t DEF blobs_put_path, PutType
  <2>2. /\ blob'[put[h].file] = "partial"
        /\ \A e \in Files : e # put[h].file => blob'[e] = blob[e]
    <3>1. put[h].file \in Names /\ blob' = [blob EXCEPT ![put[h].file] = "partial"]
      BY <1>5, <1>k DEF blobs_put_path
    <3> QED BY <3>1, <1>b
  <2>3. put[h].pc = "upload" /\ UNCHANGED <<files, torn, removal>>
    BY <1>5 DEF blobs_put_path, deletionVars
  <2> QED BY <1>p, <2>1, <2>2, <2>3
\* A put that ends well leaves the declared contents, or nothing when the object
\* was deleted under it.
<1>6. ASSUME NEW h \in Handlers, blobs_put_path_done(h) PROVE FilesGuarded'
  <2>1. /\ \A g \in Handlers \ {h} : put'[g] = put[g]
        /\ put'[h].pc = "idle" \/ (put'[h].pc = "mark" /\ put'[h].file = put[h].file)
    BY <1>6, <1>t DEF blobs_put_path_done, AfterPut, IdlePut, PutType
  <2>2. PICK c \in Copied(h) : blob' = [blob EXCEPT ![put[h].file] = c]
    BY <1>6 DEF blobs_put_path_done
  <2>3. put[h].pc = "copy" /\ UNCHANGED <<files, torn, removal>>
    BY <1>6 DEF blobs_put_path_done, deletionVars
  <2>4. blob'[put[h].file] = c /\ \A e \in Files : e # put[h].file => blob'[e] = blob[e]
    BY <2>2, <1>b, <1>k
  <2>5. ASSUME put[h].file \in Files \ torn
        PROVE  \/ blob'[put[h].file] \in declared(put[h].file)
               \/ blob'[put[h].file] = "none" /\ put[h].file \in removal'.gone
    <3>1. put[h].body \in declared(put[h].file)
      BY <2>3 DEF CheckedBodies
    <3>2. h \in Uploading(put[h].file) /\ FileGuarded(put[h].file)
      BY <2>3, <2>5 DEF Uploading, FilesGuarded
    <3>3. \A g \in Handlers \ {h} : ~(put[g].pc = "copy" /\ put[g].file = put[h].file)
      BY <3>2 DEF FileGuarded, Uploading
    <3>4. blob[put[h].file] = "none" => put[h].file \in removal.gone
      BY <2>3, <3>2 DEF FileGuarded
    <3>5. c = put[h].body \/ (c = "none" /\ put[h].file \in removal.gone)
      BY <3>3, <3>4 DEF Copied
    <3>6. CASE c = put[h].body
      BY <2>4, <3>1, <3>6
    <3>7. CASE c = "none" /\ put[h].file \in removal.gone
      BY <2>3, <2>4, <3>7
    <3> QED BY <3>5, <3>6, <3>7
  <2>6. \A f \in Files \ torn : f = put[h].file => Backed(f)'
    BY <2>5 DEF Backed
  <2> QED BY <1>p, <2>1, <2>3, <2>4, <2>6
<1>7. ASSUME NEW h \in Handlers, blobs_put_path_failed(h) PROVE FilesGuarded'
  <2>1. (\A g \in Handlers \ {h} : put'[g] = put[g]) /\ put'[h].pc \in {"idle", "undo"}
    BY <1>7, <1>t DEF blobs_put_path_failed, AfterPut, IdlePut, PutType
  <2>2. UNCHANGED <<files, torn, removal>>
    BY <1>7 DEF blobs_put_path_failed, deletionVars
  <2>3. CASE blob' = blob
    BY <1>h, <2>1, <2>2, <2>3
  <2>4. CASE put[h].pc = "copy" /\ \E c : blob' = [blob EXCEPT ![put[h].file] = c]
    <3>1. \A e \in Files : e # put[h].file => blob'[e] = blob[e]
      BY <2>4, <1>b, <1>k
    <3> QED BY <1>p, <2>1, <2>2, <2>4, <3>1
  <2> QED BY <1>7, <2>3, <2>4 DEF blobs_put_path_failed
<1>8. ASSUME NEW h \in Handlers, mark_capture_file_uploaded(h) PROVE FilesGuarded'
  <2> SUFFICES ASSUME NEW f \in Files \ torn PROVE FileGuarded(f)'
    BY <1>8 DEF FilesGuarded, mark_capture_file_uploaded
  <2>1. /\ UNCHANGED <<blob, removal>> /\ put[h].pc = "mark"
        /\ \A g \in Handlers : put'[g] = IF g = h THEN IdlePut ELSE put[g]
        /\ \A e \in Files : e # put[h].file => files'[e] = files[e]
    BY <1>8, <1>t, <1>k DEF mark_capture_file_uploaded, deletionVars
  <2>2. /\ Uploading(f)' \subseteq Uploading(f) /\ h \notin Uploading(f)'
        /\ \A g \in Uploading(f)' : put'[g].pc = put[g].pc
    BY <2>1 DEF Uploading, IdlePut
  <2>3. CASE f = put[h].file
    <3>1. h \in Uploading(f) /\ FileGuarded(f)
      BY <2>1, <2>3 DEF Uploading, FilesGuarded
    <3>2. Uploading(f)' = {} /\ Backed(f)
      BY <2>1, <2>2, <3>1 DEF FileGuarded
    <3>3. Backed(f)'
      BY <2>1, <3>2 DEF Backed
    <3> QED BY <3>2, <3>3 DEF FileGuarded
  <2>4. CASE f # put[h].file
    BY <2>1, <2>2, <2>4, GuardKept DEF FilesGuarded
  <2> QED BY <2>3, <2>4
<1>9. ASSUME NEW k \in Uploads \cup Names, delete_project_blob(k) PROVE FilesGuarded'
  <2>1. UNCHANGED <<put, files, torn>> /\ blob' = [blob EXCEPT ![k] = "none"]
        /\ removal'.gone = removal.gone \cup ({k} \cap Files)
    BY <1>9, <1>t DEF delete_project_blob, captureVars
  <2> QED BY <1>t, <1>k, <2>1, GuardUndisturbed
<1>10. ASSUME NEW u \in Uploads,
              \/ blobs_put(u) \/ blobs_put_failed(u) \/ store_evidence_lost(u)
              \/ retention_delete(u) \/ delete_sample_blob(u)
       PROVE  FilesGuarded'
  <2>1. UNCHANGED <<put, files, torn, removal>>
    BY <1>10 DEF blobs_put, blobs_put_failed, store_evidence_lost, retention_delete,
                 delete_sample_blob, captureVars
  <2>2. \A f \in Files : blob'[f] = blob[f]
    BY <1>10, <1>t, <1>k DEF blobs_put, blobs_put_failed, store_evidence_lost,
                             retention_delete, delete_sample_blob
  <2> QED BY <2>1, <2>2, GuardUndisturbed
<1>11. ASSUME project_evidence_keys \/ delete_project_fails PROVE FilesGuarded'
  <2>1. UNCHANGED <<put, files, torn, blob>> /\ removal'.gone = removal.gone
    BY <1>11, <1>t DEF project_evidence_keys, delete_project_fails, captureVars
  <2> QED BY <2>1, GuardUndisturbed
<1>12. ASSUME delete_project_by_app PROVE FilesGuarded'
  <2>1. UNCHANGED <<put, blob, torn>> /\ removal'.gone = removal.gone
    BY <1>12, <1>t DEF delete_project_by_app
  <2>2. \A f \in Files : files'[f].uploaded => files[f].uploaded
    BY <1>12, <1>k DEF delete_project_by_app, NoRow
  <2> SUFFICES ASSUME NEW f \in Files \ torn PROVE FileGuarded(f)'
    BY <2>1 DEF FilesGuarded
  <2>3. Uploading(f)' = Uploading(f)
    BY <2>1 DEF Uploading
  <2> QED BY <2>1, <2>2, <2>3, GuardKept DEF FilesGuarded
<1>13. CASE UNCHANGED <<blob, files, put, torn, removal>>
  BY <1>13, GuardUndisturbed
<1> QED
  BY <1>1, <1>2, <1>3, <1>4, <1>5, <1>6, <1>7, <1>8, <1>9, <1>10, <1>11, <1>12, <1>13
     DEF Next, Evidence, Review, Upload, Retention, Deletion, SampleDeletion, vars,
         captureVars, deletionVars,
         add_evidence_within_quota, remove_evidence, remove_evidence_lost,
         create, link_expires, approve, complete, complete_capture, expired_evidence_keys,
         retention_delete_failed, delete_evidence_rows, delete_expired_errors,
         retention_stops, sample_evidence_keys, delete_sample_bucket_data,
         delete_sample_ends

-----------------------------------------------------------------------------
(* The theorems. *)

\* The inductive invariant of evidence, captures, retention and deletion.
THEOREM ArtifactInvariant == Spec => []ArtifactInv
<1>1. Init => ArtifactInv
  <2>1. Init => TypeOK
    BY InitType
  <2>2. Init => UsageExact
    BY FS_EmptySet, ArtifactAssumption DEF Init, UsageExact, ArtifactAssumption
  <2>3. Init => DeletionParts
    BY DEF Init, DeletionParts, NewHasNoRow, UnwrittenBeforePut, UndoneAreStray,
           SweptAreGone, RemovalHasAll, SampleHasAll, DeletionIsRetryable, IdleSweep
  <2>4. Init => CheckedBodies /\ FilesGuarded
    BY DEF Init, CheckedBodies, FilesGuarded, FileGuarded, Uploading, IdlePut, NoRow, Names
  <2> QED BY <2>1, <2>2, <2>3, <2>4 DEF ArtifactInv, DeletionParts
<1>2. ArtifactInv /\ [Next]_vars => ArtifactInv'
  BY TypeStep, UsageStep, DeletionStep, CheckedStep, FileStep DEF ArtifactInv, DeletionParts
<1> QED BY <1>1, <1>2, PTL DEF Spec

\* The counter that admits evidence is the number of its rows, and within the
\* quota, for any number of concurrent uploads, compensations and deletions
\* (add_evidence_within_quota, update_app_storage_usage).
THEOREM UsageIsExact == Spec => []UsageExact
<1>1. ArtifactInv => UsageExact
  BY DEF ArtifactInv
<1> QED BY <1>1, ArtifactInvariant, PTL

\* Retention and project deletion lose no evidence object by failing or
\* stopping anywhere: its row outlives it, unless an upload overlapped them, a put
\* reported an error after it had written, or the sample deletion had its rows.
THEOREM DeletionsAreRetryable == Spec => []DeletionIsRetryable
<1>1. ArtifactInv => DeletionIsRetryable
  BY DEF ArtifactInv
<1> QED BY <1>1, ArtifactInvariant, PTL

\* Uploaded rows of declared files are backed by the declared contents, although
\* puts truncate, fail and outlive their requests, as long as uploads of one file
\* do not overlap (put_file, fs::copy, mark_capture_file_uploaded).
THEOREM DeclaredFilesStayIntact == Spec => []DeclaredFilesIntact
<1>1. ArtifactInv => DeclaredFilesIntact
  BY DEF ArtifactInv, FilesGuarded, FileGuarded, Backed, DeclaredFilesIntact
<1> QED BY <1>1, ArtifactInvariant, PTL

\* No step moves an approved capture to another project or back to review
\* (create, approve_capture).
THEOREM ApprovalIsFinal == Spec => ApprovedProjectFixed
<1>1. TypeOK /\ [Next]_vars =>
        [capture.status \notin {"absent", "pending_review"} =>
            \/ capture'.app = capture.app /\ capture'.status # "pending_review"
            \/ capture' = NoCapture]_vars
  <2> SUFFICES ASSUME TypeOK, Next, capture.status \notin {"absent", "pending_review"}
               PROVE  \/ capture'.app = capture.app /\ capture'.status # "pending_review"
                      \/ capture' = NoCapture
    OBVIOUS
  <2>t. capture \in [status : CaptureStatus, app : projects \cup {"none"}, link : BOOLEAN]
    BY DEF TypeOK
  <2>1. CASE link_expires
    BY <2>1, <2>t DEF link_expires
  <2>2. ASSUME NEW h \in Handlers, add_capture_file(h)
        PROVE  capture'.app = capture.app /\ capture'.status # "pending_review"
    BY <2>2, <2>t DEF add_capture_file
  <2>3. CASE complete_capture
    BY <2>3, <2>t DEF complete_capture
  <2>4. CASE delete_project_by_app
    BY <2>4 DEF delete_project_by_app
  <2>5. CASE UNCHANGED capture
    BY <2>5
  <2> QED
    BY <2>1, <2>2, <2>3, <2>4, <2>5
       DEF Next, Evidence, Review, Upload, Retention, Deletion, captureVars,
           SampleDeletion, add_evidence_within_quota, blobs_put, blobs_put_failed,
           remove_evidence, remove_evidence_lost,
           store_evidence_lost, create, approve, put_file, add_capture_file_select,
           blobs_put_path, blobs_put_path_done, blobs_put_path_failed, client_gone,
           remove_capture_file,
           mark_capture_file_uploaded, put_file_lost, complete, expired_evidence_keys,
           retention_delete, retention_delete_failed, delete_evidence_rows,
           delete_expired_errors, retention_stops, project_evidence_keys,
           delete_project_blob, delete_project_fails, sample_evidence_keys,
           delete_sample_bucket_data, delete_sample_blob, delete_sample_ends
<1> QED BY <1>1, TypeCorrect, PTL DEF Spec, ApprovedProjectFixed
=============================================================================
