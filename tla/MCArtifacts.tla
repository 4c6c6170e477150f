---------------------------- MODULE MCArtifacts -----------------------------
(* Instances of Artifacts for TLC. *)
EXTENDS Artifacts, TLC

\* The put_file requests are interchangeable, and the uploads no deletion selects.
ArtifactSymmetry == Permutations(Handlers) \cup Permutations(Uploads \ (Expired \cup Sample))

\* One run explores evidence and captures side by side, not at once: they only
\* meet in the quota and in the project's deletion.
NoEvidence == /\ \A u \in Uploads : up[u] = "new"
              /\ errors = Uploads /\ sweep.pc = "idle" /\ sample.pc = "idle"
NoUpload == /\ capture = NoCapture
            /\ \A f \in Names : blob[f] = "none"
            /\ \A h \in Handlers : put[h] = IdlePut
\* Every upload of the manifest has the same contents.
OneManifest == \A h \in Handlers : put[h].file = Manifest => put[h].body = "a"
\* At most one evidence object ends up where no row finds it.
OneLoss == Cardinality(stray \cup raced) <= 1
Focus == (NoEvidence /\ OneManifest) \/ (NoUpload /\ OneLoss)
=============================================================================
