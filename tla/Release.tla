-------------------------------- MODULE Release --------------------------------
(***************************************************************************)
(* scripts/release-cli.ts and generate-release-manifest.ts: the software   *)
(* bill of materials and the provenance of a release are generated from a  *)
(* checkout into a directory, two files in turn, and verified there.       *)
(***************************************************************************)
EXTENDS Integers

CONSTANT MaxGenerations

ASSUME ReleaseAssumption == MaxGenerations \in Nat

VARIABLES
  checkout,   \* the lockfile of the working tree, the generation that runs
  artifacts   \* the two files of the release directory

releaseVars == <<checkout, artifacts>>

NoFile == [present |-> FALSE]

ReleaseInit ==
  /\ checkout = [lock |-> "l1", generation |-> 0, generating |-> NoFile]
  /\ artifacts = [sbom |-> NoFile, provenance |-> NoFile]

(* ------------------------------- generation ------------------------------- *)

\* The packages of a lockfile, and those of them that ship: installed, with a
\* version, and not for development only.
LockedPackages(lock) ==
  [path : {"a", "b"}, version : {lock, "none"}, dev : {"no", "dev", "devOptional"}]

Components(lock) ==
  {package \in LockedPackages(lock) : package.version # "none" /\ package.dev = "no"}

\* generateReleaseManifest: the time makes two generations differ even where
\* the lockfile is the same; the provenance has the digest of both files, and
\* besides them the commit, the workflow, the toolchain and the fingerprint of
\* the configuration, its facts.
Sbom(lock, at) == [at |-> at, components |-> Components(lock)]
Manifest(lock, at) ==
  [sbom |-> [present |-> TRUE, body |-> Sbom(lock, at), defect |-> "none"],
   provenance |-> [present |-> TRUE, lock |-> lock, sbomDigest |-> Sbom(lock, at),
                   facts |-> at, defect |-> "none"]]

\* The lockfile is read once and the SBOM is written first.
WriteSbom ==
  LET manifest == Manifest(checkout.lock, checkout.generation) IN
  /\ ~checkout.generating.present /\ checkout.generation < MaxGenerations
  /\ artifacts' = [artifacts EXCEPT !.sbom = manifest.sbom]
  /\ checkout' = [checkout EXCEPT !.generating = manifest.provenance, !.generation = @ + 1]

WriteProvenance ==
  /\ checkout.generating.present
  /\ artifacts' = [artifacts EXCEPT !.provenance = checkout.generating]
  /\ checkout' = [checkout EXCEPT !.generating = NoFile]

\* The process ends between the two files.
GenerateDies ==
  /\ checkout.generating.present
  /\ checkout' = [checkout EXCEPT !.generating = NoFile]
  /\ UNCHANGED artifacts

LockfileChanges ==
  /\ \E lock \in {"l1", "l2"} \ {checkout.lock} : checkout' = [checkout EXCEPT !.lock = lock]
  /\ UNCHANGED artifacts

(* --------------------------------- damage --------------------------------- *)

\* What may become of a file: not JSON, not the shape of a release artifact,
\* with a secret in it, or, the SBOM, other data than was generated.
SbomDefects == {"not_json", "not_cyclonedx", "no_components", "secret", "edited"}
ProvenanceDefects == {"not_json", "not_v1", "commit_not_sha", "no_lockfile", "no_toolchain",
                      "no_fingerprint", "other_fingerprint_version", "secret"}

\* What an edit puts in the place of a value, and no file has.
Edited == -1
EditedDigest == [at |-> Edited, components |-> {}]

\* A provenance that has lost its shape, or in which one value was edited to
\* another of the same shape.
Damaged(p) ==
  {[p EXCEPT !.defect = d] : d \in ProvenanceDefects \ {"no_lockfile"}}
    \cup {[p EXCEPT !.defect = "no_lockfile", !.lock = "none"],
          [p EXCEPT !.lock = "edited"], [p EXCEPT !.sbomDigest = EditedDigest],
          [p EXCEPT !.facts = Edited]}

FileIsDamaged ==
  /\ \/ /\ artifacts.sbom.present /\ artifacts.sbom.defect = "none"
        /\ \E d \in SbomDefects : artifacts' = [artifacts EXCEPT !.sbom.defect = d]
     \/ /\ artifacts.provenance.present /\ artifacts.provenance.defect = "none"
        /\ \E p \in Damaged(artifacts.provenance) : artifacts' = [artifacts EXCEPT !.provenance = p]
  /\ UNCHANGED checkout

(* ------------------------------ verification ------------------------------ *)

\* An SBOM that is not as it was written has another digest.
DigestOf(sbom) == IF sbom.defect = "none" THEN sbom.body ELSE [at |-> -2, components |-> {}]

\* Mutant: the shape and the lockfile only; the SBOM is not held against its
\* digest.
FailuresOfShape(files, lock) ==
  IF ~files.sbom.present \/ ~files.provenance.present THEN {"missing_artifact"}
  ELSE ({files.sbom.defect} \cap (SbomDefects \ {"edited"}))
         \cup ({files.provenance.defect} \cap ProvenanceDefects)
         \cup (IF files.provenance.lock = lock THEN {} ELSE {"lockfile_drift"})

\* verify: a missing file or one that is no JSON ends it; then every failure
\* is collected.  Of what the provenance says, two digests are compared with
\* what they are the digests of.
ReleaseFailures(files, lock) ==
  LET s == files.sbom
      p == files.provenance
  IN  IF ~s.present \/ ~p.present THEN {"missing_artifact"}
      ELSE IF "not_json" \in {s.defect, p.defect} THEN {"not_json"}
      ELSE ({s.defect} \cap (SbomDefects \ {"edited"}))
             \cup ({p.defect} \cap ProvenanceDefects)
             \cup (IF p.lock = lock THEN {} ELSE {"lockfile_drift"})
             \cup (IF p.sbomDigest = DigestOf(s) THEN {} ELSE {"artifact_drift"})

ReleaseNext == WriteSbom \/ WriteProvenance \/ GenerateDies \/ LockfileChanges \/ FileIsDamaged

(* ------------------------------- properties ------------------------------- *)

\* A release that verifies is one generation's: the SBOM is untouched, and it
\* and the provenance were written together for the lockfile that is checked
\* out now, though generations die between their files and the lockfile moves
\* on.  The facts the provenance states besides are the only thing that may
\* have been edited since.
ReleaseIsOfOneGeneration ==
  ReleaseFailures(artifacts, checkout.lock) = {} =>
    \E at \in 0..MaxGenerations :
      LET m == Manifest(checkout.lock, at) IN
      /\ artifacts.sbom = m.sbom
      /\ artifacts.provenance \in {m.provenance, [m.provenance EXCEPT !.facts = Edited]}
===============================================================================
