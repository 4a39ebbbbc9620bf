---------------------------- MODULE EvidenceExport ----------------------------
(***************************************************************************)
(* lib/export: the evidence of a time range is written to a directory,     *)
(* member after member and page after page while rows are still being      *)
(* inserted, then described by a manifest; verifyExportPackage says        *)
(* whether a directory is a whole export.                                  *)
(*                                                                         *)
(* A digest is modelled by what it is the digest of.  Rows are numbered in *)
(* the order of their ids, which is not that of their insertion.           *)
(***************************************************************************)
EXTENDS Checks, SequencesExt

CONSTANTS
  MaxRow,       \* the ids of rows are 1..MaxRow
  PageSize,
  MaxExports

ASSUME EvidenceExportAssumption == MaxRow \in Nat /\ PageSize \in Nat \ {0} /\ MaxExports \in Nat

VARIABLES
  rows,         \* the rows of the table that lie in the range
  export,       \* the export that runs
  package       \* the directory: member -> content, and the manifest

exportVars == <<rows, export, package>>

Members == <<"registry.json", "rate-snapshots.ndjson", "reputation-scores.ndjson">>
Streams == {Members[i] : i \in 2..Len(Members)}
MemberSet == {Members[i] : i \in DOMAIN Members}

None == [present |-> FALSE, content |-> <<>>, damaged |-> FALSE]
Written(content) == [present |-> TRUE, content |-> content, damaged |-> FALSE]
NoManifest == [present |-> FALSE, entries |-> [m \in MemberSet |-> None], damaged |-> FALSE,
               before |-> {}]

Idle(count, result) ==
  [pc |-> "idle", count |-> count, member |-> 1, cursor |-> 0,
   before |-> {}, written |-> <<>>, result |-> result]
Ended(result) == Idle(export.count, result)

ExportInit ==
  /\ rows \in SUBSET (1..MaxRow)
  /\ export = Idle(0, "none")
  /\ package = [members |-> [m \in MemberSet |-> None], manifest |-> NoManifest]

SelectionChecks == <<
  <<"range_not_a_range", "INVALID_SELECTION">>, <<"slug_malformed", "INVALID_SELECTION">>,
  <<"no_slugs", "INVALID_SELECTION">>, <<"exporter_unnamed", "INVALID_SELECTION">>,
  <<"registry_secret", "SECRET_DETECTED">>, <<"directory_unusable", "IO_ERROR">> >>

\* Another process inserts a row with an id of its own choice.
InsertRow ==
  /\ \E id \in 1..MaxRow : rows' = rows \cup {id}
  /\ rows' # rows
  /\ UNCHANGED <<export, package>>

\* exportEvidence up to its first member: the selection, the directory, the
\* registry, which must be safe to export.
StartExport ==
  /\ export.pc = "idle" /\ export.count < MaxExports
  /\ \E defects \in WithADefect(SelectionChecks) :
       LET verdict == FirstFailure(SelectionChecks, defects) IN
       IF verdict # "ok"
       THEN /\ export' = Idle(export.count + 1, verdict)
            /\ UNCHANGED package
       ELSE /\ export' = [export EXCEPT !.pc = "opening", !.count = @ + 1, !.member = 2,
                                        !.cursor = 0, !.before = rows, !.result = "none",
                                        !.written = << Written(<<export.count>>) >>]
            /\ package' = [package EXCEPT !.members["registry.json"] = Written(<<export.count>>)]
  /\ UNCHANGED rows

\* writeNdjsonMember opens its file, which empties it.
OpenMember ==
  /\ export.pc = "opening"
  /\ export' = [export EXCEPT !.pc = "reading", !.cursor = 0,
                              !.written = Append(@, Written(<<>>))]
  /\ package' = [package EXCEPT !.members[Members[export.member]] = Written(<<>>)]
  /\ UNCHANGED rows

\* The first of the ids, in order: all of them when they fit on a page.
FirstOf(ids) ==
  {page \in BoundedSeq(ids, PageSize) :
     /\ \A i, j \in DOMAIN page : i < j => page[i] < page[j]
     /\ \A id \in ids \ ToSet(page) : Len(page) = PageSize /\ \A i \in DOMAIN page : page[i] < id}

\* Mutant: the cursor is not left out of the next page.
PagesAgain(table, cursor) == FirstOf({id \in table : id >= cursor})

\* The page that follows the row with id `cursor`, in the order of the ids.
Pages(table, cursor) == FirstOf({id \in table : id > cursor})

\* One query of the generator and the lines of its rows; a short page is the
\* last one.
ReadPage ==
  \E page \in Pages(rows, export.cursor) :
    LET member == Members[export.member]
        content == export.written[export.member].content \o page
        last == Len(page) < PageSize
    IN  /\ export.pc = "reading"
        /\ export' = [export EXCEPT
                        !.written[export.member] = Written(content),
                        !.cursor = IF page = <<>> THEN @ ELSE page[Len(page)],
                        !.member = IF last THEN @ + 1 ELSE @,
                        !.pc = CASE ~last -> "reading"
                                 [] last /\ export.member = Len(Members) -> "manifest"
                                 [] last /\ export.member # Len(Members) -> "opening"]
        /\ package' = [package EXCEPT !.members[member] = Written(content)]
        /\ UNCHANGED rows

\* The manifest comes last, once its provenance is safe to export.
WriteManifest ==
  /\ export.pc = "manifest"
  /\ package' = [package EXCEPT !.manifest =
                   [present |-> TRUE, damaged |-> FALSE, before |-> export.before,
                    entries |-> [m \in MemberSet |->
                       export.written[CHOOSE i \in DOMAIN Members : Members[i] = m]]]]
  /\ export' = Ended("ok")
  /\ UNCHANGED rows

\* A row or the provenance with a secret in it, a page that cannot be read, a
\* line that cannot be written, a process that dies: what was written stays.
ExportFails ==
  /\ export.pc \in {"opening", "reading", "manifest"}
  /\ \E code \in {"SECRET_DETECTED", "IO_ERROR", "died"} :
       export' = Ended(code)
  /\ UNCHANGED <<rows, package>>

\* A file is lost, or its bytes change, the manifest's included.
Damage ==
  /\ export.pc = "idle" /\ export.count = MaxExports
  /\ \/ \E m \in MemberSet, lost \in BOOLEAN :
          /\ package.members[m].present /\ ~package.members[m].damaged
          /\ package' = [package EXCEPT !.members[m] =
                           IF lost THEN None ELSE [@ EXCEPT !.damaged = TRUE]]
     \/ /\ package.manifest.present /\ ~package.manifest.damaged
        /\ package' = [package EXCEPT !.manifest.damaged = TRUE]
  /\ UNCHANGED <<rows, export>>

\* verifyExportPackage: the manifest and its root hash, then member by member
\* its digest, its length and the number of its records.
ManifestChecks(manifest) == <<
  <<~manifest.present, "MISSING_MEMBER">>,
  <<manifest.damaged, "CORRUPTED_DATA">> >>

MemberChecks(manifest, member, m) == <<
  <<~member.present, "MISSING_MEMBER">>,
  <<member.damaged \/ member # manifest.entries[m], "CORRUPTED_DATA">> >>

VerdictOn(manifest, members) ==
  LET listed == FirstFailure(ManifestChecks(manifest), {TRUE})
      verdict(i) == FirstFailure(MemberChecks(manifest, members[Members[i]], Members[i]), {TRUE})
      bad == {i \in DOMAIN Members : verdict(i) # "ok"}
  IN  CASE listed # "ok" -> listed
        [] listed = "ok" /\ bad # {} -> verdict(Min(bad))
        [] listed = "ok" /\ bad = {} -> "ok"

ExportNext ==
  \/ InsertRow \/ StartExport \/ OpenMember \/ ReadPage \/ WriteManifest
  \/ ExportFails \/ Damage

(* ------------------------------- properties ------------------------------- *)

\* A package that verifies is one whole export: the members on the disk are
\* those its manifest was written over, none of an export that came later or
\* died, and each stream holds every row that was there when the export
\* began and no row twice, whatever was inserted while its pages were read.
ExportIsWhole ==
  VerdictOn(package.manifest, package.members) = "ok" =>
    /\ package.members = package.manifest.entries
    /\ \A m \in Streams :
         LET content == package.members[m].content IN
         /\ IsInjective(content)
         /\ package.manifest.before \subseteq ToSet(content)
         /\ ToSet(content) \subseteq rows
===============================================================================
