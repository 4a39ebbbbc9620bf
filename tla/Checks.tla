-------------------------------- MODULE Checks --------------------------------
(***************************************************************************)
(* Validation as this code base writes it: a list of conditions in a fixed *)
(* order, each of which ends the validation with a failure of its own.     *)
(*                                                                         *)
(* A list is a sequence of pairs <<defect, verdict>>.  An input is         *)
(* abstracted to the set of its defects.                                   *)
(***************************************************************************)
EXTENDS Naturals, Sequences, FiniteSetsExt

Found(checks, defects) == {i \in DOMAIN checks : checks[i][1] \in defects}

\* The verdict of the first check the input fails, "ok" when it fails none.
FirstFailure(checks, defects) ==
  IF Found(checks, defects) = {} THEN "ok"
                                 ELSE checks[Min(Found(checks, defects))][2]

Defects(checks) == {checks[i][1] : i \in DOMAIN checks}

\* The inputs with no defect or one.
WithADefect(checks) == {{}} \cup {{d} : d \in Defects(checks)}
===============================================================================
