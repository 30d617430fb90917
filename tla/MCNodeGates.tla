---------------------------- MODULE MCNodeGates -----------------------------
(***************************************************************************)
(* A coder that must change the source file, what its model is told, and   *)
(* its gates: the type check failed before, the tests passed.              *)
(***************************************************************************)
EXTENDS NodeGates

CONSTANTS coder, code, note, dir, oldLine, newLine

MCWrites == [n \in Nodes |-> {code, note}]
MCReads == [n \in Nodes |-> {dir}]
MCOverlap == {<<r, r>> : r \in Resources} \cup {<<dir, f>> : f \in Files} \cup {<<f, dir>> : f \in Files}

MCScripts == <<"typecheck", "unit">>
MCSurveyed == [s \in {"typecheck", "unit"} |->
  IF s = "unit" THEN Result(s, TRUE, {}) ELSE Result(s, FALSE, {oldLine})]

\* The hypothesis of two theorems about any names holds of these.
ASSUME NotesApart == NotesMeetNoSource
=============================================================================
