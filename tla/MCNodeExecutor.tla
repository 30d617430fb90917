--------------------------- MODULE MCNodeExecutor ---------------------------
(***************************************************************************)
(* A coder that must change the source file and declares the directory as  *)
(* its reads, beside a node that may write a note in that directory.       *)
(***************************************************************************)
EXTENDS NodeExecutor

CONSTANTS coder, scribe, code, note, dir

MCWrites == [n \in Nodes |-> IF n = coder THEN {code} ELSE {note}]
MCReads == [n \in Nodes |-> IF n = coder THEN {dir} ELSE {note}]
MCOverlap == {<<r, r>> : r \in Resources} \cup {<<dir, f>> : f \in Files} \cup {<<f, dir>> : f \in Files}

\* The hypothesis of two theorems about any names holds of these.
ASSUME NotesApart == NotesMeetNoSource
=============================================================================
