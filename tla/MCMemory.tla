------------------------------ MODULE MCMemory ------------------------------
(* Small files for the memory: declarations with braces, prose, blanks. *)
EXTENDS Memory

Line(name, braces) == [declares |-> name, braces |-> braces, blank |-> FALSE]
Blank == [declares |-> NoSymbol, braces |-> <<>>, blank |-> TRUE]
Open == Line("f", <<"{">>)
Close == Line(NoSymbol, <<"}">>)
Whole == Line("g", <<"{", "}">>)
Note == Line(NoSymbol, <<>>)

TwoDeclarations == <<Open, Close, Whole>>
Shortened == <<Whole, Blank, Note>>
SmallContents == {TwoDeclarations, Shortened}

\* Every file of up to four lines is cut without a loss, as code and as prose.
AllLines == {Open, Close, Whole, Note, Blank, Line("f", <<>>), Line(NoSymbol, <<"}", "{">>), Line("g", <<"}", "}">>)}
ASSUME NothingIsLost ==
  \A n \in 1..4 : \A content \in [1..n -> AllLines] : \A source \in {"a.ts", "a.md"} :
    CoversEveryLine(source, content) /\ CutsCodeOnce(source, content)
=============================================================================
