--------------------------- MODULE MCLockManager ---------------------------
(* A tree of resources and two runs that share one lock table. *)
EXTENDS LockManager

\* src contains src/a and src/b; docs stands apart.
MCResources == {"docs", "src", "src/a", "src/b"}
Covers == [r \in MCResources |-> IF r = "src" THEN {"src", "src/a", "src/b"} ELSE {r}]
MCOverlap == {p \in MCResources \X MCResources :
                Covers[p[1]] \cap Covers[p[2]] # {}}
MCRank == [r \in MCResources |-> CASE r = "docs" -> 1 [] r = "src" -> 2
                                   [] r = "src/a" -> 3 [] r = "src/b" -> 4]

\* Both planners call their first node n1: one owns the directory, the other the
\* directory and the docs.  n2 owns a file and reads another, n3 two resources
\* that straddle the order.
TwoRuns == {<<"run1", "n1">>, <<"run1", "n2">>, <<"run2", "n1">>, <<"run2", "n3">>}
NamesOfRuns == [o \in TwoRuns |-> o[2]]
WritesOfRuns == [o \in TwoRuns |->
                   CASE o = <<"run1", "n1">> -> {"src"}
                     [] o = <<"run1", "n2">> -> {"src/a"}
                     [] o = <<"run2", "n1">> -> {"docs", "src"}
                     [] o = <<"run2", "n3">> -> {"docs", "src/b"}]
ReadsOfRuns == [o \in TwoRuns |-> IF o[2] = "n2" THEN {"src/b"} ELSE {}]
=============================================================================
