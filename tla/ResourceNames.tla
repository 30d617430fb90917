---------------------------- MODULE ResourceNames ----------------------------
(***************************************************************************)
(* core/src/scheduler/resource.ts: identity and intersection of declared   *)
(* names.  A spelling is what is between the separators, in order: "./a/"  *)
(* is <<".", "a", "">> and the empty string is <<"">>.  Other modules take *)
(* the relation as the constant Overlap; Planner_proofs shows that   *)
(* it has the two properties they assume.                                  *)
(***************************************************************************)
EXTENDS Integers, Sequences

CONSTANT Segments  \* what may stand between two separators

Empty == ""  \* between two separators that meet, before a leading one, after a trailing one

Patterns == {"*", "**"}

ASSUME SegmentsAssumption == {Empty, "."} \cup Patterns \subseteq Segments

Spellings == Seq(Segments) \ {<<>>}

Root == <<Empty>>

\* Some of the segments, in their order.
Picked(s, keep) ==
  LET f[i \in 0..Len(s)] ==
        IF i = 0 THEN <<>> ELSE IF i \in keep THEN Append(f[i - 1], s[i]) ELSE f[i - 1]
  IN f[Len(s)]

\* Duplicate separators go: an empty segment may only be the first or the last.
Collapsed(s) == Picked(s, {i \in DOMAIN s : s[i] # Empty \/ i \in {1, Len(s)}})

\* Mutant of Undotted: one "./" is taken off, not every one.
UndottedOnce(s) == IF Len(s) > 1 /\ s[1] = "." THEN Tail(s) ELSE s

\* Every leading "./" goes; a "." of its own stays.
Undotted(s) ==
  LET first == CHOOSE i \in 1..Len(s) :
                 /\ \A j \in 1..(i - 1) : s[j] = "."
                 /\ i = Len(s) \/ s[i] # "."
  IN SubSeq(s, first, Len(s))

WithoutLast(s) == SubSeq(s, 1, Len(s) - 1)

Trimmed(s) == IF Len(s) > 1 /\ s[Len(s)] = Empty THEN WithoutLast(s) ELSE s

NormalizeResource(s) == Trimmed(Undotted(Collapsed(s)))

\* The directory a pattern covers; both patterns are taken for the whole subtree.
IsPattern(s) == s[Len(s)] \in Patterns
GlobPrefix(s) == IF Len(s) = 1 THEN Root ELSE WithoutLast(s)

\* Mutant of IsUnder: the empty prefix covers nothing.
IsUnderNamed(child, parent) ==
  /\ Len(parent) <= Len(child)
  /\ SubSeq(child, 1, Len(parent)) = parent

IsUnder(child, parent) ==
  \/ parent = Root
  \/ /\ Len(parent) <= Len(child)
     /\ SubSeq(child, 1, Len(parent)) = parent

\* The part of a name that is compared: a pattern's directory or the path.
Reach(s) == IF IsPattern(s) THEN GlobPrefix(s) ELSE s

ResourcesIntersect(a, b) ==
  LET x == NormalizeResource(a)
      y == NormalizeResource(b)
  IN \/ x = y
     \/ (IsPattern(x) \/ ~IsPattern(y)) /\ IsUnder(Reach(y), Reach(x))
     \/ (IsPattern(y) \/ ~IsPattern(x)) /\ IsUnder(Reach(x), Reach(y))

SetsIntersect(as, bs) == \E a \in as, b \in bs : ResourcesIntersect(a, b)

\* canonicalSort is taken as the set it orders: the order is that of strings.
Canonical(names) == {NormalizeResource(s) : s \in names}

-----------------------------------------------------------------------------
\* What a spelling means to the file system: the path with its empty and dot
\* segments resolved, and everything below it.
Steps(s) ==
  LET names == IF IsPattern(s) THEN WithoutLast(s) ELSE s
  IN Picked(names, {i \in DOMAIN names : names[i] \notin {Empty, "."}})

Touches(s, file) ==
  /\ Len(Steps(s)) <= Len(file)
  /\ SubSeq(file, 1, Len(Steps(s))) = Steps(s)

\* Spellings of a path below the workspace whose dot segments all lead it.
\* ("." and "a/./b" are not in normal form and intersect too little: the
\* comment at resource.ts:12 wants one normal form for one path.)
Plain(s) ==
  /\ s[1] # Empty \/ Len(s) = 1
  /\ s[Len(s)] # "."
  /\ \A i \in 2..Len(s) : s[i] = "." => \A j \in 1..i : s[j] = "."

\* A directory and a pattern of one below it: the code compares a pattern with
\* what is below its own directory only.
Missed(a, b) ==
  LET x == NormalizeResource(a)
      y == NormalizeResource(b)
  IN ~IsPattern(x) /\ IsPattern(y) /\ Reach(y) # x /\ IsUnder(Reach(y), x)

=============================================================================
