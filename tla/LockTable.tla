----------------------------- MODULE LockTable -----------------------------
(***************************************************************************)
(* The `locks` table of the workspace database and the operations that     *)
(* core/src/scheduler/locks.ts performs on it, as functions from one table *)
(* to the next.  Every operation is one SQLite transaction issued from     *)
(* single-threaded code, so each is atomic.                                *)
(*                                                                         *)
(* A table maps each resource to its row.  `resource` is the table's       *)
(* primary key, so a resource has at most one row.                         *)
(***************************************************************************)
EXTENDS Naturals

CONSTANTS
  Owners,     \* the (run, node) pairs that may own rows
  NodeOf,     \* NodeOf[o] is the node_id column of owner o
  NoOwner,    \* not an owner: the resource has no row
  Resources,  \* normalised resource names
  Overlap,    \* the pairs on which resourcesIntersect is true
  Rank,       \* the canonical total order on resources
  Writes,     \* Writes[o]: the write set the plan gives o
  Reads       \* Reads[o]: the read set the plan gives o

ASSUME LockAssumption ==
  /\ NoOwner \notin Owners
  /\ Overlap \subseteq Resources \X Resources
  /\ \A r \in Resources : <<r, r>> \in Overlap
  /\ \A r, s \in Resources : <<r, s>> \in Overlap => <<s, r>> \in Overlap
  /\ Rank \in [Resources -> Nat]
  /\ \A r, s \in Resources : Rank[r] = Rank[s] => r = s
  /\ Writes \in [Owners -> SUBSET Resources]
  /\ Reads \in [Owners -> SUBSET Resources]

Row == [owner : Owners \cup {NoOwner}, parked : BOOLEAN]
Free == [owner |-> NoOwner, parked |-> FALSE]
Tables == [Resources -> Row]

HeldBy(t, o) == {r \in Resources : t[r].owner = o}

\* Mutants of FindConflict: equal names only; parked rows do not count.
FindConflictByName(t, r, o) ==
  {h \in Resources : h = r /\ t[h].owner # NoOwner /\ NodeOf[t[h].owner] # NodeOf[o]}

FindConflictUnparked(t, r, o) ==
  {h \in Resources : /\ t[h].owner # NoOwner /\ ~t[h].parked
                     /\ NodeOf[t[h].owner] # NodeOf[o]
                     /\ <<h, r>> \in Overlap}

\* findConflict: the rows of other nodes that intersect r.  The code compares
\* node_id only; the run a row belongs to plays no part.
FindConflict(t, r, o) ==
  {h \in Resources : /\ t[h].owner # NoOwner
                     /\ NodeOf[t[h].owner] # NodeOf[o]
                     /\ <<h, r>> \in Overlap}

Contended(t, o, claim) == {r \in claim : FindConflict(t, r, o) # {}}

\* Mutant of CanAcquire: the writes are not looked at.
CanRead(t, o) == Contended(t, o, Reads[o]) = {}

CanAcquire(t, o) == Contended(t, o, Writes[o] \cup Reads[o]) = {}

\* What acquire has inserted when it meets its first conflict: the writes that
\* come before it in canonical order, or all of them when only a read conflicts.
Taken(t, o) ==
  {w \in Writes[o] : \A c \in Contended(t, o, Writes[o]) : Rank[w] < Rank[c]}

\* Mutant of Acquire: a refused claim keeps what it took before the conflict.
AcquireKeepingPart(t, o) ==
  [r \in Resources |->
     IF r \in (IF CanAcquire(t, o) THEN Writes[o] ELSE Taken(t, o))
     THEN [owner |-> o, parked |-> FALSE] ELSE t[r]]

Acquire(t, o) ==
  IF CanAcquire(t, o)
  THEN [r \in Resources |-> IF r \in Writes[o]
                            THEN [owner |-> o, parked |-> FALSE] ELSE t[r]]
  ELSE [r \in Resources |-> IF r \in Taken(t, o) THEN Free ELSE t[r]]

\* release skips parked rows.
Release(t, o) ==
  [r \in Resources |-> IF t[r].owner = o /\ ~t[r].parked THEN Free ELSE t[r]]

\* Mutant of Park: the original flow gives the rows back (F5).
ParkReleasing(t, o) ==
  [r \in Resources |-> IF t[r].owner = o THEN Free ELSE t[r]]

Park(t, o) ==
  [r \in Resources |-> IF t[r].owner = o
                       THEN [owner |-> o, parked |-> TRUE] ELSE t[r]]

\* Mutant of Unpark: the flag stays.
UnparkNothing(t, o) == t

Unpark(t, o) ==
  [r \in Resources |-> IF t[r].owner = o
                       THEN [owner |-> o, parked |-> FALSE] ELSE t[r]]

ForceRelease(t, o) ==
  [r \in Resources |-> IF t[r].owner = o THEN Free ELSE t[r]]

\* No two rows that intersect belong to different node names.
Excludes(t) ==
  \A r, s \in Resources :
    (/\ t[r].owner # NoOwner
     /\ t[s].owner # NoOwner
     /\ <<r, s>> \in Overlap)
    => NodeOf[t[r].owner] = NodeOf[t[s].owner]

\* The owners of other runs that bear the node id of o.
Namesakes(o) == {p \in Owners \ {o} : NodeOf[p] = NodeOf[o]}
=============================================================================
