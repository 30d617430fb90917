-------------------------- MODULE LockTable_proofs --------------------------
(***************************************************************************)
(* What the operations on the lock table preserve, for every table: the    *)
(* lemmas that the proofs about the lock manager and the run supervisor    *)
(* rest on.                                                                *)
(***************************************************************************)
EXTENDS LockTable, TLAPS

-----------------------------------------------------------------------------
(* Every operation maps a table to a table. *)
LEMMA OperationsTyped ==
  ASSUME NEW t \in Tables, NEW o \in Owners
  PROVE  /\ Acquire(t, o) \in Tables
         /\ Release(t, o) \in Tables
         /\ Park(t, o) \in Tables
         /\ Unpark(t, o) \in Tables
         /\ ForceRelease(t, o) \in Tables
<1>1. Free \in Row
  BY DEF Free, Row
<1>2. [owner |-> o, parked |-> TRUE] \in Row /\ [owner |-> o, parked |-> FALSE] \in Row
  BY DEF Row
<1>3. \A r \in Resources : t[r] \in Row
  BY DEF Tables
<1> QED
  BY <1>1, <1>2, <1>3 DEF Tables, Acquire, Release, Park, Unpark, ForceRelease

(* acquire keeps rows of different node names disjoint: a granted claim met no *)
(* intersecting row of another name, and a refused one only deletes rows. *)
LEMMA AcquireExcludes ==
  ASSUME NEW t \in Tables, NEW o \in Owners, Excludes(t)
  PROVE  Excludes(Acquire(t, o))
<1> DEFINE u == Acquire(t, o)
<1> SUFFICES ASSUME NEW r \in Resources, NEW s \in Resources,
                    u[r].owner # NoOwner, u[s].owner # NoOwner, <<r, s>> \in Overlap
             PROVE  NodeOf[u[r].owner] = NodeOf[u[s].owner]
  BY DEF Excludes
<1>1. CASE CanAcquire(t, o)
  <2>1. \A x \in Resources :
          u[x] = IF x \in Writes[o] THEN [owner |-> o, parked |-> FALSE] ELSE t[x]
    BY <1>1 DEF Acquire
  <2>2. \A w \in Writes[o], h \in Resources :
          t[h].owner # NoOwner /\ <<h, w>> \in Overlap => NodeOf[t[h].owner] = NodeOf[o]
    BY <1>1, LockAssumption DEF CanAcquire, Contended, FindConflict
  <2>3. <<s, r>> \in Overlap
    BY LockAssumption
  <2>4. CASE r \in Writes[o] /\ s \in Writes[o]
    BY <2>1, <2>4
  <2>5. CASE r \in Writes[o] /\ s \notin Writes[o]
    BY <2>1, <2>2, <2>3, <2>5
  <2>6. CASE r \notin Writes[o] /\ s \in Writes[o]
    BY <2>1, <2>2, <2>6
  <2>7. CASE r \notin Writes[o] /\ s \notin Writes[o]
    BY <2>1, <2>7 DEF Excludes
  <2> QED
    BY <2>4, <2>5, <2>6, <2>7
<1>2. CASE ~CanAcquire(t, o)
  <2>1. \A x \in Resources : u[x] = IF x \in Taken(t, o) THEN Free ELSE t[x]
    BY <1>2 DEF Acquire
  <2>2. u[r] = t[r] /\ u[s] = t[s]
    BY <2>1 DEF Free
  <2> QED
    BY <2>2 DEF Excludes
<1> QED
  BY <1>1, <1>2

(* The other operations leave each row's owner as it is or delete the row. *)
LEMMA OthersExclude ==
  ASSUME NEW t \in Tables, NEW o \in Owners, Excludes(t)
  PROVE  /\ Excludes(Release(t, o))
         /\ Excludes(Park(t, o))
         /\ Excludes(Unpark(t, o))
         /\ Excludes(ForceRelease(t, o))
<1>1. ASSUME NEW u, \A r \in Resources : u[r].owner \in {t[r].owner, NoOwner}
      PROVE  Excludes(u)
  <2> SUFFICES ASSUME NEW r \in Resources, NEW s \in Resources,
                      u[r].owner # NoOwner, u[s].owner # NoOwner, <<r, s>> \in Overlap
               PROVE  NodeOf[u[r].owner] = NodeOf[u[s].owner]
    BY DEF Excludes
  <2>1. u[r].owner = t[r].owner /\ u[s].owner = t[s].owner
    BY <1>1
  <2> QED
    BY <2>1 DEF Excludes
<1>2. \A r \in Resources : Release(t, o)[r].owner \in {t[r].owner, NoOwner}
  BY DEF Release, Free
<1>3. \A r \in Resources : Park(t, o)[r].owner \in {t[r].owner, NoOwner}
  BY DEF Park
<1>4. \A r \in Resources : Unpark(t, o)[r].owner \in {t[r].owner, NoOwner}
  BY DEF Unpark
<1>5. \A r \in Resources : ForceRelease(t, o)[r].owner \in {t[r].owner, NoOwner}
  BY DEF ForceRelease, Free
<1> QED
  BY <1>1, <1>2, <1>3, <1>4, <1>5

-----------------------------------------------------------------------------
(* A row no other owner contends for belongs to the claimant, to a namesake or *)
(* to nobody. *)
LEMMA UncontendedRow ==
  ASSUME NEW t \in Tables, NEW o \in Owners, NEW claim \in SUBSET Resources,
         NEW w \in claim, w \notin Contended(t, o, claim)
  PROVE  t[w].owner = NoOwner \/ NodeOf[t[w].owner] = NodeOf[o]
<1>1. <<w, w>> \in Overlap
  BY LockAssumption
<1>2. w \notin FindConflict(t, w, o)
  BY DEF Contended
<1> QED
  BY <1>1, <1>2 DEF FindConflict

(* acquire never touches a row of an owner with another name. *)
LEMMA AcquireSparesOthers ==
  ASSUME NEW t \in Tables, NEW o \in Owners, NEW p \in Owners, NodeOf[p] # NodeOf[o]
  PROVE  /\ HeldBy(Acquire(t, o), p) = HeldBy(t, p)
         /\ \A r \in HeldBy(t, p) : Acquire(t, o)[r] = t[r]
<1> DEFINE u == Acquire(t, o)
<1>1. Writes[o] \in SUBSET Resources /\ Reads[o] \in SUBSET Resources /\ NoOwner \notin Owners
  BY LockAssumption
<1>2. CASE CanAcquire(t, o)
  <2>1. \A x \in Resources :
          u[x] = IF x \in Writes[o] THEN [owner |-> o, parked |-> FALSE] ELSE t[x]
    BY <1>2 DEF Acquire
  <2>2. \A w \in Writes[o] : t[w].owner # p
    BY <1>1, <1>2, UncontendedRow DEF CanAcquire
  <2> QED
    BY <1>1, <2>1, <2>2 DEF HeldBy
<1>3. CASE ~CanAcquire(t, o)
  <2>1. \A x \in Resources : u[x] = IF x \in Taken(t, o) THEN Free ELSE t[x]
    BY <1>3 DEF Acquire
  <2>2. \A w \in Taken(t, o) : w \in Writes[o] /\ w \notin Contended(t, o, Writes[o])
    <3> SUFFICES ASSUME NEW w \in Taken(t, o), w \in Contended(t, o, Writes[o]) PROVE FALSE
      BY DEF Taken
    <3>1. Rank[w] < Rank[w] /\ Rank[w] \in Nat
      BY <1>1, LockAssumption DEF Taken, Contended
    <3> QED
      BY <3>1
  <2>3. \A w \in Taken(t, o) : t[w].owner # p
    BY <1>1, <2>2, UncontendedRow
  <2> QED
    BY <1>1, <2>1, <2>3 DEF HeldBy, Free
<1> QED
  BY <1>2, <1>3

(* No claim gives another owner a row, and none that a namesake keeps is changed. *)
LEMMA AcquireGivesNobody ==
  ASSUME NEW t \in Tables, NEW o \in Owners, NEW p \in Owners, p # o
  PROVE  /\ HeldBy(Acquire(t, o), p) \subseteq HeldBy(t, p)
         /\ \A r \in HeldBy(Acquire(t, o), p) : Acquire(t, o)[r] = t[r]
BY LockAssumption DEF HeldBy, Acquire, Free

(* A granted acquire leaves its owner exactly the write set; a refused one *)
(* leaves nothing, provided the owner held all of its set or none of it. *)
LEMMA AcquireIsAllOrNothing ==
  ASSUME NEW t \in Tables, NEW o \in Owners, Excludes(t), HeldBy(t, o) \subseteq Writes[o]
  PROVE  /\ CanAcquire(t, o) => HeldBy(Acquire(t, o), o) = Writes[o]
         /\ ~CanAcquire(t, o) /\ HeldBy(t, o) \in {{}, Writes[o]}
              => HeldBy(Acquire(t, o), o) = {}
         /\ HeldBy(Acquire(t, o), o) \subseteq Writes[o]
<1> DEFINE u == Acquire(t, o)
<1>1. Writes[o] \in SUBSET Resources /\ NoOwner \notin Owners
  BY LockAssumption
<1>2. CASE CanAcquire(t, o)
  <2>1. \A x \in Resources :
          u[x] = IF x \in Writes[o] THEN [owner |-> o, parked |-> FALSE] ELSE t[x]
    BY <1>2 DEF Acquire
  <2> QED
    BY <1>1, <1>2, <2>1 DEF HeldBy
<1>3. CASE ~CanAcquire(t, o)
  <2>1. \A x \in Resources : u[x] = IF x \in Taken(t, o) THEN Free ELSE t[x]
    BY <1>3 DEF Acquire
  <2>2. HeldBy(u, o) \subseteq HeldBy(t, o)
    BY <1>1, <2>1 DEF HeldBy, Free
  <2>3. CASE HeldBy(t, o) = Writes[o]
    <3>1. ASSUME NEW w \in Writes[o], NEW h \in Resources,
                 t[h].owner # NoOwner, <<h, w>> \in Overlap
          PROVE  NodeOf[t[h].owner] = NodeOf[o]
      BY <1>1, <2>3, <3>1 DEF HeldBy, Excludes
    <3>2. Contended(t, o, Writes[o]) = {}
      BY <3>1 DEF Contended, FindConflict
    <3>3. Taken(t, o) = Writes[o]
      BY <3>2 DEF Taken
    <3> QED
      BY <1>1, <1>3, <2>1, <2>3, <3>3 DEF HeldBy, Free
  <2> QED
    BY <1>3, <2>2, <2>3
<1> QED
  BY <1>2, <1>3

(* The other operations touch only their owner's rows. *)
LEMMA OthersSpareOthers ==
  ASSUME NEW t \in Tables, NEW o \in Owners, NEW p \in Owners, p # o,
         NEW u \in {Release(t, o), Park(t, o), Unpark(t, o), ForceRelease(t, o)}
  PROVE  /\ HeldBy(u, p) = HeldBy(t, p)
         /\ \A r \in HeldBy(t, p) : u[r] = t[r]
<1>1. NoOwner \notin Owners
  BY LockAssumption
<1> QED
  BY <1>1 DEF HeldBy, Release, Park, Unpark, ForceRelease, Free
=============================================================================
