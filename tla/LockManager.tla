---------------------------- MODULE LockManager ----------------------------
(***************************************************************************)
(* core/src/scheduler/locks.ts driven by the calls a supervisor makes:     *)
(* several runs of one workspace share the table, each owner (a node of a  *)
(* run) acquires, works, releases, parks, is resumed or denied, and may be *)
(* abandoned by a cancelled run or a dead process with its rows in place.  *)
(***************************************************************************)
EXTENDS LockTable

VARIABLES
  locks,  \* the table
  phase,  \* what each owner is doing, as its supervisor sees it
  robbed  \* history: owners that lost a row to another's acquire, and have not
          \* been granted their set since

lockVars == <<locks, phase, robbed>>

Phases == {"idle", "working", "parked", "resumed", "over"}

LocksInit ==
  /\ locks = [r \in Resources |-> Free]
  /\ phase = [o \in Owners |-> "idle"]
  /\ robbed = {}

\* acquire, granted or refused.  A refused owner goes back to the queue.  Both
\* overwrite or delete the rows that a namesake of another run has in the way.
TryAcquire(o) ==
  /\ phase[o] \in {"idle", "resumed"}
  /\ locks' = Acquire(locks, o)
  /\ phase' = [phase EXCEPT ![o] = IF CanAcquire(locks, o) THEN "working" ELSE "idle"]
  /\ robbed' = (IF CanAcquire(locks, o) THEN robbed \ {o} ELSE robbed)
                 \cup {p \in Owners \ {o} : HeldBy(locks', p) # HeldBy(locks, p)}

\* done, retried, rejected by review or rolled back: all call release.
Finish(o) ==
  /\ phase[o] = "working"
  /\ locks' = Release(locks, o)
  /\ \E next \in {"idle", "over"} : phase' = [phase EXCEPT ![o] = next]
  /\ UNCHANGED robbed

Escalate(o) ==
  /\ phase[o] = "working"
  /\ locks' = Park(locks, o)
  /\ phase' = [phase EXCEPT ![o] = "parked"]
  /\ UNCHANGED robbed

\* Mutant of Grant: the phase gets the name of the node's status.
GrantAsReady(o) ==
  /\ phase[o] = "parked"
  /\ locks' = Unpark(locks, o)
  /\ phase' = [phase EXCEPT ![o] = "ready"]
  /\ UNCHANGED robbed

Grant(o) ==
  /\ phase[o] = "parked"
  /\ locks' = Unpark(locks, o)
  /\ phase' = [phase EXCEPT ![o] = "resumed"]
  /\ UNCHANGED robbed

Deny(o) ==
  /\ phase[o] = "parked"
  /\ locks' = ForceRelease(locks, o)
  /\ phase' = [phase EXCEPT ![o] = "over"]
  /\ UNCHANGED robbed

\* Cancelled is rethrown without a release; a dead process releases nothing.
Abandon(o) ==
  /\ phase[o] # "over"
  /\ phase' = [phase EXCEPT ![o] = "over"]
  /\ UNCHANGED <<locks, robbed>>

LocksNext ==
  \E o \in Owners :
    \/ TryAcquire(o) \/ Finish(o) \/ Escalate(o)
    \/ Grant(o) \/ Deny(o) \/ Abandon(o)

LocksSpec == LocksInit /\ [][LocksNext]_lockVars

-----------------------------------------------------------------------------
TypeOK ==
  /\ locks \in Tables
  /\ phase \in [Owners -> Phases]
  /\ robbed \in SUBSET Owners

\* Two rows that intersect belong to the same node name, whatever calls were
\* made and by how many runs: findConflict never lets a second name in.
WriteExclusion == Excludes(locks)

\* An owner has rows of its own write set only.  Unless a namesake of another run
\* took one, it has the whole set while it works, is parked or was resumed, and
\* nothing while it is idle: no partial hold survives a refused acquire (locks.ts,
\* "partial holds are exactly what re-introduces hold-and-wait").
WholeSetOrNothing ==
  \A o \in Owners :
    /\ HeldBy(locks, o) \subseteq Writes[o]
    /\ o \notin robbed =>
         /\ phase[o] \in {"working", "parked", "resumed"} => HeldBy(locks, o) = Writes[o]
         /\ phase[o] = "idle" => HeldBy(locks, o) = {}

\* The rows of a parked owner, and only those of a parked or abandoned one,
\* carry the parked flag, so release cannot take them away (F5).
ParkedRowsMatch ==
  \A r \in Resources :
    locks[r].owner # NoOwner =>
      /\ phase[locks[r].owner] = "parked" => locks[r].parked
      /\ locks[r].parked => phase[locks[r].owner] \in {"parked", "over"}

\* A parked owner's rows outlive every step of every other owner but one: only
\* the acquire of a namesake, a node of another run that bears the same id, takes
\* rows from an owner that stays parked (F5, "we retain the locks").
ParkedRetained ==
  [][\A o \in Owners :
       phase[o] = "parked" /\ phase'[o] = "parked" =>
         \/ HeldBy(locks', o) = HeldBy(locks, o)
         \/ \E p \in Namesakes(o) : locks' = Acquire(locks, p)]_lockVars

\* No owner ever loses a row to another.  Not so where runs share node ids.
NobodyIsRobbed == robbed = {}

\* The lock manager implements whole-set ownership, in which an owner that lost a
\* row owns nothing.
Ownership == INSTANCE LockOwnership
  WITH owned <- [o \in Owners |-> IF o \in robbed THEN {} ELSE HeldBy(locks, o)]
ImplementsOwnership == Ownership!Spec
=============================================================================
