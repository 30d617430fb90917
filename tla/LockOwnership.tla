--------------------------- MODULE LockOwnership ---------------------------
(***************************************************************************)
(* What the lock manager promises, without its table: an owner takes its   *)
(* whole write set in one step, only while no owner of another name has    *)
(* resources that overlap it, and gives everything back in one step.       *)
(* Owners of one name, nodes of different runs, are not told apart: when   *)
(* one claims, others of the name may lose all they own.                   *)
(***************************************************************************)
CONSTANTS Owners, NodeOf, Resources, Overlap, Writes

VARIABLE owned

Init == owned \in [Owners -> SUBSET Resources] /\ \A o \in Owners : owned[o] = {}

\* o has what it claimed, or nothing, and its namesakes in lost have nothing.
Claim(o, mine, lost) ==
  owned' = [p \in Owners |-> IF p = o THEN mine ELSE IF p \in lost THEN {} ELSE owned[p]]

Losers(o) == SUBSET {p \in Owners \ {o} : NodeOf[p] = NodeOf[o]}

Take(o) ==
  /\ \A p \in Owners :
       NodeOf[p] # NodeOf[o] =>
         \A r \in owned[p], w \in Writes[o] : <<r, w>> \notin Overlap
  /\ \E lost \in Losers(o) : Claim(o, Writes[o], lost)

Drop(o) == \E lost \in Losers(o) : Claim(o, {}, lost)

Next == \E o \in Owners : Take(o) \/ Drop(o)

Spec == Init /\ [][Next]_owned
=============================================================================
