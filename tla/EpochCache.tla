----------------------------- MODULE EpochCache -----------------------------
(***************************************************************************)
(* core/src/cache/epoch.ts: tool results keyed by the epochs of resources. *)
(* Both tables are partial functions: a resource without a row has epoch 0 *)
(* but cannot be found by a bump.  The executor gives no time to live, so  *)
(* an entry never expires: it only becomes unreachable.                    *)
(***************************************************************************)
EXTENDS Naturals

CONSTANTS
  Resources,  \* declared names: files, directories and patterns
  Files,      \* the names that are files
  Overlap     \* pairs of names that resourcesIntersect holds of

ASSUME NamesAssumption ==
  /\ Files \subseteq Resources /\ Files # {}
  /\ Overlap \subseteq Resources \X Resources
  /\ \A r \in Resources : <<r, r>> \in Overlap
  /\ \A r, s \in Resources : <<r, s>> \in Overlap => <<s, r>> \in Overlap

Meets(rs, r) == \E s \in rs : <<s, r>> \in Overlap

EpochOf(epochs, r) == IF r \in DOMAIN epochs THEN epochs[r] ELSE 0

\* Mutant of BumpSet: only the written names, as if equality were enough.
NamedOnly(epochs, written) == written

\* What a write moves on: its own names, and every known one they intersect.
BumpSet(epochs, written) == written \cup {k \in DOMAIN epochs : Meets(written, k)}

Bump(epochs, written) ==
  LET bumped == BumpSet(epochs, written)
  IN [r \in DOMAIN epochs \cup bumped |->
        IF r \in bumped THEN EpochOf(epochs, r) + 1 ELSE epochs[r]]

\* A name in a key must have a row, or bump would not find it.
Register(epochs, reads) == [r \in DOMAIN epochs \cup reads |-> EpochOf(epochs, r)]

Key(epochs, file, reads) == [file |-> file, at |-> [r \in reads |-> EpochOf(epochs, r)]]

Has(cache, key) == key \in DOMAIN cache

Store(cache, key, result) ==
  [k \in DOMAIN cache \cup {key} |-> IF k = key THEN result ELSE cache[k]]
=============================================================================
