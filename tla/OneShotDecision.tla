-------------------------- MODULE OneShotDecision --------------------------
(***************************************************************************)
(* What an approval gate promises: each request is decided once, for good, *)
(* and is granted only if somebody said yes to it.                         *)
(***************************************************************************)
CONSTANT Requests

VARIABLES
  verdict,  \* "unasked", "waiting", "granted" or "denied"
  yes       \* the requests somebody said yes to

vars == <<verdict, yes>>

Init == verdict = [r \in Requests |-> "unasked"] /\ yes = {}

Ask(r) ==
  /\ verdict[r] = "unasked"
  /\ verdict' = [verdict EXCEPT ![r] = "waiting"]
  /\ UNCHANGED yes

SayYes(r) == yes' = yes \cup {r} /\ UNCHANGED verdict

Grant(r) ==
  /\ verdict[r] = "waiting" /\ r \in yes
  /\ verdict' = [verdict EXCEPT ![r] = "granted"]
  /\ UNCHANGED yes

\* A request nobody could hear is denied at once.
Deny(r) ==
  /\ verdict[r] \in {"unasked", "waiting"}
  /\ verdict' = [verdict EXCEPT ![r] = "denied"]
  /\ UNCHANGED yes

Next == \E r \in Requests : Ask(r) \/ SayYes(r) \/ Grant(r) \/ Deny(r)

Spec == Init /\ [][Next]_vars
=============================================================================
