------------------------------- MODULE MCDesk -------------------------------
(* Two windows, a question and two requests. *)
EXTENDS Desk, TLC

Instants == 1 .. 2

\* Windows and requests are interchangeable.
Alike == Permutations(Windows) \cup Permutations(Objects)
=============================================================================
