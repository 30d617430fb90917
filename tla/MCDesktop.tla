------------------------------ MODULE MCDesktop ------------------------------
(* One application of the new build, and daemons of both. *)
EXTENDS Desktop

MCBuildOf == [x \in Windows |-> "new"]
=============================================================================
