------------------------------ MODULE MCPoller ------------------------------
(* Instances of Poller for TLC. *)
EXTENDS Poller, TLC

Symmetry == Permutations(Channel) \cup Permutations(Fd)
=============================================================================
