------------------------- MODULE MCEventDispatcher -------------------------
(* Instances of EventDispatcher for TLC. *)
EXTENDS EventDispatcher, TLC

CallerSymmetry == Permutations(Threads)

SocketSymmetry == Permutations(Notifiers) \cup Permutations(PollHandles)
=============================================================================
