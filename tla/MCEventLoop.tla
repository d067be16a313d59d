---------------------------- MODULE MCEventLoop ----------------------------
(***************************************************************************)
(* The event loop interactor for TLC, on either system; a program runs on  *)
(* one of them.                                                            *)
(*                                                                         *)
(* Unix: three notifiers on two descriptors.  A descriptor can be closed   *)
(* and its number handed out again while the notifier of its first life is *)
(* still there, and three slots can be nested.                             *)
(*                                                                         *)
(* Windows: two interactors, one after the other, and three callbacks on   *)
(* two descriptors, enough for one to be registered a second time and for  *)
(* the tag of one to be given back after its interactor.                   *)
(***************************************************************************)
EXTENDS EventLoop, WinEventLoop, TLC

MCSymmetry == Permutations(Watcher) \cup Permutations(Channel) \cup Permutations(Ctx)
                \cup Permutations(Fd) \cup Permutations(Address)

VARIABLE system \* "Unix" or "Windows"

MCInit == Init /\ WinInit /\ system \in {"Unix", "Windows"}

MCNext ==
  /\ \/ system = "Unix" /\ Next /\ UNCHANGED winVars
     \/ system = "Windows" /\ WinNext /\ UNCHANGED vars
  /\ UNCHANGED system

MCSpec == MCInit /\ [][MCNext]_<<vars, winVars, system>>
=============================================================================
