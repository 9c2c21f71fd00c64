-------------------------- MODULE MCContainerTask --------------------------
(* A small instance of the container task: a few groups with their applications. *)
EXTENDS ContainerTask

CONSTANTS a1, a2, a3

TwoApps == {a1, a2}
ThreeApps == {a1, a2, a3}
=============================================================================
