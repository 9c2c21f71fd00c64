------------------------- MODULE MCContainerPallet -------------------------
(* A small instance of the grouping and container pallets. *)
EXTENDS ContainerPallet

CONSTANTS s1, s2, s3, s4, p1, p2

\* Enough sequencers for two groups of two or three of one, or for one group of two.
McCandidateLists == {<<s1, s2, s3, s4>>, <<s4, s2>>}
McGenesisMetric == [size |-> 1, number |-> 1]
\* A metric without groups, and one with more groups than one processor takes.
McMetrics == {[size |-> 2, number |-> 2], [size |-> 1, number |-> 3], [size |-> 1, number |-> 0]}
McAnnouncements == {[starting_block |-> 3, round_index |-> 2]}
=============================================================================
