---------------------------- MODULE MCParachain ----------------------------
(* A small instance of the runtime: two candidates, no delegators, few calls. *)
EXTENDS Parachain, TLC

CONSTANTS alice, bob, charlie, here

ChainAccounts == {alice, bob}
ChainOrder == <<alice, bob>>
NobodysBtc == [a \in ChainAccounts |-> 0]

OneGroup == [size |-> 2, number |-> 1]
TwoGroups == [size |-> 1, number |-> 2]
NoGroups == [size |-> 2, number |-> 0]
ChainMetrics == {OneGroup, TwoGroups, NoGroups}
ChainProcessors == {charlie}
ChainAddresses == {here}
=============================================================================
