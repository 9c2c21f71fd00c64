-------------------------- MODULE MCStakingRounds --------------------------
(* A small instance of the rounds: two candidates and one delegator. *)
EXTENDS StakingRounds, TLC

CONSTANTS alice, bob, carol, charlie, here

RoundsAccounts == {alice, bob, carol}
RoundsCandidates == {alice, bob}
RoundsBackers == {carol}
RoundsBtc == [a \in RoundsAccounts |-> IF a = carol THEN 1 ELSE 0]
RoundsOrder == <<alice, bob, carol>>

PairMetric == [size |-> 2, number |-> 1]
SingleMetric == [size |-> 1, number |-> 2]
TwoSelected == {PairMetric, SingleMetric}
RoundsProcessors == {charlie}
RoundsAddresses == {here}
=============================================================================
