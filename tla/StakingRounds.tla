--------------------------- MODULE StakingRounds ---------------------------
(***************************************************************************)
(* The rounds of pallet sequencer-staking on top of its ledger: the block  *)
(* hook that opens a round, pays the rewards of an earlier one, takes the  *)
(* snapshot of the next one and has the selected sequencers grouped, and   *)
(* the extrinsics that steer it.                                           *)
(*                                                                         *)
(* The hook is not transactional and no call is rolled back in it; a panic *)
(* (a failing expect) would stop the chain, so where the code panics       *)
(* on_initialize has no step.                                              *)
(***************************************************************************)
EXTENDS SequencerStaking, SequencerGrouping, OrderedSet

CONSTANTS
    GenesisBlocksPerRound,
    MinBlocksPerRound,
    BlockLengths,             \* round lengths root may set
    RewardPaymentDelay,
    MaxOfflineRounds,
    RoundReward,
    Accuracy,                 \* the parts in a Perbill
    GenesisCommission,
    Commissions,              \* commissions root may set
    Awardees, Awards,         \* whom the outer module awards points, and how many
    GenesisPot, Deposits,     \* native tokens of the pallet's account, and charges of it
    MaxPot,                   \* bound on the charges explored
    MaxPoints,                \* bound on the points of a sequencer in a round
    MaxCalls,                 \* bound on the calls explored
    MaxBlock                  \* bound on the blocks explored

ASSUME RoundsAssumption ==
    /\ AccountOrder \in Seq(Accounts) /\ Accounts = {AccountOrder[i] : i \in DOMAIN AccountOrder}
    /\ GenesisBlocksPerRound \in Nat \ {0} /\ MinBlocksPerRound \in Nat
    /\ BlockLengths \subseteq Nat
    /\ RewardPaymentDelay \in Nat \ {0}
    /\ MaxOfflineRounds \in Nat
    /\ RoundReward \in Nat /\ Accuracy \in Nat \ {0}
    /\ GenesisCommission \in 0 .. Accuracy /\ Commissions \subseteq 0 .. Accuracy
    /\ Awardees \subseteq Accounts /\ Awards \subseteq Nat
    /\ GenesisPot \in Nat /\ Deposits \subseteq Nat

VARIABLES
    block,           \* the block being built
    first, length,   \* Round.first, Round.length
    selected,        \* SelectedCandidates
    atStake,         \* AtStake, by round and account
    points,          \* Points, by round
    awarded,         \* AwardedPts, by round and account
    delayedPayouts,  \* DelayedPayouts, by round: the commission, or NoPayout
    commission,      \* SequencerCommission
    markingOffline,  \* EnableMarkingOffline
    rewardPot,       \* free native tokens of the pallet's account
    calls,           \* calls so far (a bound)
    everAtStake,     \* history: who was put in AtStake, by round
    earned,          \* history: the points ever awarded, by round and account
    paidOut,         \* history: the native tokens paid out, by round
    unpaid,          \* history: the native tokens due that the pot did not cover, by round
    undivided        \* history: the rounds in which a total of 0 divided a reward

roundVars == <<block, first, length, selected, atStake, points, awarded, delayedPayouts,
               commission, markingOffline, rewardPot, calls,
               everAtStake, earned, paidOut, unpaid, undivided>>

allVars == <<vars, groupingVars, roundVars>>

Rounds == 1 .. MaxRound + 1

\* SequencerSnapshot
NoSnapshot == [present |-> FALSE, bond |-> 0, delegations |-> <<>>, total |-> 0]

\* DelayedPayout; the reward of a round is a constant of the runtime.
NoPayout == Accuracy + 1

\* Set at genesis and kept when the length of a round changes.
SnapshotTimePoint == (GenesisBlocksPerRound * 3) \div 4

\* At genesis the staking pallet is built before the grouping pallet sets its
\* metric, so total_selected is 0 and nobody is selected for round 1.
RoundsInit ==
    /\ Init
    /\ GroupingInit
    /\ block = 0 /\ first = 0 /\ length = GenesisBlocksPerRound
    /\ selected = {}
    /\ atStake = [r \in Rounds |-> [a \in Accounts |-> NoSnapshot]]
    /\ points = [r \in Rounds |-> 0]
    /\ awarded = [r \in Rounds |-> [a \in Accounts |-> 0]]
    /\ delayedPayouts = [r \in Rounds |-> NoPayout]
    /\ commission = GenesisCommission
    /\ markingOffline = FALSE
    /\ rewardPot = GenesisPot
    /\ calls = 0
    /\ everAtStake = [r \in Rounds |-> {}]
    /\ earned = [r \in Rounds |-> [a \in Accounts |-> 0]]
    /\ paidOut = [r \in Rounds |-> 0]
    /\ unpaid = [r \in Rounds |-> 0]
    /\ undivided = {}

Staked(stake, r) == {a \in Accounts : stake[r][a].present}

----------------------------------------------------------------------------
(* Perbill: from_rational rounds down, and is one when p is not less than  *)
(* q, for 0 of 0 too; a product goes to the nearest integer, a half down.  *)

from_rational(p, q) == IF p >= q THEN Accuracy ELSE (p * Accuracy) \div q

of(part, amount) ==
    LET scaled == part * amount
    IN  (scaled \div Accuracy) + (IF 2 * (scaled % Accuracy) > Accuracy THEN 1 ELSE 0)

----------------------------------------------------------------------------
(* Rewards of an earlier round.                                            *)

\* What s and its delegators are due for round r, in the order it is paid: who is
\* due nothing is paid nothing. The commission is taken off both the issuance and
\* the share of s.
payments(r, s) ==
    LET fee        == delayedPayouts[r]
        issuance   == of(fee, RoundReward)
        staking    == SatSub(RoundReward, issuance)
        pct_due    == from_rational(awarded[r][s], points[r])
        snapshot   == atStake[r][s]
        share      == of(pct_due, staking)
        fee_due    == of(pct_due, issuance)
        amt_due    == SatSub(share, fee_due)
        due(bond)  == of(from_rational(bond, snapshot.total), amt_due)
    IN  IF snapshot.delegations = <<>> THEN <<share>>
        ELSE <<due(snapshot.bond) + fee_due>>
             \o [i \in DOMAIN snapshot.delegations |-> due(snapshot.delegations[i].amount)]

\* payout_reward of one amount after another: a transfer the pot cannot cover
\* fails and is forgotten.
pot_after(pot, amounts) ==
    LET left[k \in 0 .. Len(amounts)] ==
            IF k = 0 THEN pot
            ELSE IF amounts[k] <= left[k - 1] THEN left[k - 1] - amounts[k] ELSE left[k - 1]
    IN  left[Len(amounts)]

\* Mutant: the first payout takes all snapshots of the round away.
clear_prefix(r, s) == [atStake EXCEPT ![r] = [a \in Accounts |-> NoSnapshot]]

\* Mutant: the snapshot of a paid sequencer stays.
drain_awards_only(r, s) == atStake

\* iter_prefix(r).drain().next()
drain(r, s) == [atStake EXCEPT ![r][s] = NoSnapshot]

\* Mutant: a sequencer without points ends the payouts of the round.
cleans_up_early(payment) == payment \in {"Skipped", "Finished"}

cleans_up(payment) == payment = "Finished"

\* The commission in force when round r ends is kept for its payouts.
prepare_staking_payouts(r) ==
    /\ delayedPayouts' = IF points[r] = 0 THEN delayedPayouts
                         ELSE [delayedPayouts EXCEPT ![r] = commission]
    /\ UNCHANGED <<points, awarded, rewardPot, paidOut, unpaid, undivided>>

\* A snapshot whose delegations and bond have a total of 0: without a bond, and with
\* every delegation to be revoked.
Undivided(snapshot) == snapshot.delegations # <<>> /\ snapshot.total = 0

\* One sequencer of round r: pay_one_sequencer_reward, then the clean-up of
\* handle_delayed_payouts.
pay_one_sequencer_reward(r, s) ==
    LET payment == IF awarded[r][s] = 0 THEN "Skipped" ELSE "Paid"
        left    == IF payment = "Paid" THEN pot_after(rewardPot, payments(r, s)) ELSE rewardPot
        due     == IF payment = "Paid" THEN SumFunction(payments(r, s)) ELSE 0
    IN  /\ awarded' = [awarded EXCEPT ![r][s] = 0]
        /\ rewardPot' = left
        /\ paidOut' = [paidOut EXCEPT ![r] = @ + rewardPot - left]
        /\ unpaid' = [unpaid EXCEPT ![r] = @ + (due - (rewardPot - left))]
        /\ undivided' = IF payment = "Paid" /\ Undivided(atStake[r][s]) THEN undivided \cup {r} ELSE undivided
        /\ delayedPayouts' = [delayedPayouts EXCEPT ![r] = IF cleans_up(payment) THEN NoPayout ELSE @]
        /\ points' = [points EXCEPT ![r] = IF cleans_up(payment) THEN 0 ELSE @]

\* Nobody is left to pay for round r.
finish_payouts(r) ==
    /\ delayedPayouts' = [delayedPayouts EXCEPT ![r] = NoPayout]
    /\ points' = [points EXCEPT ![r] = 0]
    /\ UNCHANGED <<awarded, rewardPot, paidOut, unpaid, undivided>>

PayoutPending(r) == r \in Rounds /\ delayedPayouts[r] # NoPayout

----------------------------------------------------------------------------
(* The snapshot of the next round.                                         *)

\* The members of S as BoundedOrderedSet lists them.
InOrder(S) ==
    [i \in 1 .. Cardinality(S) |->
        CHOOSE a \in S : Cardinality({b \in S : Place(b) < Place(a)}) = i - 1]

\* p ranks before q: by amount, then by account.
Outranks(p, q) ==
    \/ p.amount > q.amount
    \/ p.amount = q.amount /\ Place(p.owner) > Place(q.owner)

\* The total_selected candidates of the pool that rank highest.
compute_top_candidates ==
    {p.owner : p \in {q \in pool : Cardinality({o \in pool : Outranks(o, q)}) < total_selected}}

\* get_rewardable_delegators: the top delegations less what is asked back.
rewardable(c, bond) ==
    CASE requests[c][bond.owner].kind = "none"     -> bond.amount
      [] requests[c][bond.owner].kind = "revoke"   -> 0
      [] requests[c][bond.owner].kind = "decrease" -> SatSub(bond.amount, requests[c][bond.owner].amount)

\* What is asked back of a top delegation.
uncounted(c, bond) ==
    CASE requests[c][bond.owner].kind = "none"     -> 0
      [] requests[c][bond.owner].kind = "revoke"   -> bond.amount
      [] requests[c][bond.owner].kind = "decrease" -> requests[c][bond.owner].amount

\* Mutant: what is asked back still counts.
uncounted_nothing(c) == 0

uncounted_stake(c) == SumFunction([i \in DOMAIN book[c].top |-> uncounted(c, book[c].top[i])])

snapshot_of(c) ==
    [present     |-> TRUE,
     bond        |-> book[c].bond,
     delegations |-> [i \in DOMAIN book[c].top |->
                         [book[c].top[i] EXCEPT !.amount = rewardable(c, book[c].top[i])]],
     total       |-> SatSub(book[c].counted, uncounted_stake(c))]

\* Mutant: the sequencers of the current round serve on without their stakes.
next_stakes_only_new(stake, next, top) ==
    [a \in Accounts |-> IF a \in top THEN snapshot_of(a) ELSE stake[next][a]]

\* AtStake of the next round: new snapshots, or those of the current round when
\* no candidate can be selected.
next_stakes(stake, next, top) ==
    [a \in Accounts |->
        IF top = {} /\ stake[next - 1][a].present THEN stake[next - 1][a]
        ELSE IF a \in top THEN snapshot_of(a) ELSE stake[next][a]]

\* Without a candidate to select, every selected sequencer must have a snapshot
\* of the current round: expect("all selected candidates have snapshots").
select_top_candidates(stake, next) ==
    LET top == compute_top_candidates
    IN  /\ top = {} => selected \subseteq Staked(stake, next - 1)
        /\ atStake' = [stake EXCEPT ![next] = next_stakes(stake, next, top)]
        /\ selected' = IF top = {} THEN selected ELSE top

----------------------------------------------------------------------------
(* The hook of a block.                                                    *)

should_update(n) == n - first >= length

should_snapshot(n, start) == n - start = SnapshotTimePoint

\* The second half of the hook, in round `now' that started at block `start':
\* at its time point the snapshot is taken, and the selected are grouped.
snapshot_if_due(n, now, start, stake) ==
    IF should_snapshot(n, start)
    THEN /\ select_top_candidates(stake, now + 1)
         /\ \E seed \in Seeds :
               trigger_group(InOrder(selected'),
                             [starting_block |-> start + length, round_index |-> now + 1], seed)
    ELSE atStake' = stake /\ UNCHANGED <<selected, groupingVars>>

BlockStarts ==
    /\ block < MaxBlock
    /\ block' = block + 1
    /\ UNCHANGED <<length, commission, markingOffline, earned, calls>>

RememberAtStake ==
    everAtStake' = [r \in Rounds |-> everAtStake[r] \cup Staked(atStake', r)]

\* on_initialize of a block that opens a round
open_round ==
    LET n == block + 1
    IN  /\ BlockStarts
        /\ should_update(n)
        /\ new_round
        /\ first' = n
        /\ prepare_staking_payouts(round)
        /\ snapshot_if_due(n, round + 1, n, atStake)
        /\ RememberAtStake

\* on_initialize of any other block: one sequencer is paid for an earlier round
continue_round ==
    LET n == block + 1
        r == round - RewardPaymentDelay
    IN  /\ BlockStarts
        /\ ~should_update(n)
        /\ UNCHANGED <<first, vars>>
        /\ \/ /\ ~PayoutPending(r)
              /\ UNCHANGED <<points, awarded, delayedPayouts, rewardPot, paidOut, unpaid, undivided>>
              /\ snapshot_if_due(n, round, first, atStake)
           \/ /\ PayoutPending(r)
              /\ points[r] = 0 \/ Staked(atStake, r) = {}
              /\ finish_payouts(r)
              /\ snapshot_if_due(n, round, first, atStake)
           \/ /\ PayoutPending(r)
              /\ points[r] # 0
              /\ \E s \in Staked(atStake, r) :
                    /\ pay_one_sequencer_reward(r, s)
                    /\ snapshot_if_due(n, round, first, drain(r, s))
        /\ RememberAtStake

----------------------------------------------------------------------------
(* Extrinsics.                                                             *)

charge_reward_account(amount) ==
    /\ rewardPot + amount <= MaxPot
    /\ rewardPot' = rewardPot + amount
    /\ UNCHANGED <<vars, groupingVars, block, first, length, selected, atStake, points, awarded,
                   delayedPayouts, commission, markingOffline,
                   everAtStake, earned, paidOut, unpaid, undivided>>

set_sequencer_commission(new) ==
    /\ new # commission
    /\ commission' = new
    /\ UNCHANGED <<vars, groupingVars, block, first, length, selected, atStake, points, awarded,
                   delayedPayouts, markingOffline, rewardPot,
                   everAtStake, earned, paidOut, unpaid, undivided>>

set_blocks_per_round(new) ==
    /\ new >= MinBlocksPerRound
    /\ new # length
    /\ new > total_selected
    /\ length' = new
    /\ UNCHANGED <<vars, groupingVars, block, first, selected, atStake, points, awarded,
                   delayedPayouts, commission, markingOffline, rewardPot,
                   everAtStake, earned, paidOut, unpaid, undivided>>

enable_marking_offline(value) ==
    /\ markingOffline' = value
    /\ UNCHANGED <<vars, groupingVars, block, first, length, selected, atStake, points, awarded,
                   delayedPayouts, commission, rewardPot,
                   everAtStake, earned, paidOut, unpaid, undivided>>

\* The rounds notify_inactive_sequencer looks at.
RoundsToCheck == {r \in Rounds : SatSub(round, MaxOfflineRounds) <= r /\ r < round}

\* The conditions that do not depend on the sequencer: marking is enabled and
\* enough sequencers remain.
MayNotify ==
    /\ markingOffline
    /\ Cardinality(selected) * 3 > total_selected * 2
    /\ round > MaxOfflineRounds

\* s has a stake and no points in every round of the window.
CanBeNotified(s) ==
    /\ MayNotify
    /\ \A r \in RoundsToCheck : atStake[r][s].present /\ awarded[r][s] = 0

\* OnInactiveSequencer of the runtime: go_offline_inner, whose error is ignored.
on_inactive_sequencer(s) == go_offline(s) \/ (~is_active(s) /\ UNCHANGED vars)

notify_inactive_sequencer(s) ==
    /\ CanBeNotified(s)
    /\ on_inactive_sequencer(s)
    /\ UNCHANGED <<groupingVars, block, first, length, selected, atStake, points, awarded,
                   delayedPayouts, commission, markingOffline, rewardPot,
                   everAtStake, earned, paidOut, unpaid, undivided>>

\* Mutant: Points holds the last award.
last_award(p) == [points EXCEPT ![round] = p]

points_plus(p) == [points EXCEPT ![round] = @ + p]

\* The interface of the module that counts blocks; nothing in the runtime calls it.
award_points_to_sequencer(s, p) ==
    /\ awarded[round][s] + p <= MaxPoints
    /\ awarded' = [awarded EXCEPT ![round][s] = @ + p]
    /\ points' = points_plus(p)
    /\ earned' = [earned EXCEPT ![round][s] = @ + p]
    /\ UNCHANGED <<vars, groupingVars, block, first, length, selected, atStake, delayedPayouts,
                   commission, markingOffline, rewardPot,
                   everAtStake, paidOut, unpaid, undivided>>

RoundCall ==
    \/ \E amount \in Deposits : charge_reward_account(amount)
    \/ \E new \in Commissions : set_sequencer_commission(new)
    \/ \E new \in BlockLengths : set_blocks_per_round(new)
    \/ \E value \in BOOLEAN : enable_marking_offline(value)
    \/ \E s \in Accounts : notify_inactive_sequencer(s)
    \/ \E s \in Awardees, p \in Awards : award_points_to_sequencer(s, p)

\* A call of the ledger's extrinsics: rounds are opened by the hook alone.
LedgerCall ==
    /\ LedgerExtrinsic
    /\ UNCHANGED <<groupingVars, block, first, length, selected, atStake, points, awarded,
                   delayedPayouts, commission, markingOffline, rewardPot,
                   everAtStake, earned, paidOut, unpaid, undivided>>

GroupingCall ==
    /\ GroupingNext
    /\ UNCHANGED <<vars, block, first, length, selected, atStake, points, awarded,
                   delayedPayouts, commission, markingOffline, rewardPot,
                   everAtStake, earned, paidOut, unpaid, undivided>>

Call ==
    /\ calls < MaxCalls
    /\ calls' = calls + 1
    /\ RoundCall \/ LedgerCall \/ GroupingCall

RoundsNext == open_round \/ continue_round \/ Call

RoundsSpec == RoundsInit /\ [][RoundsNext]_allVars

----------------------------------------------------------------------------
(* What makes the rounds correct.                                          *)

\* The total a snapshot divides a reward by is what its shares add up to, the
\* pending requests of delegators taken off on both sides: nobody is paid for
\* stake that is not in the total.
SnapshotTotals ==
    \A r \in Rounds, a \in Accounts :
        LET s == atStake[r][a] IN s.total = s.bond + SumOf(s.delegations)

\* "all selected candidates have snapshots": those selected for the next round
\* once its snapshot is taken, and until then those of the current round.
SelectedHaveSnapshots ==
    selected \subseteq Staked(atStake, IF block - first >= SnapshotTimePoint THEN round + 1 ELSE round)

\* Payouts, one sequencer per block and none in the first block of a round, are
\* done within the round reserved for them: afterwards nobody with points waits.
RewardsPaidInTime ==
    \A r \in Rounds, a \in Accounts :
        r + RewardPaymentDelay < round /\ atStake[r][a].present => awarded[r][a] = 0

\* All payouts of a round together do not exceed the reward of a round, but for
\* the rounding: each product of a Perbill may be half a token too large, and a
\* sequencer at stake is paid by at most one for its share, one for itself and one
\* for each delegation. Rounds in which a total of 0 divided a reward are left out.
PaidWithinReward ==
    \A r \in Rounds \ undivided :
        2 * paidOut[r] <= 2 * RoundReward
                            + (MaxTopDelegationsPerCandidate + 2) * Cardinality(everAtStake[r])

\* The reward of a round less what the commission takes off the issuance.
StakingReward(fee) == RoundReward - of(fee, RoundReward)

\* Nor is a reward lost between the awards, the snapshot and the payouts, each of
\* which is deleted at a time of its own: if all points of a round were earned by
\* sequencers at stake, then once its payouts are over the reward that is left by
\* some commission was paid out, or failed for want of tokens. Rounding costs each
\* product at most half a token and one part of a Perbill.
RewardsPaidInFull ==
    \A r \in Rounds :
        LET earners == {a \in Accounts : earned[r][a] > 0}
            rounded == (MaxTopDelegationsPerCandidate + 2) * Cardinality(earners) * (Accuracy + 2 * RoundReward)
        IN  r + RewardPaymentDelay < round /\ earners # {} /\ earners \subseteq everAtStake[r] =>
                \E fee \in Commissions \cup {GenesisCommission} :
                    2 * Accuracy * StakingReward(fee) <= 2 * Accuracy * (paidOut[r] + unpaid[r]) + rounded

\* A sequencer that earned a point in the last MaxOfflineRounds rounds cannot be
\* reported as inactive, although its points are deleted when it is paid.
ActiveNotNotified ==
    \A s \in Accounts : CanBeNotified(s) => \A r \in RoundsToCheck : earned[r][s] = 0

----------------------------------------------------------------------------
(* What the repository says and the code does not do.                      *)

\* "If a sequencer doesn't produce any block on this number of rounds, it is
\* notified as inactive": who was at stake in every round of the window and
\* earned nothing in any can be reported. The payouts take the stakes of all
\* sequencers of a round away, of the idle ones too.
InactiveIsNotifiable ==
    \A s \in Accounts :
        /\ MayNotify
        /\ \A r \in RoundsToCheck : s \in everAtStake[r] /\ earned[r][s] = 0
        => CanBeNotified(s)
=============================================================================
