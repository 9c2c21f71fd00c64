------------------------- MODULE StakingRoundsProofs -------------------------
(***************************************************************************)
(* For any accounts, lengths of rounds, delays, points, commissions and     *)
(* metrics: the hook of the staking pallet runs the ledger as its          *)
(* extrinsics do, nobody with a point is reported as inactive, the         *)
(* selected sequencers have the snapshots the next selection expects, a    *)
(* snapshot adds up to what it divides by, the payouts of a round are done *)
(* in the round reserved for them and stay within the reward of one round. *)
(***************************************************************************)
EXTENDS StakingRounds, SequencerStakingProofs

----------------------------------------------------------------------------
(* The rounds run the ledger.                                              *)

\* A call of the pallet, or a step that leaves all of its storage alone.
RoundsIdle ==
    UNCHANGED <<vars, groupingVars, block, first, length, selected, atStake, points, awarded,
                delayedPayouts, commission, markingOffline, rewardPot,
                everAtStake, earned, paidOut, unpaid, undivided>>

AnyCall == RoundCall \/ LedgerCall \/ GroupingCall \/ RoundsIdle

RoundsStep == open_round \/ continue_round \/ AnyCall

\* No extrinsic of the ledger opens a round.
LEMMA LedgerKeepsRound == LedgerExtrinsic => UNCHANGED round
<1>1. \A c : CandidateStep(c) => UNCHANGED round
  BY DEF CandidateStep, schedule_leave_candidates, execute_leave_candidates,
         cancel_leave_candidates, go_offline, go_online, candidate_bond_more,
         schedule_candidate_bond_less, execute_candidate_bond_less, cancel_candidate_bond_less
<1>2. \A c, d : DelegatorStep(c, d) => UNCHANGED round
  <2>1. \A c, d, more : delegator_bond_more(c, d, more) => UNCHANGED round
    BY DEF delegator_bond_more
  <2>2. \A c, d, kind, amount : ScheduleRequest(c, d, kind, amount) => UNCHANGED round
    BY DEF ScheduleRequest
  <2>3. \A c, d : cancel_delegation_request(c, d) => UNCHANGED round
    BY DEF cancel_delegation_request
  <2>4. \A c, d : execute_revoke(c, d) \/ execute_decrease(c, d) => UNCHANGED round
    BY DEF execute_revoke, execute_decrease
  <2> QED
    BY <2>1, <2>2, <2>3, <2>4 DEF DelegatorStep, schedule_revoke_delegation, schedule_delegator_bond_less
<1>3. \A c, d, amount : delegate(c, d, amount) \/ delegate_kicking(c, d, amount) => UNCHANGED round
  BY DEF delegate, delegate_kicking, AddToCandidate
<1>4. \A c : join_candidates(c) \/ force_join_candidates(c) => UNCHANGED round
  BY DEF join_candidates, force_join_candidates
<1> QED
  BY <1>1, <1>2, <1>3, <1>4 DEF LedgerExtrinsic

\* A report of an inactive sequencer is a call of go_offline, or changes nothing.
LEMMA ReportIsLedgerStep ==
  ASSUME NEW s \in Accounts, on_inactive_sequencer(s)
  PROVE  [Next]_vars /\ UNCHANGED round
<1>1. CASE go_offline(s)
  BY <1>1 DEF go_offline, Next, LedgerExtrinsic, CandidateStep
<1>2. CASE UNCHANGED vars
  BY <1>2 DEF vars
<1> QED
  BY <1>1, <1>2 DEF on_inactive_sequencer

\* Every call leaves the round alone and is a step of the ledger.
LEMMA CallIsLedgerStep == AnyCall => [Next]_vars /\ UNCHANGED round
<1> SUFFICES ASSUME AnyCall PROVE [Next]_vars /\ UNCHANGED round
  OBVIOUS
<1>1. CASE LedgerCall
  BY <1>1, LedgerKeepsRound DEF LedgerCall, Next
<1>2. CASE GroupingCall
  BY <1>2 DEF GroupingCall, vars
<1>3. CASE RoundCall
  <2>1. CASE \E s \in Accounts : notify_inactive_sequencer(s)
    BY <2>1, ReportIsLedgerStep DEF notify_inactive_sequencer
  <2>2. CASE ~ \E s \in Accounts : notify_inactive_sequencer(s)
    <3>1. UNCHANGED vars
      BY <1>3, <2>2 DEF RoundCall, charge_reward_account, set_sequencer_commission,
                        set_blocks_per_round, enable_marking_offline, award_points_to_sequencer
    <3> QED
      BY <3>1 DEF vars
  <2> QED
    BY <2>1, <2>2
<1>4. CASE RoundsIdle
  BY <1>4 DEF RoundsIdle, vars
<1> QED
  BY <1>1, <1>2, <1>3, <1>4 DEF AnyCall

\* So is the hook of a block.
LEMMA HookIsLedgerStep == open_round \/ continue_round => [Next]_vars
  BY DEF open_round, continue_round, Next

\* A step of the rounds is one of these.
LEMMA StepsOfRounds == [RoundsNext]_allVars => RoundsStep
  BY DEF RoundsNext, Call, RoundsStep, AnyCall, RoundsIdle, allVars, roundVars

\* The pallet with its hooks implements its ledger: what is proved of the ledger
\* holds of the pallet, on_inactive_sequencer and the opening of rounds included.
LEMMA RoundsRunTheLedger == RoundsSpec => Spec
<1>1. RoundsInit => Init
  BY DEF RoundsInit
<1>2. [RoundsNext]_allVars => [Next]_vars
  BY StepsOfRounds, CallIsLedgerStep, HookIsLedgerStep DEF RoundsStep
<1> QED
  BY <1>1, <1>2, PTL DEF RoundsSpec, Spec

----------------------------------------------------------------------------
(* Rounds and snapshots.                                                   *)

\* There is a snapshot, or none, for every round and account.
StakeShape(stake) ==
    /\ DOMAIN stake = Rounds
    /\ \A r \in Rounds : DOMAIN stake[r] = Accounts

\* Round.current and Round.first, and the block they are about.
ClockOK ==
    /\ round \in 1 .. MaxRound
    /\ block \in Nat /\ first \in Nat /\ first <= block

\* No call touches the clock, but for the length, or what was selected.
LEMMA CallsKeepRound ==
  ASSUME AnyCall
  PROVE  UNCHANGED <<round, block, first, selected, atStake>>
<1>1. UNCHANGED round
  BY CallIsLedgerStep
<1>2. UNCHANGED <<block, first, selected, atStake>>
  BY DEF AnyCall, RoundCall, LedgerCall, GroupingCall, RoundsIdle, charge_reward_account,
         set_sequencer_commission, set_blocks_per_round, enable_marking_offline,
         notify_inactive_sequencer, award_points_to_sequencer
<1> QED
  BY <1>1, <1>2

\* Only accounts are ranked.
LEMMA TopAreAccounts ==
  ASSUME pool \subseteq Bond
  PROVE  compute_top_candidates \subseteq Accounts
  BY DEF compute_top_candidates, Bond

\* After a selection every selected sequencer has a snapshot of the next round,
\* and no other round is touched.
LEMMA SelectionStaked ==
  ASSUME pool \subseteq Bond, NEW stake, StakeShape(stake), NEW next \in Rounds,
         select_top_candidates(stake, next)
  PROVE  /\ StakeShape(atStake')
         /\ \A r \in Rounds \ {next} : atStake'[r] = stake[r]
         /\ selected' \subseteq Staked(atStake', next)
<1> DEFINE top == compute_top_candidates
           new == next_stakes(stake, next, top)
<1>1. /\ top = {} => selected \subseteq Staked(stake, next - 1)
      /\ atStake' = [stake EXCEPT ![next] = new]
      /\ selected' = IF top = {} THEN selected ELSE top
  BY DEF select_top_candidates
<1>2. top \subseteq Accounts
  BY TopAreAccounts
<1>3. /\ DOMAIN new = Accounts
      /\ \A a \in Accounts : new[a] = IF top = {} /\ stake[next - 1][a].present THEN stake[next - 1][a]
                                      ELSE IF a \in top THEN snapshot_of(a) ELSE stake[next][a]
  BY DEF next_stakes
<1>4. \A a : snapshot_of(a).present
  BY DEF snapshot_of
<1> HIDE DEF top, new
<1>5. /\ StakeShape(atStake') /\ atStake'[next] = new
      /\ \A r \in Rounds \ {next} : atStake'[r] = stake[r]
  BY <1>1, <1>3 DEF StakeShape
<1>6. selected' \subseteq Staked(atStake', next)
  <2>1. CASE top = {}
    <3>1. \A a \in selected : a \in Accounts /\ stake[next - 1][a].present
      BY <1>1, <2>1 DEF Staked
    <3> QED
      BY <1>1, <1>3, <1>5, <2>1, <3>1 DEF Staked
  <2>2. CASE top # {}
    BY <1>1, <1>2, <1>3, <1>4, <1>5, <2>2 DEF Staked
  <2> QED
    BY <2>1, <2>2
<1> QED
  BY <1>5, <1>6

\* What the second half of the hook does to the stakes of round now and of those
\* before it, and of the next one.
LEMMA SnapshotStaked ==
  ASSUME pool \subseteq Bond, NEW n, NEW now, NEW start, now + 1 \in Rounds,
         NEW stake, StakeShape(stake), snapshot_if_due(n, now, start, stake)
  PROVE  /\ StakeShape(atStake')
         /\ \A r \in Rounds \ {now + 1} : atStake'[r] = stake[r]
         /\ should_snapshot(n, start) => selected' \subseteq Staked(atStake', now + 1)
         /\ ~ should_snapshot(n, start) => atStake' = stake /\ UNCHANGED <<selected, groupingVars>>
<1>1. CASE should_snapshot(n, start)
  BY <1>1, SelectionStaked DEF snapshot_if_due
<1>2. CASE ~ should_snapshot(n, start)
  BY <1>2 DEF snapshot_if_due
<1> QED
  BY <1>1, <1>2

\* A block that opens no round may take away one stake of an earlier round, with
\* the points it is paid for; then comes the second half of the hook.
LEMMA PayoutStep ==
  ASSUME ClockOK, StakeShape(atStake), continue_round,
         awarded \in [Rounds -> [Accounts -> Nat]]
  PROVE  \E stake :
            /\ StakeShape(stake)
            /\ snapshot_if_due(block + 1, round, first, stake)
            /\ awarded' \in [Rounds -> [Accounts -> Nat]]
            /\ \A r \in Rounds : r >= round => stake[r] = atStake[r] /\ awarded'[r] = awarded[r]
            /\ \A r \in Rounds, a \in Accounts :
                  stake[r][a].present =>
                     atStake[r][a].present /\ awarded'[r][a] = awarded[r][a]
<1> DEFINE p == round - RewardPaymentDelay
<1>1. \A r \in Rounds : r >= round => r # p
  BY RoundsAssumption DEF ClockOK, Rounds
<1>2. CASE snapshot_if_due(block + 1, round, first, atStake) /\ UNCHANGED awarded
  BY <1>2, Zenon
<1>3. CASE /\ PayoutPending(p)
           /\ \E s \in Staked(atStake, p) :
                 /\ pay_one_sequencer_reward(p, s)
                 /\ snapshot_if_due(block + 1, round, first, drain(p, s))
  <2>1. PICK s \in Staked(atStake, p) :
                 /\ pay_one_sequencer_reward(p, s)
                 /\ snapshot_if_due(block + 1, round, first, drain(p, s))
    BY <1>3
  <2>2. p \in Rounds /\ s \in Accounts
    BY <1>3 DEF PayoutPending, Staked
  <2> DEFINE stake == drain(p, s)
             left == [atStake[p] EXCEPT ![s] = NoSnapshot]
             kept == [awarded[p] EXCEPT ![s] = 0]
  <2>3. stake = [atStake EXCEPT ![p] = left]
    BY DEF drain
  <2>4. /\ DOMAIN left = Accounts /\ left[s] = NoSnapshot
        /\ \A a \in Accounts \ {s} : left[a] = atStake[p][a]
    BY <2>2 DEF StakeShape
  <2>5. awarded' = [awarded EXCEPT ![p] = kept]
    BY <2>1 DEF pay_one_sequencer_reward
  <2>6. kept \in [Accounts -> Nat] /\ \A a \in Accounts \ {s} : kept[a] = awarded[p][a]
    BY <2>2
  <2> HIDE DEF left, kept, stake, p
  <2>7. /\ StakeShape(stake) /\ stake[p] = left
        /\ \A r \in Rounds \ {p} : stake[r] = atStake[r]
    BY <2>2, <2>3, <2>4 DEF StakeShape
  <2>8. /\ awarded' \in [Rounds -> [Accounts -> Nat]] /\ awarded'[p] = kept
        /\ \A r \in Rounds \ {p} : awarded'[r] = awarded[r]
    BY <2>2, <2>5, <2>6
  <2>9. ~ NoSnapshot.present
    BY DEF NoSnapshot
  <2>10. ASSUME NEW r \in Rounds, NEW a \in Accounts, stake[r][a].present
         PROVE  atStake[r][a].present /\ awarded'[r][a] = awarded[r][a]
    BY <2>4, <2>6, <2>7, <2>8, <2>9, <2>10
  <2>11. snapshot_if_due(block + 1, round, first, stake)
    BY <2>1 DEF stake
  <2>12. \A r \in Rounds : r >= round => stake[r] = atStake[r] /\ awarded'[r] = awarded[r]
    BY <1>1, <2>7, <2>8
  <2> QED
    BY <2>7, <2>8, <2>10, <2>11, <2>12, Zenon
<1> QED
  BY <1>2, <1>3 DEF continue_round, finish_payouts

\* What a block does to the stakes, and whom it selects.
LEMMA HookStaked ==
  ASSUME TypeOK, ClockOK, StakeShape(atStake), awarded \in [Rounds -> [Accounts -> Nat]],
         open_round \/ continue_round
  PROVE  /\ StakeShape(atStake') /\ ClockOK'
         /\ UNCHANGED <<length, earned>>
         /\ \A r \in Rounds : r >= round /\ r # round' + 1 => atStake'[r] = atStake[r]
         /\ should_snapshot(block', first') => selected' \subseteq Staked(atStake', round' + 1)
         /\ ~ should_snapshot(block', first') =>
               /\ atStake'[round' + 1] = atStake[round' + 1]
               /\ UNCHANGED <<selected, groupingVars>>
         /\ block' = block + 1
         /\ \/ open_round /\ round' = round + 1 /\ first' = block'
            \/ continue_round /\ UNCHANGED <<round, first>>
<1>1. pool \subseteq Bond
  BY DEF TypeOK
<1>2. round \in Nat /\ round + 1 \in Rounds
  BY StakingAssumption DEF ClockOK, Rounds
<1>3. CASE open_round
  <2>1. /\ block' = block + 1 /\ round' = round + 1 /\ first' = block' /\ round < MaxRound
        /\ UNCHANGED <<length, earned>>
        /\ snapshot_if_due(block + 1, round + 1, block + 1, atStake)
    BY <1>3 DEF open_round, BlockStarts, new_round
  <2>2. round' + 1 \in Rounds /\ ClockOK'
    BY <2>1, StakingAssumption DEF ClockOK, Rounds
  <2>3. PICK now : now = round + 1
    OBVIOUS
  <2>4. /\ StakeShape(atStake')
        /\ \A r \in Rounds \ {now + 1} : atStake'[r] = atStake[r]
        /\ should_snapshot(block + 1, block + 1) => selected' \subseteq Staked(atStake', now + 1)
        /\ ~ should_snapshot(block + 1, block + 1) =>
              atStake' = atStake /\ UNCHANGED <<selected, groupingVars>>
    BY <1>1, <2>1, <2>2, <2>3, SnapshotStaked
  <2> QED
    BY <1>3, <2>1, <2>2, <2>3, <2>4 DEF should_snapshot
<1>4. CASE continue_round
  <2>1. /\ block' = block + 1 /\ round' = round /\ first' = first
        /\ UNCHANGED <<length, earned>>
    BY <1>4 DEF continue_round, BlockStarts, vars
  <2>2. PICK stake :
            /\ StakeShape(stake)
            /\ snapshot_if_due(block + 1, round, first, stake)
            /\ \A r \in Rounds : r >= round => stake[r] = atStake[r]
    <3>1. \E stake :
            /\ StakeShape(stake)
            /\ snapshot_if_due(block + 1, round, first, stake)
            /\ \A r \in Rounds : r >= round => stake[r] = atStake[r]
      BY <1>4, PayoutStep, Zenon
    <3> QED
      BY <3>1
  <2>3. PICK now : now = round
    OBVIOUS
  <2>4. /\ StakeShape(atStake')
        /\ \A r \in Rounds \ {now + 1} : atStake'[r] = stake[r]
        /\ should_snapshot(block + 1, first) => selected' \subseteq Staked(atStake', now + 1)
        /\ ~ should_snapshot(block + 1, first) =>
              atStake' = stake /\ UNCHANGED <<selected, groupingVars>>
    <3>1. snapshot_if_due(block + 1, now, first, stake) /\ now + 1 \in Rounds
      BY <1>2, <2>2, <2>3
    <3>2. StakeShape(stake)
      BY <2>2
    <3> QED
      BY <1>1, <3>1, <3>2, SnapshotStaked
  <2>5. ClockOK'
    BY <2>1 DEF ClockOK
  <2>6. round + 1 >= round
    BY <1>2
  <2> QED
    BY <1>2, <1>4, <2>1, <2>2, <2>3, <2>4, <2>5, <2>6 DEF should_snapshot
<1> QED
  BY <1>3, <1>4

\* The points of a round are those that were earned in it, as long as the round
\* is not over or the stake is not paid.
PointsOK ==
    /\ awarded \in [Rounds -> [Accounts -> Nat]] /\ earned \in [Rounds -> [Accounts -> Nat]]
    /\ \A r \in Rounds, a \in Accounts :
          r >= round \/ atStake[r][a].present => awarded[r][a] = earned[r][a]

RoundsInv == ClockOK /\ StakeShape(atStake) /\ PointsOK

\* An award is counted twice, in the points and in what was earned.
LEMMA AwardKeepsPoints ==
  ASSUME RoundsInv, NEW s \in Awardees, NEW p \in Awards, award_points_to_sequencer(s, p)
  PROVE  PointsOK'
<1>1. s \in Accounts /\ p \in Nat /\ round \in Rounds
  <2>1. s \in Accounts /\ p \in Nat
    BY RoundsAssumption
  <2>2. round \in 1 .. MaxRound /\ MaxRound \in Nat
    BY StakingAssumption DEF RoundsInv, ClockOK
  <2> QED
    BY <2>1, <2>2 DEF Rounds
<1>2. /\ awarded' = [awarded EXCEPT ![round] = [awarded[round] EXCEPT ![s] = @ + p]]
      /\ earned' = [earned EXCEPT ![round] = [earned[round] EXCEPT ![s] = @ + p]]
      /\ UNCHANGED <<round, atStake>>
  BY DEF award_points_to_sequencer, vars
<1> DEFINE w == [awarded[round] EXCEPT ![s] = @ + p]
           e == [earned[round] EXCEPT ![s] = @ + p]
<1>3. /\ awarded[round] \in [Accounts -> Nat] /\ earned[round] \in [Accounts -> Nat]
      /\ awarded[round] = earned[round]
  <2>1. \A a \in Accounts : awarded[round][a] = earned[round][a]
    BY <1>1 DEF RoundsInv, PointsOK, ClockOK
  <2> QED
    BY <1>1, <2>1 DEF RoundsInv, PointsOK
<1>4. w \in [Accounts -> Nat] /\ e = w
  BY <1>1, <1>3
<1> HIDE DEF w, e
<1> QED
  BY <1>1, <1>2, <1>4 DEF RoundsInv, PointsOK

\* Every step keeps points and stakes in line.
LEMMA RoundsStepInv ==
  ASSUME TypeOK, RoundsInv, RoundsStep
  PROVE  RoundsInv'
<1>1. pool \subseteq Bond /\ round \in Nat /\ round + 1 \in Rounds
  BY StakingAssumption DEF TypeOK, RoundsInv, ClockOK, Rounds
<1>2. CASE AnyCall
  <2>1. UNCHANGED <<round, block, first, selected, atStake>>
    BY <1>2, CallsKeepRound
  <2>2. PointsOK'
    <3>1. CASE UNCHANGED <<awarded, earned>>
      BY <2>1, <3>1 DEF RoundsInv, PointsOK
    <3>2. CASE \E s \in Awardees, p \in Awards : award_points_to_sequencer(s, p)
      BY <3>2, AwardKeepsPoints
    <3>3. \/ UNCHANGED <<awarded, earned>>
          \/ \E s \in Awardees, p \in Awards : award_points_to_sequencer(s, p)
      BY <1>2 DEF AnyCall, RoundCall, LedgerCall, GroupingCall, RoundsIdle,
                  charge_reward_account, set_sequencer_commission, set_blocks_per_round,
                  enable_marking_offline, notify_inactive_sequencer
    <3> QED
      BY <3>1, <3>2, <3>3
  <2> QED
    BY <2>1, <2>2 DEF RoundsInv, ClockOK, StakeShape
<1>3. CASE open_round
  <2>1. /\ StakeShape(atStake') /\ ClockOK' /\ round' = round + 1
        /\ \A r \in Rounds : r >= round /\ r # round' + 1 => atStake'[r] = atStake[r]
    BY <1>3, HookStaked DEF RoundsInv, PointsOK, open_round, new_round
  <2>2. UNCHANGED <<awarded, earned>> /\ snapshot_if_due(block + 1, round + 1, block + 1, atStake)
    BY <1>3 DEF open_round, BlockStarts, prepare_staking_payouts
  <2>3. \A r \in Rounds : r # round + 2 => atStake'[r] = atStake[r]
    <3>1. PICK now : now = round + 1
      OBVIOUS
    <3>2. now + 1 \in Rounds
      BY <1>1, <1>3, <3>1, StakingAssumption DEF open_round, new_round, Rounds
    <3>3. snapshot_if_due(block + 1, now, block + 1, atStake)
      BY <2>2, <3>1
    <3>4. StakeShape(atStake) /\ pool \subseteq Bond
      BY <1>1 DEF RoundsInv
    <3>5. /\ StakeShape(atStake')
          /\ \A r \in Rounds \ {now + 1} : atStake'[r] = atStake[r]
          /\ should_snapshot(block + 1, block + 1) => selected' \subseteq Staked(atStake', now + 1)
          /\ ~ should_snapshot(block + 1, block + 1) =>
                atStake' = atStake /\ UNCHANGED <<selected, groupingVars>>
      BY <3>2, <3>3, <3>4, SnapshotStaked
    <3> QED
      BY <1>1, <3>1, <3>5
  <2>4. PointsOK'
    <3> SUFFICES ASSUME NEW r \in Rounds, NEW a \in Accounts,
                        r >= round' \/ atStake'[r][a].present
                 PROVE  awarded[r][a] = earned[r][a]
      BY <2>2 DEF PointsOK, RoundsInv
    <3>1. r >= round \/ atStake[r][a].present
      BY <1>1, <2>1, <2>3 DEF Rounds
    <3> QED
      BY <3>1 DEF RoundsInv, PointsOK
  <2> QED
    BY <2>1, <2>4 DEF RoundsInv, StakeShape
<1>4. CASE continue_round
  <2>1. StakeShape(atStake') /\ ClockOK' /\ round' = round /\ earned' = earned
    BY <1>4, HookStaked DEF RoundsInv, PointsOK, continue_round, vars
  <2>2. PICK stake :
            /\ StakeShape(stake)
            /\ snapshot_if_due(block + 1, round, first, stake)
            /\ awarded' \in [Rounds -> [Accounts -> Nat]]
            /\ \A r \in Rounds : r >= round => stake[r] = atStake[r] /\ awarded'[r] = awarded[r]
            /\ \A r \in Rounds, a \in Accounts :
                  stake[r][a].present =>
                     atStake[r][a].present /\ awarded'[r][a] = awarded[r][a]
    <3>1. ClockOK /\ StakeShape(atStake) /\ awarded \in [Rounds -> [Accounts -> Nat]]
      BY DEF RoundsInv, PointsOK
    <3> QED
      BY <1>4, <3>1, PayoutStep, Zenon
  <2>3. \A r \in Rounds : r # round + 1 => atStake'[r] = stake[r]
    <3>1. PICK now : now = round
      OBVIOUS
    <3>2. StakeShape(stake) /\ snapshot_if_due(block + 1, now, first, stake)
      BY <2>2, <3>1
    <3>3. now + 1 \in Rounds
      BY <1>1, <3>1
    <3>4. pool \subseteq Bond
      BY <1>1
    <3>5. /\ StakeShape(atStake')
          /\ \A r \in Rounds \ {now + 1} : atStake'[r] = stake[r]
          /\ should_snapshot(block + 1, first) => selected' \subseteq Staked(atStake', now + 1)
          /\ ~ should_snapshot(block + 1, first) =>
                atStake' = stake /\ UNCHANGED <<selected, groupingVars>>
      BY <3>2, <3>3, <3>4, SnapshotStaked
    <3> QED
      BY <3>1, <3>5
  <2>4. PointsOK'
    <3> SUFFICES ASSUME NEW r \in Rounds, NEW a \in Accounts,
                        r >= round' \/ atStake'[r][a].present
                 PROVE  awarded'[r][a] = earned[r][a]
      BY <2>1, <2>2 DEF PointsOK, RoundsInv
    <3>1. CASE r >= round
      BY <2>2, <3>1 DEF RoundsInv, PointsOK
    <3>2. CASE ~(r >= round)
      <4>1. r # round + 1
        BY <1>1, <3>2 DEF Rounds
      <4>2. stake[r][a].present
        BY <2>1, <2>3, <3>2, <4>1
      <4> QED
        BY <2>2, <4>2 DEF RoundsInv, PointsOK
    <3> QED
      BY <3>1, <3>2
  <2> QED
    BY <2>1, <2>4 DEF RoundsInv, StakeShape
<1> QED
  BY <1>2, <1>3, <1>4 DEF RoundsStep

\* At genesis there are neither points nor stakes.
LEMMA RoundsInitInv == RoundsInit => RoundsInv
<1> SUFFICES ASSUME RoundsInit PROVE RoundsInv
  OBVIOUS
<1>1. ClockOK
  BY StakingAssumption DEF RoundsInit, Init, ClockOK
<1>2. StakeShape(atStake)
  BY DEF RoundsInit, StakeShape
<1>3. PointsOK
  BY DEF RoundsInit, PointsOK
<1> QED
  BY <1>1, <1>2, <1>3 DEF RoundsInv

\* RoundsInv holds in every reachable state of the composed rounds.
LEMMA RoundsInvariance == RoundsSpec => [](TypeOK /\ RoundsInv)
<1>1. TypeOK /\ RoundsInv /\ [RoundsNext]_allVars => RoundsInv'
  BY StepsOfRounds, RoundsStepInv
<1> QED
  BY <1>1, RoundsInitInv, RoundsRunTheLedger, TypeCorrect, PTL DEF RoundsSpec

\* For any number of rounds the window reaches back and any delay of the payouts:
\* a sequencer with a point in the window cannot be reported as inactive, because
\* its points are deleted together with its stake.
THEOREM ActiveStay == RoundsSpec => []ActiveNotNotified
<1>1. RoundsInv => ActiveNotNotified
  BY DEF RoundsInv, PointsOK, ActiveNotNotified, CanBeNotified, RoundsToCheck
<1> QED
  BY <1>1, RoundsInvariance, PTL

----------------------------------------------------------------------------
(* The sequencers that were selected.                                      *)

\* The length of every round leaves room for its snapshot. Genesis sees to it,
\* set_blocks_per_round only if MinBlocksPerRound is large enough.
SnapshotFits == MinBlocksPerRound > SnapshotTimePoint

SelectedInv == length \in Nat /\ length > SnapshotTimePoint /\ SelectedHaveSnapshots

\* The snapshot is taken in the first three quarters of a round.
LEMMA TimePoint ==
  /\ SnapshotTimePoint \in Nat
  /\ SnapshotTimePoint < GenesisBlocksPerRound
  /\ GenesisBlocksPerRound >= 2 => SnapshotTimePoint > 0
  BY RoundsAssumption DEF SnapshotTimePoint

\* When a round is opened its sequencers have been selected, with their stakes;
\* what payouts take away is of earlier rounds.
LEMMA SelectedStepInv ==
  ASSUME SnapshotFits, TypeOK, RoundsInv, SelectedInv, RoundsStep
  PROVE  SelectedInv'
<1> DEFINE stp == SnapshotTimePoint
<1>1. stp \in Nat /\ block \in Nat /\ first \in Nat /\ first <= block /\ length \in Nat /\ length > stp
  BY TimePoint DEF RoundsInv, ClockOK, SelectedInv
<1>2. round \in Nat /\ round \in Rounds /\ round + 1 \in Rounds
  BY StakingAssumption DEF RoundsInv, ClockOK, Rounds
<1>3. selected \subseteq Staked(atStake, IF block - first >= stp THEN round + 1 ELSE round)
  BY DEF SelectedInv, SelectedHaveSnapshots
<1> HIDE DEF stp
<1>4. CASE AnyCall
  <2>1. UNCHANGED <<round, block, first, selected, atStake>>
    BY <1>4, CallsKeepRound
  <2>2. length' \in Nat /\ length' > SnapshotTimePoint
    <3>1. ASSUME NEW new \in BlockLengths, set_blocks_per_round(new)
          PROVE  length' \in Nat /\ length' > SnapshotTimePoint
      BY <1>1, <3>1, RoundsAssumption DEF set_blocks_per_round, SnapshotFits, stp
    <3>2. length' = length \/ \E new \in BlockLengths : set_blocks_per_round(new)
      BY <1>4 DEF AnyCall, RoundCall, LedgerCall, GroupingCall, RoundsIdle, charge_reward_account,
                  set_sequencer_commission, enable_marking_offline, notify_inactive_sequencer,
                  award_points_to_sequencer
    <3> QED
      BY <1>1, <3>1, <3>2 DEF stp
  <2>3. SelectedHaveSnapshots'
    BY <2>1 DEF SelectedInv, SelectedHaveSnapshots, Staked
  <2> QED
    BY <2>2, <2>3 DEF SelectedInv
<1>5. CASE open_round \/ continue_round
  <2>1. /\ UNCHANGED length /\ ClockOK'
        /\ \A r \in Rounds : r >= round /\ r # round' + 1 => atStake'[r] = atStake[r]
        /\ should_snapshot(block', first') => selected' \subseteq Staked(atStake', round' + 1)
        /\ ~ should_snapshot(block', first') =>
              /\ atStake'[round' + 1] = atStake[round' + 1]
              /\ UNCHANGED <<selected, groupingVars>>
        /\ block' = block + 1
        /\ \/ open_round /\ round' = round + 1 /\ first' = block'
           \/ continue_round /\ UNCHANGED <<round, first>>
    BY <1>5, HookStaked DEF RoundsInv, PointsOK
  <2>2. round' + 1 \in Rounds /\ round' \in Rounds
    BY <2>1, StakingAssumption DEF ClockOK, Rounds
  <2>3. CASE should_snapshot(block', first')
    <3>1. block' - first' >= stp
      BY <1>1, <2>1, <2>3 DEF should_snapshot, stp
    <3>2. selected' \subseteq Staked(atStake', IF block' - first' >= stp THEN round' + 1 ELSE round')
      BY <2>1, <2>3, <3>1
    <3> QED
      BY <1>1, <2>1, <3>2 DEF SelectedInv, SelectedHaveSnapshots, stp, SnapshotTimePoint
  <2>4. CASE ~ should_snapshot(block', first')
    <3>1. selected' = selected /\ block' - first' # stp
      BY <2>1, <2>4 DEF should_snapshot, stp
    <3>2. CASE open_round
      <4>1. (block + 1) - first >= length /\ first' = block' /\ round' = round + 1
        <5>1. should_update(block + 1) /\ first' = block' /\ round' = round + 1
          BY <2>1, <3>2 DEF open_round, new_round
        <5> QED
          BY <5>1 DEF should_update
      <4>2. block - first >= stp /\ ~(block' - first' >= stp)
        BY <1>1, <2>1, <3>1, <4>1
      <4>3. atStake'[round'] = atStake[round + 1]
        BY <1>2, <2>1, <2>2, <4>1
      <4>4. selected' \subseteq Staked(atStake', round')
        BY <1>3, <3>1, <4>2, <4>3 DEF Staked
      <4> QED
        BY <1>1, <2>1, <4>2, <4>4 DEF SelectedInv, SelectedHaveSnapshots, stp, SnapshotTimePoint
    <3>3. CASE continue_round /\ UNCHANGED <<round, first>>
      <4>1. block' - first' >= stp <=> block - first >= stp
        BY <1>1, <2>1, <3>1, <3>3
      <4>2. atStake'[round] = atStake[round] /\ atStake'[round + 1] = atStake[round + 1]
        BY <1>2, <2>1, <2>4, <3>3
      <4>3. selected' \subseteq Staked(atStake', IF block' - first' >= stp THEN round' + 1 ELSE round')
        BY <1>3, <3>1, <3>3, <4>1, <4>2 DEF Staked
      <4> QED
        BY <1>1, <2>1, <4>3 DEF SelectedInv, SelectedHaveSnapshots, stp, SnapshotTimePoint
    <3> QED
      BY <2>1, <3>2, <3>3
  <2> QED
    BY <2>3, <2>4
<1> QED
  BY <1>4, <1>5 DEF RoundsStep

\* The expect of select_top_candidates is met in every round, however the pool
\* ran empty: "all selected candidates have snapshots".
THEOREM SelectedStayStaked ==
  ASSUME SnapshotFits
  PROVE  RoundsSpec => []SelectedHaveSnapshots
<1>1. RoundsInit => SelectedInv
  BY TimePoint, RoundsAssumption DEF RoundsInit, SelectedInv, SelectedHaveSnapshots
<1>2. TypeOK /\ RoundsInv /\ SelectedInv /\ [RoundsNext]_allVars => SelectedInv'
  BY StepsOfRounds, SelectedStepInv
<1>3. SelectedInv => SelectedHaveSnapshots
  BY DEF SelectedInv
<1> QED
  BY <1>1, <1>2, <1>3, RoundsInvariance, PTL DEF RoundsSpec

----------------------------------------------------------------------------
(* What a snapshot adds up to.                                             *)

\* A snapshot divides a reward by what its shares add up to.
SnapshotOK(s) ==
    /\ s.bond \in Nat /\ s.total \in Nat
    /\ s.delegations \in Seq(Bond) /\ Len(s.delegations) <= MaxTopDelegationsPerCandidate
    /\ s.total = s.bond + SumOf(s.delegations)

StakesOK(stake) == StakeShape(stake) /\ \A r \in Rounds, a \in Accounts : SnapshotOK(stake[r][a])

\* An absent snapshot is of nothing.
LEMMA NoSnapshotOK == SnapshotOK(NoSnapshot)
<1>1. SumOf(<<>>) = 0
  <2> DEFINE f == [i \in DOMAIN <<>> |-> <<>>[i].amount]
  <2>1. DOMAIN f = {}
    OBVIOUS
  <2> HIDE DEF f
  <2>2. SumFunctionOnSet(f, {}) = 0
    BY SumUnfolds, FS_EmptySet
  <2>3. SumOf(<<>>) = SumFunctionOnSet(f, DOMAIN f)
    BY DEF SumOf, SumFunction, f
  <2> QED
    BY <2>1, <2>2, <2>3
<1>2. /\ NoSnapshot.bond = 0 /\ NoSnapshot.total = 0 /\ NoSnapshot.delegations = <<>>
  BY DEF NoSnapshot
<1>3. <<>> \in Seq(Bond) /\ Len(<<>>) = 0
  OBVIOUS
<1> QED
  BY <1>1, <1>2, <1>3, CapacityAssumption DEF SnapshotOK

\* What a delegator asks back of a top delegation and what its snapshot counts
\* make up the delegation: a request fits the bond it is about.
LEMMA TopBondSplits ==
  ASSUME IInv, LedgerInv, NEW c \in Accounts, NEW x \in Bonds(book[c].top)
  PROVE  /\ x \in Bond /\ x.amount \in Nat
         /\ rewardable(c, x) \in Nat /\ uncounted(c, x) \in Nat
         /\ rewardable(c, x) + uncounted(c, x) = x.amount
<1> DEFINE n == delegatorState[x.owner].bonds[c]
           q == requests[c][x.owner]
<1>1. Arranged(book[c]) /\ HeldBy(book[c], BondsTo(c)) /\ x \in Held(book[c])
  BY BookSays DEF Held
<1>2. x \in Bond
  BY <1>1, HeldFacts
<1>3. x.owner \in Accounts /\ x.amount \in Nat
  BY <1>2 DEF Bond
<1>4. n = x.amount
  <2>1. BondsTo(c)[x.owner] = x.amount
    BY <1>1 DEF HeldBy
  <2> QED
    BY <1>3, <2>1 DEF BondsTo
<1>5. TypeOK
  BY DEF IInv
<1>6. Fits(n, q) /\ q \in Request
  BY <1>3, <1>5, EntrySays, LedgerTypes
<1>7. q.kind \in {"none", "revoke", "decrease"} /\ q.amount \in Nat
  BY <1>6 DEF Request
<1>8. q.kind = "decrease" => x.amount >= q.amount
  BY <1>3, <1>4, <1>6, <1>7, StakingAssumption DEF Fits
<1>9. /\ rewardable(c, x) = CASE q.kind = "none"     -> x.amount
                              [] q.kind = "revoke"   -> 0
                              [] q.kind = "decrease" -> SatSub(x.amount, q.amount)
      /\ uncounted(c, x) = CASE q.kind = "none"     -> 0
                             [] q.kind = "revoke"   -> x.amount
                             [] q.kind = "decrease" -> q.amount
  BY DEF rewardable, uncounted
<1> HIDE DEF q
<1> QED
  BY <1>2, <1>3, <1>7, <1>8, <1>9 DEF SatSub

\* The total of a new snapshot, taken from what the candidate is ranked by, is the
\* self bond and what the delegations of the snapshot add up to.
LEMMA SnapshotTaken ==
  ASSUME IInv, LedgerInv, NEW c \in Accounts
  PROVE  SnapshotOK(snapshot_of(c))
<1> DEFINE s == book[c].top
           D == DOMAIN s
           cut == [i \in D |-> [s[i] EXCEPT !.amount = rewardable(c, s[i])]]
           f == [i \in D |-> cut[i].amount]
           g == [i \in D |-> uncounted(c, s[i])]
           h == [i \in D |-> s[i].amount]
<1>1. GoodBook(book[c]) /\ book[c] \in Book /\ Arranged(book[c])
  BY BookSays
<1>2. /\ s \in Seq(Bond) /\ Len(s) \in Nat /\ D = 1 .. Len(s)
      /\ \A i \in D : s[i] \in Bonds(s)
  <2>1. Tidy(s)
    BY <1>1 DEF Arranged
  <2> HIDE DEF s
  <2>2. /\ s \in Seq(Bond) /\ Len(s) \in Nat /\ DOMAIN s = 1 .. Len(s)
        /\ \A i \in 1 .. Len(s) : s[i] \in Bonds(s)
    BY <2>1, TidyFacts
  <2> QED
    BY <2>2
<1>3. /\ book[c].bond \in Nat /\ book[c].counted = book[c].bond + book[c].topTotal
      /\ book[c].topTotal = SumOf(s) /\ SumOf(s) \in Nat
      /\ Len(s) <= MaxTopDelegationsPerCandidate
  BY <1>1, SumOfBonds DEF GoodBook, MetadataOK, TopMetadataOK, Arranged, Book
<1> HIDE DEF s
<1>4. \A i \in D : /\ s[i] \in Bond /\ s[i].amount \in Nat
                   /\ rewardable(c, s[i]) \in Nat /\ uncounted(c, s[i]) \in Nat
                   /\ rewardable(c, s[i]) + uncounted(c, s[i]) = s[i].amount
  BY <1>2, TopBondSplits DEF s
<1>5. \A i \in D : cut[i] \in Bond /\ cut[i].amount = rewardable(c, s[i])
  BY <1>4 DEF Bond
<1>6. cut \in Seq(Bond) /\ Len(cut) = Len(s) /\ DOMAIN cut = D
  <2>1. cut \in [1 .. Len(s) -> Bond]
    BY <1>2, <1>5
  <2> HIDE DEF cut
  <2> QED
    BY <1>2, <2>1, LenProperties
<1>7. \A i \in D : f[i] \in Nat /\ g[i] \in Nat /\ h[i] = f[i] + g[i]
  BY <1>4, <1>5
<1>8. /\ SumOf(cut) = SumFunctionOnSet(f, D)
      /\ uncounted_stake(c) = SumFunctionOnSet(g, D)
      /\ SumOf(s) = SumFunctionOnSet(h, D)
  BY <1>6 DEF SumOf, SumFunction, uncounted_stake, s
<1>9. IsFiniteSet(D)
  BY <1>2, IntervalSize
<1> HIDE DEF f, g, h, D
<1>10. /\ SumFunctionOnSet(h, D) = SumFunctionOnSet(f, D) + SumFunctionOnSet(g, D)
       /\ SumFunctionOnSet(f, D) \in Nat /\ SumFunctionOnSet(g, D) \in Nat
  BY <1>7, <1>9, SumsAdd, SumPicks
<1>11. SatSub(book[c].counted, uncounted_stake(c)) = book[c].bond + SumOf(cut)
  <2> DEFINE u == uncounted_stake(c)
             v == SumOf(cut)
  <2>1. u \in Nat /\ v \in Nat /\ book[c].counted = book[c].bond + (v + u)
    BY <1>3, <1>8, <1>10
  <2> HIDE DEF u, v
  <2>2. SatSub(book[c].counted, u) = book[c].bond + v
    BY <1>3, <2>1 DEF SatSub
  <2> QED
    BY <2>2 DEF u, v
<1>12. SumOf(cut) \in Nat
  BY <1>8, <1>10
<1>13. /\ snapshot_of(c).bond = book[c].bond
       /\ snapshot_of(c).delegations = cut
       /\ snapshot_of(c).total = SatSub(book[c].counted, uncounted_stake(c))
  BY DEF snapshot_of, s, D
<1> HIDE DEF cut
<1> QED
  BY <1>3, <1>6, <1>11, <1>12, <1>13 DEF SnapshotOK

\* The snapshots of the next round are new ones or those of the round before.
LEMMA SelectionTotals ==
  ASSUME IInv, LedgerInv, NEW stake, StakesOK(stake), NEW now, now \in Rounds, now + 1 \in Rounds,
         NEW n, NEW start, snapshot_if_due(n, now, start, stake)
  PROVE  StakesOK(atStake')
<1>1. CASE should_snapshot(n, start)
  <2> DEFINE top == compute_top_candidates
             next == now + 1
             new == next_stakes(stake, next, top)
  <2>1. atStake' = [stake EXCEPT ![next] = new]
    BY <1>1 DEF snapshot_if_due, select_top_candidates
  <2>2. /\ DOMAIN new = Accounts
        /\ \A a \in Accounts : new[a] = stake[next - 1][a] \/ new[a] = snapshot_of(a)
                               \/ new[a] = stake[next][a]
    BY DEF next_stakes
  <2>3. next - 1 = now /\ next \in Rounds
    BY StakingAssumption DEF Rounds
  <2> HIDE DEF new, next
  <2>4. \A a \in Accounts : SnapshotOK(new[a])
    BY <2>2, <2>3, SnapshotTaken DEF StakesOK
  <2> QED
    BY <2>1, <2>2, <2>3, <2>4 DEF StakesOK, StakeShape
<1>2. CASE ~ should_snapshot(n, start)
  BY <1>2 DEF snapshot_if_due
<1> QED
  BY <1>1, <1>2

\* A paid sequencer has no snapshot left.
LEMMA DrainTotals ==
  ASSUME StakesOK(atStake), NEW r \in Rounds, NEW s \in Accounts
  PROVE  StakesOK(drain(r, s))
<1> DEFINE left == [atStake[r] EXCEPT ![s] = NoSnapshot]
<1>1. drain(r, s) = [atStake EXCEPT ![r] = left]
  BY DEF drain
<1>2. DOMAIN left = Accounts /\ \A a \in Accounts : left[a] = NoSnapshot \/ left[a] = atStake[r][a]
  BY DEF StakesOK, StakeShape
<1> HIDE DEF left
<1>3. \A a \in Accounts : SnapshotOK(left[a])
  BY <1>2, NoSnapshotOK DEF StakesOK
<1> QED
  BY <1>1, <1>2, <1>3 DEF StakesOK, StakeShape

\* Every block and every call keeps the totals.
LEMMA TotalsStepInv ==
  ASSUME IInv, LedgerInv, ClockOK, StakesOK(atStake), RoundsStep
  PROVE  StakesOK(atStake')
<1>1. round \in Rounds /\ round + 1 \in Rounds
  BY StakingAssumption DEF ClockOK, Rounds
<1>2. CASE AnyCall
  <2>1. atStake' = atStake
    BY <1>2, CallsKeepRound
  <2> QED
    BY <2>1 DEF StakesOK, StakeShape
<1>3. CASE open_round
  <2>1. PICK now : now = round + 1
    OBVIOUS
  <2>2. snapshot_if_due(block + 1, now, block + 1, atStake) /\ now \in Rounds /\ now + 1 \in Rounds
    BY <1>1, <1>3, <2>1, StakingAssumption DEF open_round, new_round, ClockOK, Rounds
  <2> QED
    BY <2>2, SelectionTotals
<1>4. CASE continue_round
  <2>1. PICK stake : StakesOK(stake) /\ snapshot_if_due(block + 1, round, first, stake)
    <3>1. CASE snapshot_if_due(block + 1, round, first, atStake)
      BY <3>1
    <3>2. ASSUME NEW r, PayoutPending(r), NEW s \in Staked(atStake, r),
                 snapshot_if_due(block + 1, round, first, drain(r, s))
          PROVE  \E stake : StakesOK(stake) /\ snapshot_if_due(block + 1, round, first, stake)
      BY <3>2, DrainTotals DEF PayoutPending, Staked
    <3> QED
      BY <1>4, <3>1, <3>2 DEF continue_round
  <2>2. PICK now : now = round
    OBVIOUS
  <2>3. snapshot_if_due(block + 1, now, first, stake) /\ now \in Rounds /\ now + 1 \in Rounds
    BY <1>1, <2>1, <2>2
  <2> QED
    BY <2>1, <2>3, SelectionTotals
<1> QED
  BY <1>2, <1>3, <1>4 DEF RoundsStep

\* What the ledger and the rounds keep, under one name.
LEMMA AllRoundsInvariance == RoundsSpec => [](IInv /\ LedgerInv /\ RoundsInv /\ StakesOK(atStake))
<1>1. RoundsInit => StakesOK(atStake)
  BY NoSnapshotOK DEF RoundsInit, StakesOK, StakeShape
<1>2. IInv /\ LedgerInv /\ RoundsInv /\ StakesOK(atStake) /\ [RoundsNext]_allVars => StakesOK(atStake)'
  BY StepsOfRounds, TotalsStepInv DEF RoundsInv
<1> QED
  BY <1>1, <1>2, RoundsRunTheLedger, RoundsInvariance, Invariance, LedgerInvariance, PTL DEF RoundsSpec

\* The total a snapshot divides a reward by is what its shares add up to, however
\* the delegations and the requests about them came about: nobody is paid for
\* stake that is not in the total.
THEOREM SnapshotsAddUp == RoundsSpec => []SnapshotTotals
<1>1. StakesOK(atStake) => SnapshotTotals
  BY DEF StakesOK, SnapshotOK, SnapshotTotals
<1> QED
  BY <1>1, AllRoundsInvariance, PTL

----------------------------------------------------------------------------
(* How many are at stake.                                                  *)

\* The metrics and the lengths of rounds that genesis and root can set.
AcceptedMetrics ==
    {GenesisMetric} \cup {m \in Metrics : m.size <= MaxGroupSize /\ m.number <= MaxGroupNumber}
RoundLengths == {GenesisBlocksPerRound} \cup {l \in BlockLengths : l >= MinBlocksPerRound}

\* Whatever root sets, a round is longer than it has sequencers to pay: than the
\* metric selects, or than the pool holds. set_blocks_per_round compares with the
\* metric in force, set_group_metric with nothing; the pool of the runtime holds
\* 1000 candidates, and root can set no round below 1440 blocks.
PayoutsFit ==
    \A m \in AcceptedMetrics, l \in RoundLengths : m.size * m.number < l \/ MaxCandidates < l

\* Any round has room for the payouts of round r, less the blocks used up.
HasRoom(stake, r, used) == \A l \in RoundLengths : Cardinality(Staked(stake, r)) + used < l

\* The entries of the pool that rank before q
Above(q) == {o \in pool : Outranks(o, q)}

\* Who outranks another has fewer entries above it.
LEMMA FewerAbove ==
  ASSUME IInv, NEW p \in pool, NEW q \in pool, Outranks(p, q)
  PROVE  /\ Cardinality(Above(p)) \in Nat /\ Cardinality(Above(q)) \in Nat
         /\ Cardinality(Above(p)) < Cardinality(Above(q))
<1>1. /\ IsFiniteSet(pool)
      /\ \A o \in pool : o.amount \in Nat /\ Place(o.owner) \in Nat
  BY PoolEntries, PlaceOfAccount
<1>2. Above(p) \in SUBSET Above(q) /\ Above(q) \in SUBSET pool
  <2>1. \A o \in pool : Outranks(o, p) => Outranks(o, q)
    BY <1>1 DEF Outranks
  <2> QED
    BY <2>1 DEF Above
<1>3. p \in Above(q) /\ p \notin Above(p)
  BY <1>1 DEF Above, Outranks
<1>4. IsFiniteSet(Above(q))
  BY <1>1, <1>2, FS_Subset
<1>5. /\ IsFiniteSet(Above(p)) /\ Cardinality(Above(p)) <= Cardinality(Above(q))
      /\ Cardinality(Above(q)) # Cardinality(Above(p))
  BY <1>2, <1>3, <1>4, FS_Subset
<1>6. Cardinality(Above(p)) \in Nat /\ Cardinality(Above(q)) \in Nat
  BY <1>4, <1>5, FS_CardinalityType
<1> QED
  BY <1>5, <1>6

\* No more candidates are selected than the groups have places, or the pool has.
LEMMA FewAreSelected ==
  ASSUME IInv, PoolFits, total_selected \in Nat
  PROVE  /\ compute_top_candidates \in SUBSET Accounts
         /\ Cardinality(compute_top_candidates) <= total_selected
         /\ Cardinality(compute_top_candidates) <= MaxCandidates
<1> DEFINE top == compute_top_candidates
           k == total_selected
           f == [a \in top |-> Cardinality(Above(PoolEntry(a, book[a].counted)))]
<1>1. top \in SUBSET Accounts
  BY TopAreAccounts DEF IInv, TypeOK
<1>2. ASSUME NEW a \in top
      PROVE  LET q == PoolEntry(a, book[a].counted)
             IN  q \in pool /\ q.owner = a /\ Cardinality(Above(q)) < k
  <2>1. PICK q \in pool : a = q.owner /\ Cardinality(Above(q)) < k
    BY DEF compute_top_candidates, Above
  <2>2. q = PoolEntry(q.owner, book[q.owner].counted)
    BY DEF IInv, PoolMatchesActive, PoolEntry
  <2> QED
    BY <2>1, <2>2
<1>3. ASSUME NEW a \in top PROVE f[a] \in 0 .. k - 1
  <2> DEFINE q == PoolEntry(a, book[a].counted)
  <2>1. Cardinality(Above(q)) < k
    BY <1>2
  <2>2. Cardinality(Above(q)) \in Nat
    <3>1. Above(q) \in SUBSET pool
      BY DEF Above
    <3> QED
      BY <3>1, PoolEntries, FS_Subset, FS_CardinalityType
  <2> QED
    BY <2>1, <2>2
<1>4. ASSUME NEW a \in top, NEW b \in top, a # b PROVE f[a] # f[b]
  <2> DEFINE p == PoolEntry(a, book[a].counted)
             q == PoolEntry(b, book[b].counted)
  <2>1. p \in pool /\ q \in pool /\ p.owner = a /\ q.owner = b
    BY <1>2
  <2>2. f[a] = Cardinality(Above(p)) /\ f[b] = Cardinality(Above(q))
    OBVIOUS
  <2> HIDE DEF p, q, f
  <2>3. p.amount \in Nat /\ q.amount \in Nat /\ Place(a) \in Nat /\ Place(b) \in Nat /\ Place(a) # Place(b)
    BY <1>1, <1>4, <2>1, PoolEntries, PlaceOfAccount
  <2>4. Outranks(p, q) \/ Outranks(q, p)
    BY <2>1, <2>3 DEF Outranks
  <2>5. /\ Outranks(p, q) => /\ Cardinality(Above(p)) \in Nat /\ Cardinality(Above(q)) \in Nat
                             /\ Cardinality(Above(p)) < Cardinality(Above(q))
        /\ Outranks(q, p) => /\ Cardinality(Above(q)) \in Nat /\ Cardinality(Above(p)) \in Nat
                             /\ Cardinality(Above(q)) < Cardinality(Above(p))
    BY <2>1, FewerAbove
  <2> QED
    BY <2>2, <2>4, <2>5
<1>5. f \in Injection(top, 0 .. k - 1)
  <2>1. f \in [top -> 0 .. k - 1] /\ \A a, b \in top : f[a] = f[b] => a = b
    BY <1>3, <1>4
  <2> HIDE DEF f, top, k
  <2> QED
    BY <2>1 DEF Injection, IsInjective
<1> HIDE DEF f, top, k
<1>6. k \in Nat
  BY DEF k
<1>7. IsFiniteSet(0 .. k - 1) /\ Cardinality(0 .. k - 1) = k
  BY <1>6, FS_Interval
<1>8. Cardinality(top) <= k
  BY <1>5, <1>7, FS_Injection
<1>9. Cardinality(top) <= MaxCandidates
  <2> DEFINE g == [a \in top |-> PoolEntry(a, book[a].counted)]
  <2>1. g \in [top -> pool] /\ \A a, b \in top : g[a] = g[b] => a = b
    BY <1>2 DEF PoolEntry
  <2> HIDE DEF g
  <2>2. g \in Injection(top, pool)
    BY <2>1 DEF Injection, IsInjective
  <2>3. Cardinality(top) <= Cardinality(pool) /\ IsFiniteSet(top) /\ IsFiniteSet(pool)
    BY <2>2, PoolEntries, FS_Injection
  <2>4. Cardinality(top) \in Nat /\ Cardinality(pool) \in Nat
    BY <2>3, FS_CardinalityType
  <2> QED
    BY <2>3, <2>4, StakingAssumption DEF PoolFits
<1> QED
  BY <1>1, <1>8, <1>9 DEF top, k

\* Who is at stake is an account.
LEMMA StakedAreFew ==
  ASSUME NEW stake, NEW r
  PROVE  /\ Staked(stake, r) \in SUBSET Accounts /\ IsFiniteSet(Staked(stake, r))
         /\ Cardinality(Staked(stake, r)) \in Nat
         /\ Cardinality(Staked(stake, r)) = 0 <=> Staked(stake, r) = {}
<1>1. Staked(stake, r) \in SUBSET Accounts
  BY DEF Staked
<1>2. IsFiniteSet(Staked(stake, r))
  BY <1>1, AccountsAssumption, FS_Subset
<1> QED
  BY <1>1, <1>2, FS_CardinalityType, FS_EmptySet

\* stake is atStake, or less of it.
Shrunk(stake) ==
    StakeShape(stake) /\ \A r \in Rounds : Staked(stake, r) \in SUBSET Staked(atStake, r)

\* Less stake needs less room.
LEMMA ShrunkHasRoom ==
  ASSUME NEW stake, Shrunk(stake), NEW r \in Rounds, HasRoom(atStake, r, 0)
  PROVE  HasRoom(stake, r, 0)
<1>1. Cardinality(Staked(stake, r)) <= Cardinality(Staked(atStake, r))
  <2>1. Staked(stake, r) \in SUBSET Staked(atStake, r)
    BY DEF Shrunk
  <2> QED
    BY <2>1, StakedAreFew, FS_Subset
<1>2. Cardinality(Staked(stake, r)) \in Nat /\ Cardinality(Staked(atStake, r)) \in Nat
  BY StakedAreFew
<1>3. \A l \in RoundLengths : l \in Nat
  BY RoundsAssumption DEF RoundLengths
<1> QED
  BY <1>1, <1>2, <1>3 DEF HasRoom

\* No step has more at stake in a round than any round has room for; a round has
\* nobody at stake before its snapshot.
CountInv ==
    /\ PoolFits
    /\ metric \in AcceptedMetrics /\ length \in RoundLengths
    /\ \A r \in Rounds : HasRoom(atStake, r, 0)
    /\ \A r \in Rounds : r > round + 1 => Staked(atStake, r) = {}
    /\ block - first < SnapshotTimePoint => Staked(atStake, round + 1) = {}

\* The metric in force selects fewer than a round has blocks, or the pool holds
\* fewer.
LEMMA MetricFits ==
  ASSUME PayoutsFit, metric \in AcceptedMetrics
  PROVE  /\ total_selected \in Nat
         /\ \A l \in RoundLengths : l \in Nat /\ (total_selected < l \/ MaxCandidates < l)
<1>1. metric \in Metric
  BY GroupingAssumption DEF AcceptedMetrics
<1>2. metric.size \in Nat /\ metric.number \in Nat
  BY <1>1 DEF Metric
<1>3. metric.size * metric.number \in Nat
  BY <1>2
<1>4. \A l \in RoundLengths : l \in Nat
  BY RoundsAssumption DEF RoundLengths
<1> QED
  BY <1>3, <1>4 DEF total_selected, PayoutsFit

\* A snapshot leaves any round room for the payouts of every round.
LEMMA SelectionHasRoom ==
  ASSUME IInv, PayoutsFit, CountInv, NEW stake, Shrunk(stake),
         NEW now, now \in Rounds, now + 1 \in Rounds, NEW n, NEW start,
         snapshot_if_due(n, now, start, stake),
         should_snapshot(n, start) => Staked(stake, now + 1) = {}
  PROVE  /\ StakeShape(atStake') /\ metric' = metric
         /\ \A r \in Rounds \ {now + 1} : atStake'[r] = stake[r]
         /\ ~ should_snapshot(n, start) => atStake' = stake
         /\ \A r \in Rounds : HasRoom(atStake', r, 0)
<1> DEFINE next == now + 1
           top == compute_top_candidates
           new == next_stakes(stake, next, top)
<1>1. StakeShape(stake) /\ pool \subseteq Bond
  BY DEF Shrunk, IInv, TypeOK
<1>2. /\ StakeShape(atStake')
      /\ \A r \in Rounds \ {now + 1} : atStake'[r] = stake[r]
      /\ should_snapshot(n, start) => selected' \subseteq Staked(atStake', now + 1)
      /\ ~ should_snapshot(n, start) => atStake' = stake /\ UNCHANGED <<selected, groupingVars>>
  BY <1>1, SnapshotStaked
<1>3. metric' = metric
  BY <1>2 DEF snapshot_if_due, trigger_group, groupingVars
<1>4. \A r \in Rounds : HasRoom(stake, r, 0)
  BY ShrunkHasRoom DEF CountInv
<1>5. \A r \in Rounds \ {next} : HasRoom(atStake', r, 0)
  BY <1>2, <1>4 DEF HasRoom, Staked
<1>6. HasRoom(atStake', next, 0)
  <2>1. CASE ~ should_snapshot(n, start)
    BY <1>2, <1>4, <2>1
  <2>2. CASE should_snapshot(n, start)
    <3>1. atStake' = [stake EXCEPT ![next] = new]
      BY <2>2 DEF snapshot_if_due, select_top_candidates
    <3>2. atStake'[next] = new
      BY <1>1, <3>1 DEF StakeShape
    <3>3. /\ top \in SUBSET Accounts /\ total_selected \in Nat /\ MaxCandidates \in Nat
          /\ Cardinality(top) <= total_selected /\ Cardinality(top) <= MaxCandidates
          /\ \A l \in RoundLengths : l \in Nat /\ (total_selected < l \/ MaxCandidates < l)
      BY FewAreSelected, MetricFits, StakingAssumption DEF CountInv
    <3>4. now = next - 1 /\ now \in Rounds
      BY StakingAssumption DEF Rounds
    <3>5. \A a \in Accounts : new[a] = IF top = {} /\ stake[now][a].present THEN stake[now][a]
                                       ELSE IF a \in top THEN snapshot_of(a) ELSE stake[next][a]
      BY <3>4 DEF next_stakes
    <3>6. \A a \in Accounts : ~ stake[next][a].present
      BY <2>2 DEF Staked
    <3>7. \A a : snapshot_of(a).present
      BY DEF snapshot_of
    <3> HIDE DEF top, new, next
    <3>8. CASE top = {}
      <4>1. Staked(atStake', next) = Staked(stake, now)
        BY <3>2, <3>5, <3>6, <3>8 DEF Staked
      <4> QED
        BY <1>4, <3>4, <4>1 DEF HasRoom
    <3>9. CASE top # {}
      <4>1. Staked(atStake', next) = top
        BY <3>2, <3>3, <3>5, <3>6, <3>7, <3>9 DEF Staked
      <4>2. Cardinality(top) \in Nat
        BY <4>1, StakedAreFew
      <4> QED
        BY <3>3, <4>1, <4>2 DEF HasRoom
    <3> QED
      BY <3>8, <3>9
  <2> QED
    BY <2>1, <2>2
<1> QED
  BY <1>2, <1>3, <1>5, <1>6

\* A payout takes one sequencer's stake away.
LEMMA DrainedStakes ==
  ASSUME StakeShape(atStake), NEW p \in Rounds, NEW s \in Accounts
  PROVE  /\ Shrunk(drain(p, s)) /\ Staked(drain(p, s), p) = Staked(atStake, p) \ {s}
         /\ \A r \in Rounds \ {p} : drain(p, s)[r] = atStake[r]
         /\ \A a \in Accounts \ {s} : drain(p, s)[p][a] = atStake[p][a]
         /\ ~ drain(p, s)[p][s].present
<1> DEFINE left == [atStake[p] EXCEPT ![s] = NoSnapshot]
           stake == drain(p, s)
<1>1. stake = [atStake EXCEPT ![p] = left]
  BY DEF drain
<1>2. /\ DOMAIN left = Accounts /\ left[s] = NoSnapshot
      /\ \A a \in Accounts \ {s} : left[a] = atStake[p][a]
  BY DEF StakeShape
<1> HIDE DEF left, stake
<1>3. /\ StakeShape(stake) /\ stake[p] = left
      /\ \A r \in Rounds \ {p} : stake[r] = atStake[r]
  BY <1>1, <1>2 DEF StakeShape
<1>4. ~ NoSnapshot.present
  BY DEF NoSnapshot
<1>5. Staked(stake, p) = Staked(atStake, p) \ {s}
  BY <1>2, <1>3, <1>4 DEF Staked
<1>6. \A r \in Rounds : Staked(stake, r) \in SUBSET Staked(atStake, r)
  BY <1>3, <1>5 DEF Staked
<1> QED
  BY <1>2, <1>3, <1>4, <1>5, <1>6 DEF Shrunk, stake

\* One sequencer of round p is paid, and its stake is taken away.
Pays(p, stake) ==
    /\ PayoutPending(p) /\ points[p] # 0
    /\ \E s \in Staked(atStake, p) : pay_one_sequencer_reward(p, s) /\ stake = drain(p, s)

\* The payouts of round p are over.
Ends(p, stake) ==
    /\ PayoutPending(p)
    /\ points[p] = 0 \/ Staked(atStake, p) = {}
    /\ finish_payouts(p) /\ stake = atStake

\* Nothing is paid.
Waits(p, stake) ==
    /\ ~PayoutPending(p) /\ stake = atStake
    /\ UNCHANGED <<points, awarded, delayedPayouts, rewardPot, paidOut, unpaid, undivided>>

\* A block that opens no round: what it pays, and with which stakes it goes on.
LEMMA PayoutCases ==
  ASSUME StakeShape(atStake), continue_round,
         NEW p, p = round - RewardPaymentDelay
  PROVE  \E stake :
            /\ Shrunk(stake) /\ snapshot_if_due(block + 1, round, first, stake)
            /\ Waits(p, stake) \/ Ends(p, stake) \/ Pays(p, stake)
<1>1. Shrunk(atStake)
  BY DEF Shrunk
<1>2. CASE /\ ~PayoutPending(p)
           /\ UNCHANGED <<points, awarded, delayedPayouts, rewardPot, paidOut, unpaid, undivided>>
           /\ snapshot_if_due(block + 1, round, first, atStake)
  BY <1>1, <1>2 DEF Waits
<1>3. CASE /\ PayoutPending(p)
           /\ points[p] = 0 \/ Staked(atStake, p) = {}
           /\ finish_payouts(p)
           /\ snapshot_if_due(block + 1, round, first, atStake)
  BY <1>1, <1>3 DEF Ends
<1>4. CASE /\ PayoutPending(p)
           /\ points[p] # 0
           /\ \E s \in Staked(atStake, p) :
                 /\ pay_one_sequencer_reward(p, s)
                 /\ snapshot_if_due(block + 1, round, first, drain(p, s))
  <2>1. PICK s \in Staked(atStake, p) :
                 /\ pay_one_sequencer_reward(p, s)
                 /\ snapshot_if_due(block + 1, round, first, drain(p, s))
    BY <1>4
  <2>2. p \in Rounds /\ s \in Accounts
    BY <1>4 DEF PayoutPending, Staked
  <2>3. Shrunk(drain(p, s))
    BY <2>2, DrainedStakes
  <2>4. Pays(p, drain(p, s))
    BY <1>4, <2>1 DEF Pays
  <2> QED
    BY <2>1, <2>3, <2>4
<1> QED
  BY <1>2, <1>3, <1>4 DEF continue_round

\* The blocks of a round, as far as the counts go.
LEMMA CountStepInv ==
  ASSUME IInv, PayoutsFit, RoundsInv, CountInv, RoundsStep
  PROVE  CountInv'
<1>0. PoolFits'
  BY PoolKeepsFitting, CallIsLedgerStep, HookIsLedgerStep DEF RoundsStep, CountInv
<1>1. round \in Rounds /\ round + 1 \in Rounds /\ round \in Nat /\ StakeShape(atStake)
      /\ block \in Nat /\ first \in Nat /\ first <= block
  BY StakingAssumption DEF RoundsInv, ClockOK, Rounds
<1>2. CASE AnyCall
  <2>1. UNCHANGED <<round, block, first, selected, atStake>>
    BY <1>2, CallsKeepRound
  <2>2. metric' \in AcceptedMetrics
    <3>1. metric' = metric \/ \E new \in Metrics : set_group_metric(new)
      BY <1>2 DEF AnyCall, RoundCall, LedgerCall, GroupingCall, GroupingNext, RoundsIdle, groupingVars,
             benchmark_trigger_group, trigger_group, register_processor,
             charge_reward_account, set_sequencer_commission, set_blocks_per_round,
             enable_marking_offline, notify_inactive_sequencer, award_points_to_sequencer
    <3> QED
      BY <3>1 DEF set_group_metric, AcceptedMetrics, CountInv
  <2>3. length' \in RoundLengths
    <3>1. length' = length \/ \E new \in BlockLengths : set_blocks_per_round(new)
      BY <1>2 DEF AnyCall, RoundCall, LedgerCall, GroupingCall, RoundsIdle,
             charge_reward_account, set_sequencer_commission,
             enable_marking_offline, notify_inactive_sequencer, award_points_to_sequencer
    <3> QED
      BY <3>1 DEF set_blocks_per_round, RoundLengths, CountInv
  <2> QED
    BY <1>0, <2>1, <2>2, <2>3 DEF CountInv, HasRoom, Staked
<1>3. CASE open_round
  <2>1. PICK now : now = round + 1
    OBVIOUS
  <2>2. /\ snapshot_if_due(block + 1, now, block + 1, atStake) /\ now \in Rounds /\ now + 1 \in Rounds
        /\ round' = round + 1 /\ first' = block + 1 /\ block' = block + 1 /\ length' = length
    BY <1>1, <1>3, <2>1, StakingAssumption DEF open_round, new_round, BlockStarts, ClockOK, Rounds
  <2>3. Shrunk(atStake) /\ Staked(atStake, now + 1) = {}
    BY <1>1, <2>1, <2>2 DEF Shrunk, CountInv
  <2>4. /\ StakeShape(atStake') /\ metric' = metric
        /\ \A r \in Rounds \ {now + 1} : atStake'[r] = atStake[r]
        /\ ~ should_snapshot(block + 1, block + 1) => atStake' = atStake
        /\ \A r \in Rounds : HasRoom(atStake', r, 0)
    BY <2>2, <2>3, SelectionHasRoom
  <2>5. \A r \in Rounds : r > round' + 1 => Staked(atStake', r) = {}
    <3>1. SUFFICES ASSUME NEW r \in Rounds, r > round' + 1 PROVE Staked(atStake', r) = {}
      OBVIOUS
    <3>2. r # now + 1 /\ r > round + 1
      BY <1>1, <2>1, <2>2, <3>1 DEF Rounds
    <3>3. Staked(atStake, r) = {} /\ atStake'[r] = atStake[r]
      BY <2>4, <3>2 DEF CountInv
    <3> QED
      BY <3>3 DEF Staked
  <2>6. ASSUME block' - first' < SnapshotTimePoint PROVE Staked(atStake', round' + 1) = {}
    <3>1. ~ should_snapshot(block + 1, block + 1)
      BY <1>1, <2>2, <2>6, TimePoint DEF should_snapshot
    <3> QED
      BY <2>1, <2>2, <2>3, <2>4, <3>1
  <2> QED
    BY <1>0, <2>2, <2>4, <2>5, <2>6 DEF CountInv
<1>4. CASE continue_round
  <2>1. PICK p : p = round - RewardPaymentDelay
    OBVIOUS
  <2>2. PICK stake : Shrunk(stake) /\ snapshot_if_due(block + 1, round, first, stake)
    <3>1. \E stake :
            /\ Shrunk(stake) /\ snapshot_if_due(block + 1, round, first, stake)
            /\ Waits(p, stake) \/ Ends(p, stake) \/ Pays(p, stake)
      BY <1>1, <1>4, <2>1, PayoutCases
    <3> QED
      BY <3>1
  <2>3. PICK now : now = round
    OBVIOUS
  <2>4. round' = round /\ first' = first /\ block' = block + 1 /\ length' = length
    BY <1>4 DEF continue_round, BlockStarts, vars
  <2>5. /\ snapshot_if_due(block + 1, now, first, stake) /\ now \in Rounds /\ now + 1 \in Rounds
    BY <1>1, <2>2, <2>3
  <2>6. should_snapshot(block + 1, first) => Staked(stake, now + 1) = {}
    <3>1. SUFFICES ASSUME should_snapshot(block + 1, first) PROVE Staked(stake, now + 1) = {}
      OBVIOUS
    <3>2. block - first < SnapshotTimePoint
      BY <1>1, <3>1, TimePoint DEF should_snapshot
    <3>3. Staked(atStake, now + 1) = {}
      BY <2>3, <3>2 DEF CountInv
    <3> QED
      BY <2>2, <2>5, <3>3 DEF Shrunk
  <2>7. /\ StakeShape(atStake') /\ metric' = metric
        /\ \A r \in Rounds \ {now + 1} : atStake'[r] = stake[r]
        /\ ~ should_snapshot(block + 1, first) => atStake' = stake
        /\ \A r \in Rounds : HasRoom(atStake', r, 0)
    BY <2>2, <2>5, <2>6, SelectionHasRoom
  <2>8. \A r \in Rounds : r > round + 1 => Staked(atStake', r) = {}
    <3>1. SUFFICES ASSUME NEW r \in Rounds, r > round + 1 PROVE Staked(atStake', r) = {}
      OBVIOUS
    <3>2. r # now + 1
      BY <1>1, <2>3, <3>1 DEF Rounds
    <3>3. Staked(atStake, r) = {} /\ atStake'[r] = stake[r]
      BY <2>7, <3>1, <3>2 DEF CountInv
    <3>4. Staked(stake, r) = {}
      BY <2>2, <3>3 DEF Shrunk
    <3> QED
      BY <3>3, <3>4 DEF Staked
  <2>9. ASSUME block' - first' < SnapshotTimePoint PROVE Staked(atStake', round + 1) = {}
    <3>1. ~ should_snapshot(block + 1, first) /\ block - first < SnapshotTimePoint
      BY <1>1, <2>4, <2>9, TimePoint DEF should_snapshot
    <3>2. atStake' = stake /\ Staked(atStake, round + 1) = {}
      BY <2>7, <3>1 DEF CountInv
    <3> QED
      BY <1>1, <2>2, <3>2 DEF Shrunk
  <2> QED
    BY <1>0, <2>4, <2>7, <2>8, <2>9 DEF CountInv
<1> QED
  BY <1>2, <1>3, <1>4 DEF RoundsStep

\* Nobody is at stake at genesis.
LEMMA CountInitInv == PayoutsFit /\ RoundsInit => CountInv
<1> SUFFICES ASSUME PayoutsFit, RoundsInit PROVE CountInv
  OBVIOUS
<1>1. /\ metric = GenesisMetric /\ length = GenesisBlocksPerRound
      /\ atStake = [r \in Rounds |-> [a \in Accounts |-> NoSnapshot]] /\ round = 1
  BY DEF RoundsInit, GroupingInit, Init
<1>2. metric \in AcceptedMetrics /\ length \in RoundLengths
  BY <1>1 DEF AcceptedMetrics, RoundLengths
<1>3. \A r \in Rounds : Staked(atStake, r) = {}
  BY <1>1 DEF Staked, NoSnapshot
<1>4. \A l \in RoundLengths : l \in Nat /\ 0 < l
  BY <1>2, MetricFits, StakingAssumption
<1>5. round + 1 \in Rounds
  BY <1>1, StakingAssumption DEF Rounds
<1>6. PoolFits
  BY PoolFitsAtFirst DEF RoundsInit
<1> QED
  BY <1>2, <1>3, <1>4, <1>5, <1>6, FS_EmptySet DEF CountInv, HasRoom

----------------------------------------------------------------------------
(* Payouts in time.                                                        *)

\* Payouts wait for a round that is over and has points; who has a point of a
\* round without payouts is not at stake in it any more.
PendingInv ==
    /\ points \in [Rounds -> Nat] /\ delayedPayouts \in [Rounds -> 0 .. NoPayout]
    /\ commission \in 0 .. Accuracy
    /\ \A r \in Rounds : PayoutPending(r) => r < round /\ points[r] # 0
    /\ \A r \in Rounds, a \in Accounts : r >= round /\ points[r] = 0 => awarded[r][a] = 0
    /\ \A r \in Rounds : r < round /\ ~PayoutPending(r) =>
          \A a \in Staked(atStake, r) : awarded[r][a] = 0

\* What a payment changes of the points and of the payouts that wait: payments
\* neither end the payouts of a round nor take its points away.
LEMMA PaymentKeeps ==
  ASSUME RoundsInv, PendingInv, NEW p \in Rounds, NEW s \in Accounts, pay_one_sequencer_reward(p, s)
  PROVE  /\ points' = points /\ delayedPayouts' = delayedPayouts
         /\ awarded' \in [Rounds -> [Accounts -> Nat]]
         /\ \A r \in Rounds \ {p} : awarded'[r] = awarded[r]
         /\ \A a \in Accounts \ {s} : awarded'[p][a] = awarded[p][a]
<1> DEFINE kept == [awarded[p] EXCEPT ![s] = 0]
<1>1. /\ awarded \in [Rounds -> [Accounts -> Nat]]
      /\ points \in [Rounds -> Nat] /\ delayedPayouts \in [Rounds -> 0 .. NoPayout]
  BY DEF RoundsInv, PointsOK, PendingInv
<1>2. ~ cleans_up("Skipped") /\ ~ cleans_up("Paid")
  BY DEF cleans_up
<1>3. points' = points /\ delayedPayouts' = delayedPayouts
  BY <1>1, <1>2 DEF pay_one_sequencer_reward
<1>4. awarded' = [awarded EXCEPT ![p] = kept]
  BY DEF pay_one_sequencer_reward
<1>5. kept \in [Accounts -> Nat] /\ \A a \in Accounts \ {s} : kept[a] = awarded[p][a]
  BY <1>1
<1> HIDE DEF kept
<1> QED
  BY <1>1, <1>3, <1>4, <1>5

\* The stakes of the rounds that are over are those the payouts left.
LEMMA OverStakes ==
  ASSUME RoundsInv, IInv, RoundsStep
  PROVE  /\ round' \in Nat /\ round' >= round
         /\ \A r \in Rounds : r <= round' => Staked(atStake', r) \in SUBSET Staked(atStake, r)
         /\ ~continue_round => \A r \in Rounds : r <= round' => atStake'[r] = atStake[r]
<1>1. round \in Rounds /\ round + 1 \in Rounds /\ round \in Nat /\ StakeShape(atStake)
      /\ pool \subseteq Bond
  BY StakingAssumption DEF RoundsInv, ClockOK, Rounds, IInv, TypeOK
<1>2. CASE AnyCall
  <2>1. UNCHANGED <<round, atStake>>
    BY <1>2, CallsKeepRound
  <2> QED
    BY <1>1, <2>1
<1>3. CASE open_round
  <2>1. PICK now : now = round + 1
    OBVIOUS
  <2>2. /\ snapshot_if_due(block + 1, now, block + 1, atStake) /\ now + 1 \in Rounds
        /\ round' = round + 1
    BY <1>1, <1>3, <2>1, StakingAssumption DEF open_round, new_round, Rounds
  <2>3. /\ StakeShape(atStake')
        /\ \A r \in Rounds \ {now + 1} : atStake'[r] = atStake[r]
        /\ should_snapshot(block + 1, block + 1) => selected' \subseteq Staked(atStake', now + 1)
        /\ ~ should_snapshot(block + 1, block + 1) => atStake' = atStake /\ UNCHANGED <<selected, groupingVars>>
    BY <1>1, <2>2, SnapshotStaked
  <2>4. \A r \in Rounds : r <= round' => r # now + 1
    BY <1>1, <2>1, <2>2 DEF Rounds
  <2>5. \A r \in Rounds : r <= round' => atStake'[r] = atStake[r]
    BY <2>3, <2>4
  <2> QED
    BY <1>1, <2>2, <2>5 DEF Staked
<1>4. CASE continue_round
  <2>1. PICK p : p = round - RewardPaymentDelay
    OBVIOUS
  <2>2. PICK stake : Shrunk(stake) /\ snapshot_if_due(block + 1, round, first, stake)
    <3>1. \E stake :
            /\ Shrunk(stake) /\ snapshot_if_due(block + 1, round, first, stake)
            /\ Waits(p, stake) \/ Ends(p, stake) \/ Pays(p, stake)
      BY <1>1, <1>4, <2>1, PayoutCases
    <3> QED
      BY <3>1
  <2>3. PICK now : now = round
    OBVIOUS
  <2>4. snapshot_if_due(block + 1, now, first, stake) /\ now + 1 \in Rounds /\ StakeShape(stake)
    BY <1>1, <2>2, <2>3 DEF Shrunk
  <2>5. /\ StakeShape(atStake')
        /\ \A r \in Rounds \ {now + 1} : atStake'[r] = stake[r]
        /\ should_snapshot(block + 1, first) => selected' \subseteq Staked(atStake', now + 1)
        /\ ~ should_snapshot(block + 1, first) => atStake' = stake /\ UNCHANGED <<selected, groupingVars>>
    BY <1>1, <2>4, SnapshotStaked
  <2>6. round' = round
    BY <1>4 DEF continue_round, vars
  <2>7. ASSUME NEW r \in Rounds, r <= round PROVE Staked(atStake', r) \in SUBSET Staked(atStake, r)
    <3>1. r # now + 1
      BY <1>1, <2>3, <2>7 DEF Rounds
    <3>2. Staked(atStake', r) = Staked(stake, r)
      BY <2>5, <3>1 DEF Staked
    <3> QED
      BY <2>2, <3>2 DEF Shrunk
  <2> QED
    BY <1>1, <1>4, <2>6, <2>7
<1> QED
  BY <1>2, <1>3, <1>4 DEF RoundsStep

\* An award adds the same to the points of the round and to those of the sequencer.
LEMMA AwardKeepsPending ==
  ASSUME RoundsInv, PendingInv, NEW s \in Awardees, NEW p \in Awards, award_points_to_sequencer(s, p)
  PROVE  PendingInv'
<1> DEFINE w == [awarded[round] EXCEPT ![s] = @ + p]
<1>1. s \in Accounts /\ p \in Nat /\ round \in Rounds
  BY RoundsAssumption, StakingAssumption DEF RoundsInv, ClockOK, Rounds
<1>2. /\ awarded' = [awarded EXCEPT ![round] = w]
      /\ points' = [points EXCEPT ![round] = @ + p]
      /\ UNCHANGED <<round, atStake, delayedPayouts, commission>>
  BY DEF award_points_to_sequencer, points_plus, vars
<1>3. awarded \in [Rounds -> [Accounts -> Nat]] /\ points \in [Rounds -> Nat]
  BY DEF RoundsInv, PointsOK, PendingInv
<1>4. /\ w \in [Accounts -> Nat] /\ w[s] = awarded[round][s] + p
      /\ \A a \in Accounts \ {s} : w[a] = awarded[round][a]
  BY <1>1, <1>3
<1> HIDE DEF w
<1>5. /\ awarded'[round] = w /\ \A r \in Rounds \ {round} : awarded'[r] = awarded[r]
      /\ points' \in [Rounds -> Nat] /\ points'[round] = points[round] + p
      /\ \A r \in Rounds \ {round} : points'[r] = points[r]
  BY <1>1, <1>2, <1>3
<1>6. ASSUME NEW r \in Rounds, NEW a \in Accounts, r >= round, points'[r] = 0
      PROVE  awarded'[r][a] = 0
  <2>1. CASE r = round
    <3>1. p = 0 /\ points[round] = 0
      BY <1>1, <1>3, <1>5, <1>6, <2>1
    <3>2. awarded[round][a] = 0
      BY <1>1, <1>6, <2>1, <3>1 DEF PendingInv
    <3> QED
      BY <1>1, <1>4, <1>5, <2>1, <3>1, <3>2
  <2>2. CASE r # round
    BY <1>5, <1>6, <2>2 DEF PendingInv
  <2> QED
    BY <2>1, <2>2
<1>7. ASSUME NEW r \in Rounds, r < round PROVE r # round
  BY <1>1, <1>7 DEF Rounds
<1>8. \A r \in Rounds : PayoutPending(r)' <=> PayoutPending(r)
  BY <1>2 DEF PayoutPending
<1>9. \A r \in Rounds : PayoutPending(r)' => r < round' /\ points'[r] # 0
  BY <1>2, <1>5, <1>7, <1>8 DEF PendingInv
<1>10. \A r \in Rounds : r < round' /\ ~PayoutPending(r)' => \A a \in Staked(atStake', r) : awarded'[r][a] = 0
  BY <1>2, <1>5, <1>7, <1>8 DEF PendingInv, Staked
<1> QED
  BY <1>2, <1>5, <1>6, <1>9, <1>10 DEF PendingInv

\* The payouts of round p are paid, or end, or do not concern the block.
LEMMA PayoutKeepsPending ==
  ASSUME IInv, RoundsInv, PendingInv, continue_round
  PROVE  PendingInv'
<1>1. /\ round' = round /\ commission' = commission /\ StakeShape(atStake) /\ round \in Nat
      /\ awarded \in [Rounds -> [Accounts -> Nat]]
  BY DEF continue_round, BlockStarts, vars, RoundsInv, ClockOK, PointsOK
<1>2. PICK p : p = round - RewardPaymentDelay
  OBVIOUS
<1>3. PICK stake : /\ Shrunk(stake) /\ snapshot_if_due(block + 1, round, first, stake)
                   /\ Waits(p, stake) \/ Ends(p, stake) \/ Pays(p, stake)
  BY <1>1, <1>2, PayoutCases
<1>4. /\ points \in [Rounds -> Nat] /\ delayedPayouts \in [Rounds -> 0 .. NoPayout]
      /\ NoPayout \in 0 .. NoPayout
  BY RoundsAssumption DEF PendingInv, NoPayout
<1>5. \A r \in Rounds : r <= round => Staked(atStake', r) \in SUBSET Staked(atStake, r)
  BY <1>1, OverStakes DEF RoundsStep
<1>6. \A r \in Rounds : r < round => r <= round /\ ~(r >= round)
  BY <1>1 DEF Rounds
<1>7. CASE Waits(p, stake)
  <2>1. UNCHANGED <<points, awarded, delayedPayouts>>
    BY <1>7 DEF Waits
  <2> QED
    BY <1>1, <1>5, <1>6, <2>1 DEF PendingInv, PayoutPending
<1>8. CASE Ends(p, stake)
  <2>1. /\ p \in Rounds /\ p < round /\ Staked(atStake, p) = {} /\ ~(p >= round)
    BY <1>6, <1>8 DEF Ends, PendingInv, PayoutPending
  <2>2. /\ delayedPayouts' = [delayedPayouts EXCEPT ![p] = NoPayout]
        /\ points' = [points EXCEPT ![p] = 0] /\ awarded' = awarded
    BY <1>8 DEF Ends, finish_payouts
  <2>3. /\ delayedPayouts' \in [Rounds -> 0 .. NoPayout] /\ points' \in [Rounds -> Nat]
        /\ \A r \in Rounds : r # p => delayedPayouts'[r] = delayedPayouts[r] /\ points'[r] = points[r]
        /\ delayedPayouts'[p] = NoPayout
    BY <1>4, <2>1, <2>2
  <2>4. \A r \in Rounds : PayoutPending(r)' <=> r # p /\ PayoutPending(r)
    BY <2>3 DEF PayoutPending
  <2>5. \A r \in Rounds : PayoutPending(r)' => r < round /\ points'[r] # 0
    BY <2>3, <2>4 DEF PendingInv
  <2>6. \A r \in Rounds, a \in Accounts : r >= round /\ points'[r] = 0 => awarded[r][a] = 0
    BY <2>1, <2>3 DEF PendingInv
  <2>7. \A r \in Rounds : r < round /\ ~PayoutPending(r)' =>
          \A a \in Staked(atStake', r) : awarded[r][a] = 0
    BY <1>5, <1>6, <2>1, <2>4 DEF PendingInv
  <2> QED
    BY <1>1, <2>2, <2>3, <2>5, <2>6, <2>7 DEF PendingInv
<1>9. CASE Pays(p, stake)
  <2>1. PICK s \in Staked(atStake, p) : pay_one_sequencer_reward(p, s)
    BY <1>9 DEF Pays
  <2>2. p \in Rounds /\ s \in Accounts /\ PayoutPending(p) /\ p < round
    BY <1>9, <2>1 DEF Pays, PayoutPending, Staked, PendingInv
  <2>3. /\ points' = points /\ delayedPayouts' = delayedPayouts
        /\ \A r \in Rounds \ {p} : awarded'[r] = awarded[r]
    BY <2>1, <2>2, PaymentKeeps
  <2>4. \A r \in Rounds : PayoutPending(r)' <=> PayoutPending(r)
    BY <2>3 DEF PayoutPending
  <2>5. \A r \in Rounds, a \in Accounts : r >= round /\ points'[r] = 0 => awarded'[r][a] = 0
    <3>1. \A r \in Rounds : r >= round => r # p
      BY <1>6, <2>2
    <3> QED
      BY <2>3, <3>1 DEF PendingInv
  <2>6. \A r \in Rounds : r < round /\ ~PayoutPending(r)' =>
          \A a \in Staked(atStake', r) : awarded'[r][a] = 0
    BY <1>5, <1>6, <2>2, <2>3, <2>4 DEF PendingInv
  <2> QED
    BY <1>1, <2>3, <2>4, <2>5, <2>6 DEF PendingInv
<1> QED
  BY <1>3, <1>7, <1>8, <1>9

\* When a round opens, the payouts of the one that ends wait if it has points.
LEMMA OpeningKeepsPending ==
  ASSUME IInv, RoundsInv, PendingInv, open_round
  PROVE  PendingInv'
<1>1. /\ round' = round + 1 /\ commission' = commission /\ round \in Nat /\ round \in Rounds
      /\ prepare_staking_payouts(round) /\ points' = points /\ awarded' = awarded
  BY StakingAssumption DEF open_round, BlockStarts, new_round, prepare_staking_payouts,
     RoundsInv, ClockOK, Rounds
<1>2. /\ points \in [Rounds -> Nat] /\ delayedPayouts \in [Rounds -> 0 .. NoPayout]
      /\ commission \in 0 .. NoPayout /\ commission # NoPayout
  BY RoundsAssumption DEF PendingInv, NoPayout
<1>3. \A r \in Rounds : r <= round' => atStake'[r] = atStake[r]
  <2>1. ~continue_round
    BY <1>1 DEF continue_round, vars
  <2> QED
    BY <2>1, OverStakes DEF RoundsStep
<1>4. \A r \in Rounds : r < round' <=> r < round \/ r = round
  BY <1>1 DEF Rounds
<1>5. \A r \in Rounds : r < round' => r <= round' /\ atStake'[r] = atStake[r]
  BY <1>1, <1>3 DEF Rounds
<1>6. /\ delayedPayouts' \in [Rounds -> 0 .. NoPayout]
      /\ \A r \in Rounds : r # round => delayedPayouts'[r] = delayedPayouts[r]
      /\ points[round] = 0 => delayedPayouts'[round] = delayedPayouts[round]
      /\ points[round] # 0 => delayedPayouts'[round] # NoPayout
  BY <1>1, <1>2 DEF prepare_staking_payouts
<1>7. ~PayoutPending(round)
  BY <1>1 DEF PendingInv
<1>8. \A r \in Rounds : PayoutPending(r)' <=> PayoutPending(r) \/ (r = round /\ points[round] # 0)
  BY <1>1, <1>6, <1>7 DEF PayoutPending
<1>9. \A r \in Rounds : PayoutPending(r)' => r < round' /\ points[r] # 0
  BY <1>4, <1>8 DEF PendingInv
<1>10. \A r \in Rounds, a \in Accounts : r >= round' /\ points[r] = 0 => awarded[r][a] = 0
  BY <1>1 DEF PendingInv, Rounds
<1>11. ASSUME NEW r \in Rounds, r < round', ~PayoutPending(r)', NEW a \in Staked(atStake', r)
       PROVE  awarded[r][a] = 0
  <2>1. a \in Accounts /\ a \in Staked(atStake, r)
    BY <1>5, <1>11 DEF Staked
  <2>2. CASE r = round
    BY <1>1, <1>8, <1>11, <2>1, <2>2 DEF PendingInv
  <2>3. CASE r < round
    BY <1>8, <1>11, <2>1, <2>3 DEF PendingInv
  <2> QED
    BY <1>4, <1>11, <2>2, <2>3
<1> QED
  BY <1>1, <1>2, <1>6, <1>9, <1>10, <1>11 DEF PendingInv

\* Every step keeps points and payouts in line.
LEMMA PendingStepInv ==
  ASSUME IInv, RoundsInv, PendingInv, RoundsStep
  PROVE  PendingInv'
<1>1. CASE AnyCall
  <2>1. UNCHANGED <<round, atStake>>
    BY <1>1, CallsKeepRound
  <2>2. CASE \E s \in Awardees, p \in Awards : award_points_to_sequencer(s, p)
    BY <2>2, AwardKeepsPending
  <2>3. CASE UNCHANGED <<points, awarded, delayedPayouts>> /\ commission' \in 0 .. Accuracy
    BY <2>1, <2>3 DEF PendingInv, PayoutPending, Staked
  <2>4. \/ \E s \in Awardees, p \in Awards : award_points_to_sequencer(s, p)
        \/ UNCHANGED <<points, awarded, delayedPayouts>> /\ commission' \in {commission} \cup Commissions
    BY <1>1 DEF AnyCall, RoundCall, LedgerCall, GroupingCall, RoundsIdle,
           charge_reward_account, set_sequencer_commission, set_blocks_per_round,
           enable_marking_offline, notify_inactive_sequencer
  <2> QED
    BY <2>2, <2>3, <2>4, RoundsAssumption DEF PendingInv
<1> QED
  BY <1>1, PayoutKeepsPending, OpeningKeepsPending DEF RoundsStep

\* At genesis nothing waits.
LEMMA PendingInitInv == RoundsInit => PendingInv
<1> SUFFICES ASSUME RoundsInit PROVE PendingInv
  OBVIOUS
<1>1. /\ points = [r \in Rounds |-> 0] /\ delayedPayouts = [r \in Rounds |-> NoPayout]
      /\ awarded = [r \in Rounds |-> [a \in Accounts |-> 0]] /\ commission = GenesisCommission
      /\ atStake = [r \in Rounds |-> [a \in Accounts |-> NoSnapshot]]
  BY DEF RoundsInit
<1>2. points \in [Rounds -> Nat] /\ delayedPayouts \in [Rounds -> 0 .. NoPayout] /\ commission \in 0 .. Accuracy
  BY <1>1, RoundsAssumption DEF NoPayout
<1>3. \A r \in Rounds : ~PayoutPending(r)
  BY <1>1 DEF PayoutPending
<1>4. \A r \in Rounds, a \in Accounts : awarded[r][a] = 0
  BY <1>1
<1> QED
  BY <1>2, <1>3, <1>4 DEF PendingInv, Staked

\* While the payouts of a round run, the rest of the round they are paid in has
\* room for them; afterwards nobody of it is left at stake, unless there were none.
TimeInv ==
    \A r \in Rounds : PayoutPending(r) =>
       /\ r + RewardPaymentDelay = round => HasRoom(atStake, r, block - first)
       /\ r + RewardPaymentDelay < round => Staked(atStake, r) = {}

\* When the next round opens, the payouts have had their blocks.
LEMMA OpeningKeepsTime ==
  ASSUME IInv, RoundsInv, PendingInv, CountInv, CountInv', TimeInv, open_round
  PROVE  TimeInv'
<1> DEFINE d == RewardPaymentDelay
<1>1. /\ round' = round + 1 /\ round \in Nat /\ round \in Rounds
      /\ block' = first' /\ block' \in Nat /\ should_update(block + 1)
      /\ block \in Nat /\ first \in Nat /\ first <= block
      /\ prepare_staking_payouts(round)
  BY StakingAssumption DEF open_round, BlockStarts, new_round, RoundsInv, ClockOK, Rounds
<1>2. d \in Nat /\ d >= 1
  BY RoundsAssumption
<1> HIDE DEF d
<1>3. \A r \in Rounds : r <= round' => atStake'[r] = atStake[r]
  <2>1. ~continue_round
    BY <1>1 DEF continue_round, vars
  <2> QED
    BY <2>1, OverStakes DEF RoundsStep
<1>4. \A r \in Rounds : PayoutPending(r)' => r = round \/ PayoutPending(r)
  BY <1>1 DEF prepare_staking_payouts, PayoutPending, PendingInv
<1>5. ASSUME NEW r \in Rounds, PayoutPending(r)', r + d < round'
      PROVE  Staked(atStake', r) = {}
  <2>1. r \in Nat /\ r < round /\ r + d <= round
    BY <1>1, <1>2, <1>5 DEF Rounds
  <2>2. PayoutPending(r)
    BY <1>1, <1>4, <1>5, <2>1
  <2>3. Staked(atStake', r) = Staked(atStake, r)
    BY <1>1, <1>3, <2>1 DEF Staked
  <2>4. CASE r + d < round
    BY <2>2, <2>3, <2>4 DEF TimeInv, d
  <2>5. CASE r + d = round
    <3>1. HasRoom(atStake, r, block - first)
      BY <2>2, <2>5 DEF TimeInv, d
    <3>2. length \in RoundLengths /\ length \in Nat
      BY RoundsAssumption DEF CountInv, RoundLengths
    <3>3. Cardinality(Staked(atStake, r)) + (block - first) < length
      BY <3>1, <3>2 DEF HasRoom
    <3>4. (block + 1) - first >= length
      BY <1>1 DEF should_update
    <3>5. Cardinality(Staked(atStake, r)) = 0
      <4>1. Cardinality(Staked(atStake, r)) \in Nat
        BY StakedAreFew
      <4> QED
        BY <1>1, <3>2, <3>3, <3>4, <4>1
    <3> QED
      BY <2>3, <3>5, StakedAreFew
  <2> QED
    BY <1>1, <1>2, <2>1, <2>4, <2>5
<1>6. ASSUME NEW r \in Rounds PROVE HasRoom(atStake', r, block' - first')
  <2>1. HasRoom(atStake', r, 0)
    BY DEF CountInv
  <2>2. block' - first' = 0
    <3>1. \A m, n \in Nat : m = n => m - n = 0
      OBVIOUS
    <3>2. block' \in Nat /\ first' \in Nat /\ block' = first'
      BY <1>1
    <3> QED
      BY <3>1, <3>2, Zenon
  <2> QED
    BY <2>1, <2>2
<1> QED
  BY <1>5, <1>6 DEF TimeInv, d

\* A block pays one sequencer and uses up one block; who has nobody left to pay
\* ends the payouts.
LEMMA PayoutKeepsTime ==
  ASSUME IInv, RoundsInv, PendingInv, CountInv, TimeInv, continue_round
  PROVE  TimeInv'
<1> DEFINE d == RewardPaymentDelay
<1>1. /\ round' = round /\ first' = first /\ block' = block + 1 /\ StakeShape(atStake)
      /\ round \in Nat /\ round \in Rounds /\ block \in Nat /\ first \in Nat /\ first <= block
  BY StakingAssumption DEF continue_round, BlockStarts, vars, RoundsInv, ClockOK, Rounds
<1>2. d \in Nat /\ d >= 1
  BY RoundsAssumption
<1>3. PICK p : p = round - d
  OBVIOUS
<1>4. PICK stake : /\ Shrunk(stake) /\ snapshot_if_due(block + 1, round, first, stake)
                   /\ Waits(p, stake) \/ Ends(p, stake) \/ Pays(p, stake)
  BY <1>1, <1>3, PayoutCases
<1> HIDE DEF d
<1>5. \A r \in Rounds : PayoutPending(r) => r < round /\ r \in Nat /\ r <= round'
  BY <1>1 DEF PendingInv, Rounds
<1>6. \A r \in Rounds : PayoutPending(r)' => PayoutPending(r) /\ ~(r = p /\ (Waits(p, stake) \/ Ends(p, stake)))
  <2>1. CASE Waits(p, stake)
    BY <2>1 DEF Waits, PayoutPending
  <2>2. CASE Ends(p, stake)
    BY <2>2 DEF Ends, finish_payouts, PayoutPending, PendingInv
  <2>3. CASE Pays(p, stake)
    <3>1. PICK s \in Staked(atStake, p) : pay_one_sequencer_reward(p, s)
      BY <2>3 DEF Pays
    <3>2. p \in Rounds /\ s \in Accounts
      BY <2>3, <3>1 DEF Pays, PayoutPending, Staked
    <3>3. delayedPayouts' = delayedPayouts
      BY <3>1, <3>2, PaymentKeeps
    <3>4. ~Waits(p, stake) /\ ~Ends(p, stake)
      <4>1. PayoutPending(p) /\ points[p] # 0 /\ Staked(atStake, p) # {}
        BY <2>3, <3>1 DEF Pays
      <4> QED
        BY <4>1 DEF Waits, Ends
    <3> QED
      BY <3>3, <3>4 DEF PayoutPending
  <2> QED
    BY <1>4, <2>1, <2>2, <2>3
<1>7. ASSUME NEW r \in Rounds, PayoutPending(r)', r + d < round'
      PROVE  Staked(atStake', r) = {}
  <2>1. Staked(atStake, r) = {}
    BY <1>1, <1>6, <1>7 DEF TimeInv, d
  <2>2. Staked(atStake', r) \in SUBSET Staked(atStake, r)
    BY <1>5, <1>6, <1>7, OverStakes DEF RoundsStep
  <2> QED
    BY <2>1, <2>2
<1>8. ASSUME NEW r \in Rounds, PayoutPending(r)', r + d = round'
      PROVE  HasRoom(atStake', r, block' - first')
  <2>1. r = p /\ r < round /\ PayoutPending(r) /\ HasRoom(atStake, r, block - first)
    BY <1>1, <1>2, <1>3, <1>5, <1>6, <1>8 DEF TimeInv, d
  <2>2. Pays(p, stake)
    BY <1>4, <1>6, <1>8, <2>1
  <2>3. PICK s \in Staked(atStake, p) : stake = drain(p, s)
    BY <2>2 DEF Pays
  <2>4. p \in Rounds /\ s \in Accounts
    BY <2>1, <2>3 DEF Staked
  <2>5. Staked(stake, p) = Staked(atStake, p) \ {s}
    BY <1>1, <2>3, <2>4, DrainedStakes
  <2>6. Staked(atStake', p) = Staked(stake, p)
    <3>1. PICK now : now = round
      OBVIOUS
    <3>2. now + 1 \in Rounds /\ snapshot_if_due(block + 1, now, first, stake) /\ pool \subseteq Bond /\ StakeShape(stake)
      BY <1>4, <3>1, StakingAssumption DEF RoundsInv, ClockOK, Rounds, IInv, TypeOK, Shrunk
    <3>3. /\ StakeShape(atStake')
          /\ \A q \in Rounds \ {now + 1} : atStake'[q] = stake[q]
          /\ should_snapshot(block + 1, first) => selected' \subseteq Staked(atStake', now + 1)
          /\ ~ should_snapshot(block + 1, first) => atStake' = stake /\ UNCHANGED <<selected, groupingVars>>
      BY <3>2, SnapshotStaked
    <3>4. p # now + 1
      BY <1>1, <2>1, <2>4, <3>1 DEF Rounds
    <3> QED
      BY <2>4, <3>3, <3>4 DEF Staked
  <2>7. Cardinality(Staked(atStake', p)) = Cardinality(Staked(atStake, p)) - 1
    <3>1. IsFiniteSet(Staked(atStake, p)) /\ s \in Staked(atStake, p)
      BY <2>3, StakedAreFew
    <3>2. Cardinality(Staked(atStake, p) \ {s}) = Cardinality(Staked(atStake, p)) - 1
      BY <3>1, FS_RemoveElement
    <3> QED
      BY <2>5, <2>6, <3>2
  <2>8. Cardinality(Staked(atStake', p)) + (block' - first') = Cardinality(Staked(atStake, p)) + (block - first)
    <3>1. Cardinality(Staked(atStake, p)) \in Nat
      BY StakedAreFew
    <3> QED
      BY <1>1, <2>7, <3>1
  <2> QED
    BY <2>1, <2>8 DEF HasRoom
<1> QED
  BY <1>7, <1>8 DEF TimeInv, d

\* Calls leave the clock and the stakes alone.
LEMMA TimeStepInv ==
  ASSUME IInv, RoundsInv, PendingInv, CountInv, CountInv', TimeInv, RoundsStep
  PROVE  TimeInv'
<1>1. CASE AnyCall
  <2>1. UNCHANGED <<round, block, first, selected, atStake>>
    BY <1>1, CallsKeepRound
  <2>2. delayedPayouts' = delayedPayouts
    BY <1>1 DEF AnyCall, RoundCall, LedgerCall, GroupingCall, RoundsIdle,
           charge_reward_account, set_sequencer_commission, set_blocks_per_round,
           enable_marking_offline, notify_inactive_sequencer, award_points_to_sequencer
  <2> QED
    BY <2>1, <2>2 DEF TimeInv, PayoutPending, HasRoom, Staked
<1> QED
  BY <1>1, OpeningKeepsTime, PayoutKeepsTime DEF RoundsStep

\* For any number of sequencers, delay and lengths of rounds: one payout per block,
\* and none in the first of a round, is enough, as long as the metrics select, or the
\* pool holds, fewer sequencers than a round may have blocks. Afterwards nobody with
\* points waits.
THEOREM RewardsInTime ==
  ASSUME PayoutsFit
  PROVE  RoundsSpec => []RewardsPaidInTime
<1>1. RoundsInit => CountInv /\ PendingInv /\ TimeInv
  <2>1. RoundsInit => TimeInv
    BY DEF RoundsInit, TimeInv, PayoutPending
  <2> QED
    BY <2>1, CountInitInv, PendingInitInv
<1>2. IInv /\ RoundsInv /\ CountInv /\ PendingInv /\ TimeInv /\ [RoundsNext]_allVars
        => CountInv' /\ PendingInv' /\ TimeInv'
  BY StepsOfRounds, CountStepInv, PendingStepInv, TimeStepInv
<1>3. RoundsInv /\ PendingInv /\ TimeInv => RewardsPaidInTime
  <2> SUFFICES ASSUME RoundsInv, PendingInv, TimeInv, NEW r \in Rounds, NEW a \in Accounts,
                      r + RewardPaymentDelay < round, atStake[r][a].present
               PROVE  awarded[r][a] = 0
    BY DEF RewardsPaidInTime
  <2>1. a \in Staked(atStake, r)
    BY DEF Staked
  <2>2. ~PayoutPending(r)
    BY <2>1 DEF TimeInv
  <2>3. r < round
    BY RoundsAssumption DEF RoundsInv, ClockOK, Rounds
  <2> QED
    BY <2>1, <2>2, <2>3 DEF PendingInv
<1> QED
  BY <1>1, <1>2, <1>3, AllRoundsInvariance, PTL DEF RoundsSpec

----------------------------------------------------------------------------
(* Products and quotients of a Perbill.                                    *)

\* A factor keeps an order, and a positive one may be dropped.
LEMMA FactorOut ==
  /\ \A x, y, z \in Nat : x <= y => z * x <= z * y
  /\ \A x, y, z \in Nat : z # 0 /\ z * x <= z * y => x <= y
<1>1. ASSUME NEW x \in Nat, NEW y \in Nat, NEW z \in Nat, x <= y PROVE z * x <= z * y
  <2>1. PICK d \in Nat : y = x + d
    <3>1. y - x \in Nat /\ y = x + (y - x)
      BY <1>1
    <3> QED
      BY <3>1
  <2>2. z * y = z * x + z * d /\ z * d \in Nat /\ z * x \in Nat
    BY <2>1
  <2> QED
    BY <2>2
<1>2. ASSUME NEW x \in Nat, NEW y \in Nat, NEW z \in Nat, z # 0, z * x <= z * y PROVE x <= y
  <2> SUFFICES ASSUME y + 1 <= x PROVE FALSE
    OBVIOUS
  <2>1. z * (y + 1) <= z * x
    BY <1>1
  <2>2. z * (y + 1) = z * y + z /\ z * y \in Nat /\ z * x \in Nat
    OBVIOUS
  <2> QED
    BY <1>2, <2>1, <2>2
<1> QED
  BY <1>1, <1>2

\* A product of a Perbill is at most half a token too large.
LEMMA ProductBound ==
  ASSUME NEW p \in Nat, NEW m \in Nat
  PROVE  of(p, m) \in Nat /\ 2 * (Accuracy * of(p, m)) <= 2 * (p * m) + Accuracy
<1> DEFINE A == Accuracy
           q == (p * m) \div A
           u == (p * m) % A
<1>1. A \in Nat \ {0} /\ p * m \in Nat
  BY RoundsAssumption
<1>2. q \in Nat /\ u \in Nat /\ p * m = A * q + u
  BY <1>1
<1>3. of(p, m) = q + (IF 2 * u > A THEN 1 ELSE 0)
  BY DEF of
<1> HIDE DEF A, q, u
<1>4. A * (q + 1) = A * q + A /\ A * q \in Nat
  BY <1>1, <1>2
<1>5. CASE 2 * u > A
  <2>1. of(p, m) = q + 1
    BY <1>3, <1>5
  <2>2. A * of(p, m) = A * q + A
    BY <1>4, <2>1
  <2> QED
    BY <1>1, <1>2, <1>4, <1>5, <2>1, <2>2 DEF A
<1>6. CASE ~(2 * u > A)
  <2>1. of(p, m) = q
    BY <1>2, <1>3, <1>6
  <2>2. A * of(p, m) = A * q
    BY <2>1
  <2> QED
    BY <1>1, <1>2, <1>4, <1>6, <2>1, <2>2 DEF A
<1> QED
  BY <1>5, <1>6

\* What a ratio divides by: 0 counts as 1.
Whole(q) == IF q = 0 THEN 1 ELSE q

Ratio(p, q) == IF p >= Whole(q) THEN Accuracy ELSE (p * Accuracy) \div Whole(q)

\* from_rational is this ratio, except that it makes 0 of 0 the whole.
LEMMA RatioOf ==
  ASSUME NEW p \in Nat, NEW q \in Nat \ {0}
  PROVE  from_rational(p, q) = Ratio(p, q)
  BY DEF from_rational, Ratio, Whole

\* A ratio is at most 1, and rounded down.
LEMMA RatioBound ==
  ASSUME NEW p \in Nat, NEW q \in Nat
  PROVE  /\ Ratio(p, q) \in 0 .. Accuracy /\ Whole(q) \in Nat \ {0}
         /\ Whole(q) * Ratio(p, q) <= Accuracy * p
<1> DEFINE A == Accuracy
           w == Whole(q)
           d == (p * A) \div w
<1>1. A \in Nat \ {0} /\ w \in Nat \ {0} /\ p * A \in Nat
  BY RoundsAssumption DEF Whole
<1>2. Ratio(p, q) = IF p >= w THEN A ELSE d
  BY DEF Ratio
<1>3. d \in Nat /\ w * d <= A * p
  BY <1>1
<1> HIDE DEF A, w, d
<1>4. CASE p >= w
  <2>1. A * w <= A * p
    BY <1>1, <1>4, FactorOut
  <2>2. Ratio(p, q) = A /\ A \in 0 .. A /\ w * A = A * w
    BY <1>1, <1>2, <1>4
  <2> QED
    BY <1>1, <2>1, <2>2 DEF A, w
<1>5. CASE ~(p >= w)
  <2>1. p <= w /\ Ratio(p, q) = d
    BY <1>1, <1>2, <1>5
  <2>2. A * p <= A * w /\ A * w = w * A /\ A * p \in Nat /\ A * w \in Nat /\ w * d \in Nat
    BY <1>1, <1>3, <2>1, FactorOut
  <2>3. w * d <= w * A
    BY <1>3, <2>2
  <2>4. d <= A
    BY <1>1, <1>3, <2>3, FactorOut
  <2> QED
    BY <1>1, <1>3, <2>1, <2>4 DEF A, w
<1> QED
  BY <1>4, <1>5

----------------------------------------------------------------------------
(* What a payment takes out of the pot.                                    *)

\* left[k] is the pot after the first k amounts, for up to n of them.
AreLeft(left, pot, amounts, n) ==
    left = [k \in 0 .. n |->
              IF k = 0 THEN pot
              ELSE IF amounts[k] <= left[k - 1] THEN left[k - 1] - amounts[k] ELSE left[k - 1]]

\* The pots are defined, however many amounts there are.
LEMMA LeftExists ==
  ASSUME NEW pot, NEW amounts, NEW m \in Nat
  PROVE  \E left : AreLeft(left, pot, amounts, m)
<1> DEFINE next(h, k) == IF amounts[k] <= h[k - 1] THEN h[k - 1] - amounts[k] ELSE h[k - 1]
           P == {n \in Nat : \E f : AreLeft(f, pot, amounts, n)}
<1>1. 0 \in P
  <2> DEFINE f == [k \in 0 .. 0 |-> pot]
  <2>1. f = [k \in 0 .. 0 |-> IF k = 0 THEN pot ELSE next(f, k)]
    OBVIOUS
  <2>2. AreLeft(f, pot, amounts, 0)
    BY <2>1 DEF AreLeft
  <2> QED
    BY <2>2
<1>2. ASSUME NEW n \in P PROVE n + 1 \in P
  <2>1. PICK f : AreLeft(f, pot, amounts, n)
    OBVIOUS
  <2> DEFINE g == [k \in 0 .. n + 1 |-> IF k = n + 1 THEN next(f, k) ELSE f[k]]
  <2>2. n \in Nat
    OBVIOUS
  <2>3. \A k \in 0 .. n : f[k] = IF k = 0 THEN pot ELSE next(f, k)
    BY <2>1 DEF AreLeft
  <2>4. \A k \in 0 .. n : g[k] = f[k]
    BY <2>2
  <2>5. \A k \in 1 .. n + 1 : next(g, k) = next(f, k)
    <3>1. ASSUME NEW k \in 1 .. n + 1 PROVE g[k - 1] = f[k - 1]
      BY <2>2, <2>4
    <3> QED
      BY <3>1
  <2> HIDE DEF next
  <2>6. \A k \in 0 .. n + 1 : g[k] = IF k = 0 THEN pot ELSE next(g, k)
    BY <2>2, <2>3, <2>5
  <2>7. g = [k \in 0 .. n + 1 |-> IF k = 0 THEN pot ELSE next(g, k)]
    BY <2>6
  <2>8. AreLeft(g, pot, amounts, n + 1)
    BY <2>7 DEF AreLeft, next
  <2> QED
    BY <2>2, <2>8
<1> HIDE DEF P
<1>3. P \in SUBSET Nat
  BY DEF P
<1>4. P = Nat
  BY <1>1, <1>2, <1>3, NatByInduction
<1> QED
  BY <1>4 DEF P

\* A pot is at most emptied, and loses no more than the amounts add up to.
LEMMA PotBound ==
  ASSUME NEW pot \in Nat, NEW amounts \in Seq(Nat)
  PROVE  /\ pot_after(pot, amounts) \in 0 .. pot
         /\ SumFunctionOnSet(amounts, 1 .. Len(amounts)) \in Nat
         /\ pot <= pot_after(pot, amounts) + SumFunctionOnSet(amounts, 1 .. Len(amounts))
<1> DEFINE m == Len(amounts)
           left == CHOOSE f : AreLeft(f, pot, amounts, m)
           Paid(k) == SumFunctionOnSet(amounts, 1 .. k)
           P == {n \in Nat : n <= m => /\ left[n] \in 0 .. pot /\ Paid(n) \in Nat
                                       /\ pot <= left[n] + Paid(n)}
<1>1. m \in Nat /\ \A k \in 1 .. m : amounts[k] \in Nat
  OBVIOUS
<1>2. AreLeft(left, pot, amounts, m)
  BY <1>1, LeftExists
<1>3. pot_after(pot, amounts) = left[m]
  BY DEF pot_after, AreLeft
<1> HIDE DEF left, m
<1>4. /\ left[0] = pot
      /\ \A k \in 1 .. m : left[k] = IF amounts[k] <= left[k - 1] THEN left[k - 1] - amounts[k] ELSE left[k - 1]
  BY <1>1, <1>2 DEF AreLeft
<1>5. 0 \in P
  <2>1. Paid(0) = 0
    <3>1. 1 .. 0 = {}
      OBVIOUS
    <3> QED
      BY <3>1, SumUnfolds, FS_EmptySet
  <2> QED
    BY <1>4, <2>1
<1>6. ASSUME NEW n \in P PROVE n + 1 \in P
  <2> SUFFICES ASSUME n + 1 <= m
               PROVE  left[n + 1] \in 0 .. pot /\ Paid(n + 1) \in Nat /\ pot <= left[n + 1] + Paid(n + 1)
    OBVIOUS
  <2>1. n \in Nat /\ left[n] \in 0 .. pot /\ Paid(n) \in Nat /\ pot <= left[n] + Paid(n)
    BY <1>1
  <2>2. amounts[n + 1] \in Nat /\ n + 1 \in 1 .. m /\ (n + 1) - 1 = n
    BY <1>1, <2>1
  <2>3. left[n + 1] = IF amounts[n + 1] <= left[n] THEN left[n] - amounts[n + 1] ELSE left[n]
    BY <1>4, <2>2
  <2>4. Paid(n + 1) = amounts[n + 1] + Paid(n)
    <3> DEFINE I == 1 .. n + 1
    <3>1. IsFiniteSet(I) /\ n + 1 \in I /\ I \ {n + 1} = 1 .. n
      <4>1. 1 \in Int /\ n + 1 \in Int
        BY <2>1
      <4>2. IsFiniteSet(1 .. n + 1)
        BY <4>1, FS_Interval
      <4>3. n + 1 \in 1 .. n + 1 /\ (1 .. n + 1) \ {n + 1} = 1 .. n
        BY <2>1
      <4> QED
        BY <4>2, <4>3
    <3>2. \A k \in I : amounts[k] \in Nat
      BY <1>1, <2>1, <2>2
    <3> HIDE DEF I
    <3>3. SumFunctionOnSet(amounts, I) = amounts[n + 1] + SumFunctionOnSet(amounts, I \ {n + 1})
      BY <3>1, <3>2, SumPicks
    <3> QED
      BY <3>1, <3>3 DEF I
  <2> HIDE DEF Paid, P
  <2>5. CASE amounts[n + 1] <= left[n]
    <3>1. left[n + 1] = left[n] - amounts[n + 1]
      BY <2>3, <2>5
    <3>2. \A u, v, x \in Nat : u <= pot /\ x <= u /\ pot <= u + v
             => u - x \in 0 .. pot /\ x + v \in Nat /\ pot <= (u - x) + (x + v)
      OBVIOUS
    <3>3. left[n] \in Nat /\ left[n] <= pot
      BY <2>1
    <3> QED
      BY <2>1, <2>2, <2>4, <2>5, <3>1, <3>2, <3>3, Zenon
  <2>6. CASE ~(amounts[n + 1] <= left[n])
    <3>1. left[n + 1] = left[n]
      BY <2>3, <2>6
    <3> QED
      BY <2>1, <2>2, <2>4, <3>1
  <2> QED
    BY <2>5, <2>6
<1>7. P = Nat
  <2> HIDE DEF P
  <2>1. P \in SUBSET Nat
    BY DEF P
  <2> QED
    BY <1>5, <1>6, <2>1, NatByInduction
<1>8. m <= m /\ m \in P
  BY <1>1, <1>7
<1> QED
  BY <1>3, <1>8 DEF m

\* The sum of a list is its first plus the sum of the rest.
LEMMA FirstPlusRest ==
  ASSUME NEW x \in Nat, NEW t \in Seq(Nat)
  PROVE  /\ <<x>> \o t \in Seq(Nat)
         /\ SumFunctionOnSet(<<x>> \o t, 1 .. Len(<<x>> \o t)) = x + SumFunctionOnSet(t, 1 .. Len(t))
<1> DEFINE s == <<x>> \o t
           n == Len(t)
           I == 1 .. n
           J == 2 .. n + 1
           k == [i \in I |-> i + 1]
<1>1. n \in Nat /\ s \in Seq(Nat) /\ Len(s) = n + 1 /\ s[1] = x
      /\ \A i \in I : t[i] \in Nat /\ s[i + 1] = t[i]
  OBVIOUS
<1>2. IsFiniteSet(I) /\ IsFiniteSet(1 .. n + 1) /\ 1 \in 1 .. n + 1 /\ (1 .. n + 1) \ {1} = J
  <2>1. 1 \in Int /\ n \in Int /\ n + 1 \in Int
    BY <1>1
  <2>2. IsFiniteSet(1 .. n) /\ IsFiniteSet(1 .. n + 1)
    BY <2>1, FS_Interval
  <2>3. 1 \in 1 .. n + 1 /\ (1 .. n + 1) \ {1} = J
    BY <1>1
  <2> QED
    BY <2>2, <2>3
<1>3. \A i \in 1 .. n + 1 : s[i] \in Nat
  BY <1>1
<1>4. J = {k[i] : i \in I}
  <2>1. \A j \in J : j - 1 \in I /\ j = (j - 1) + 1
    BY <1>1
  <2>2. \A i \in I : i + 1 \in J
    BY <1>1
  <2> QED
    BY <2>1, <2>2
<1>5. (\A i, j \in I : k[i] = k[j] => i = j) /\ \A i \in I : s[k[i]] \in Nat /\ t[i] = s[k[i]]
  BY <1>1
<1> HIDE DEF s, n, I, J, k
<1>6. SumFunctionOnSet(s, 1 .. n + 1) = s[1] + SumFunctionOnSet(s, J)
  <2> DEFINE K == 1 .. n + 1
  <2>1. IsFiniteSet(K) /\ 1 \in K /\ K \ {1} = J /\ \A i \in K : s[i] \in Nat
    BY <1>2, <1>3
  <2> HIDE DEF K
  <2>2. SumFunctionOnSet(s, K) = s[1] + SumFunctionOnSet(s, K \ {1})
    BY <2>1, SumPicks
  <2> QED
    BY <2>1, <2>2 DEF K
<1>7. SumFunctionOnSet(t, I) = SumFunctionOnSet(s, J)
  BY <1>2, <1>4, <1>5, SumsOverImages
<1> QED
  BY <1>1, <1>6, <1>7 DEF s, n, I

----------------------------------------------------------------------------
(* What a payment adds up to.                                              *)

\* The part of amount that is due for a bond of total.
PartDue(bond, all, amount) == of(Ratio(bond, all), amount)

\* A part is due in proportion to the bond, with the rounding.
LEMMA PartBound ==
  ASSUME NEW bond \in Nat, NEW all \in Nat, NEW amount \in Nat
  PROVE  /\ PartDue(bond, all, amount) \in Nat
         /\ ((2 * Accuracy) * Whole(all)) * PartDue(bond, all, amount)
              <= ((2 * Accuracy) * amount) * bond + Accuracy * Whole(all)
<1> DEFINE A == Accuracy
           W == Whole(all)
           f == Ratio(bond, all)
           x == PartDue(bond, all, amount)
<1>1. A \in Nat /\ W \in Nat /\ f \in Nat /\ W * f <= A * bond
  <2>1. /\ Ratio(bond, all) \in 0 .. Accuracy /\ Whole(all) \in Nat \ {0}
        /\ Whole(all) * Ratio(bond, all) <= Accuracy * bond
    BY RatioBound
  <2>2. A \in Nat
    BY RoundsAssumption
  <2> HIDE DEF A
  <2> QED
    BY <2>1, <2>2 DEF A
<1>2. x \in Nat /\ 2 * (A * x) <= 2 * (f * amount) + A
  BY <1>1, ProductBound DEF PartDue
<1> HIDE DEF A, W, f, x
<1>3. W * (2 * (A * x)) <= W * (2 * (f * amount) + A)
  <2>1. 2 * (A * x) \in Nat /\ 2 * (f * amount) + A \in Nat
    BY <1>1, <1>2
  <2> QED
    BY <1>1, <1>2, <2>1, FactorOut
<1>4. (2 * amount) * (W * f) <= (2 * amount) * (A * bond)
  <2>1. W * f \in Nat /\ A * bond \in Nat /\ 2 * amount \in Nat
    BY <1>1
  <2> QED
    BY <1>1, <2>1, FactorOut
<1>5. /\ W * (2 * (A * x)) = ((2 * A) * W) * x
      /\ W * (2 * (f * amount) + A) = (2 * amount) * (W * f) + A * W
      /\ (2 * amount) * (A * bond) = ((2 * A) * amount) * bond
  BY <1>1, <1>2
<1>6. ((2 * A) * W) * x <= ((2 * A) * amount) * bond + A * W
  <2>1. \A h, i, j, k \in Nat : h <= i + j /\ i <= k => h <= k + j
    OBVIOUS
  <2>2. /\ ((2 * A) * W) * x \in Nat /\ (2 * amount) * (W * f) \in Nat /\ A * W \in Nat
        /\ ((2 * A) * amount) * bond \in Nat
    BY <1>1, <1>2
  <2> QED
    BY <1>3, <1>4, <1>5, <2>1, <2>2, Zenon
<1> QED
  BY <1>2, <1>6 DEF A, W, x

\* The parts due for all of a snapshot are an amount, with the rounding.
LEMMA PartsBound ==
  ASSUME NEW snapshot, SnapshotOK(snapshot), NEW amount \in Nat, NEW parts,
         parts = [i \in DOMAIN snapshot.delegations |->
                     PartDue(snapshot.delegations[i].amount, snapshot.total, amount)],
         NEW own, own = PartDue(snapshot.bond, snapshot.total, amount)
  PROVE  /\ own \in Nat /\ parts \in Seq(Nat)
         /\ SumFunctionOnSet(parts, 1 .. Len(parts)) \in Nat
         /\ (2 * Accuracy) * (own + SumFunctionOnSet(parts, 1 .. Len(parts)))
              <= (2 * Accuracy) * amount + Accuracy * (MaxTopDelegationsPerCandidate + 1)
<1> DEFINE A == Accuracy
           K == MaxTopDelegationsPerCandidate
           W == Whole(snapshot.total)
           D == snapshot.delegations
           n == Len(D)
           I == 1 .. n
           g == [i \in DOMAIN D |-> D[i].amount]
           a == (2 * A) * W
           b == (2 * A) * amount
           c == A * W
           S == SumFunctionOnSet(parts, I)
           T == SumFunctionOnSet(g, I)
<1>1. /\ A \in Nat \ {0} /\ K \in Nat /\ n \in Nat /\ n <= K
      /\ snapshot.bond \in Nat /\ snapshot.total \in Nat /\ D \in Seq(Bond)
      /\ snapshot.total = snapshot.bond + SumOf(D)
  BY RoundsAssumption, CapacityAssumption DEF SnapshotOK
<1>2. W \in Nat \ {0} /\ snapshot.total <= W
  BY <1>1 DEF Whole
<1> HIDE DEF D, W, A
<1>3. DOMAIN D = I /\ \A i \in I : D[i].amount \in Nat
  <2>1. DOMAIN D = I /\ \A i \in I : D[i] \in Bond
    BY <1>1
  <2> QED
    BY <2>1 DEF Bond
<1>4. IsFiniteSet(I) /\ Cardinality(I) = n
  <2>1. 1 \in Int /\ n \in Int
    BY <1>1
  <2>2. IsFiniteSet(1 .. n) /\ Cardinality(1 .. n) = IF 1 > n THEN 0 ELSE (n - 1) + 1
    BY <2>1, FS_Interval
  <2> QED
    BY <1>1, <2>2
<1>5. \A i \in I : g[i] \in Nat /\ parts[i] \in Nat /\ a * parts[i] <= b * g[i] + c
  <2>1. \A x \in Nat : /\ PartDue(x, snapshot.total, amount) \in Nat
                       /\ a * PartDue(x, snapshot.total, amount) <= b * x + c
    BY <1>1, PartBound DEF A, W
  <2>2. \A i \in I : parts[i] = PartDue(D[i].amount, snapshot.total, amount) /\ g[i] = D[i].amount
    BY <1>3 DEF D
  <2> HIDE DEF a, b, c
  <2> QED
    BY <1>3, <2>1, <2>2
<1>6. a \in Nat /\ b \in Nat /\ c \in Nat
  BY <1>1, <1>2
<1>7. parts \in Seq(Nat) /\ Len(parts) = n
  <2>1. parts = [i \in I |-> parts[i]]
    <3>1. DOMAIN snapshot.delegations = I
      BY <1>3 DEF D
    <3> QED
      BY <3>1
  <2>2. \A i \in I : parts[i] \in Nat
    BY <1>5
  <2> HIDE DEF n
  <2>3. parts \in [1 .. n -> Nat]
    BY <2>1, <2>2, Zenon
  <2> QED
    BY <1>1, <2>3
<1>8. own \in Nat /\ a * own <= b * snapshot.bond + c
  BY <1>1, PartBound DEF a, b, c, A, W, D
<1>9. SumOf(D) = T
  BY <1>3 DEF SumOf, SumFunction
<1> HIDE DEF a, b, c, g, I
<1>10. S \in Nat /\ T \in Nat /\ a * S <= b * T + c * n
  BY <1>4, <1>5, <1>6, SumPicks, SumsBound
<1> HIDE DEF S, T, n, K
<1>0. \A x, y \in Nat : x * y \in Nat /\ x + y \in Nat
  OBVIOUS
<1>11. a * (own + S) <= b * snapshot.total + c * (n + 1)
  <2>1. \A h, i, j, k \in Nat : a * h <= b * i + c /\ a * j <= b * k + c * n
           => a * (h + j) <= b * (i + k) + c * (n + 1)
    BY <1>1, <1>6
  <2>2. snapshot.bond \in Nat /\ snapshot.total = snapshot.bond + T
    BY <1>1, <1>9 DEF D
  <2> QED
    BY <1>8, <1>10, <2>1, <2>2
<1>12. b * snapshot.total <= b * W /\ c * (n + 1) <= c * (K + 1)
  <2>1. n + 1 \in Nat /\ K + 1 \in Nat /\ n + 1 <= K + 1
    BY <1>1
  <2> QED
    BY <1>1, <1>2, <1>6, <2>1, FactorOut
<1>13. W * ((2 * A) * (own + S)) <= W * ((2 * A) * amount + A * (K + 1))
  <2>1. /\ a * (own + S) = W * ((2 * A) * (own + S))
        /\ b * W + c * (K + 1) = W * ((2 * A) * amount + A * (K + 1))
    BY <1>1, <1>2, <1>8, <1>10 DEF a, b, c
  <2>2. a * (own + S) <= b * W + c * (K + 1)
    <3>1. /\ a * (own + S) \in Nat /\ b * snapshot.total \in Nat /\ c * (n + 1) \in Nat
          /\ b * W \in Nat /\ c * (K + 1) \in Nat
      <4>1. own + S \in Nat /\ n + 1 \in Nat /\ K + 1 \in Nat /\ W \in Nat
        BY <1>1, <1>2, <1>8, <1>10
      <4> QED
        BY <1>0, <1>1, <1>6, <4>1, Zenon
    <3>2. \A h, i, j, k, l \in Nat : h <= i + j /\ i <= k /\ j <= l => h <= k + l
      OBVIOUS
    <3> QED
      BY <1>11, <1>12, <3>1, <3>2, Zenon
  <2> QED
    BY <2>1, <2>2
<1>14. (2 * A) * (own + S) <= (2 * A) * amount + A * (K + 1)
  <2>1. (2 * A) * (own + S) \in Nat /\ (2 * A) * amount + A * (K + 1) \in Nat
    <3>1. own + S \in Nat /\ K + 1 \in Nat /\ 2 * A \in Nat /\ A \in Nat
      BY <1>1, <1>8, <1>10
    <3> QED
      BY <1>0, <3>1, Zenon
  <2> QED
    BY <1>2, <1>13, <2>1, FactorOut
<1> QED
  BY <1>7, <1>8, <1>10, <1>14 DEF A, K, S, I

\* What sequencer s may be paid for a round, with the rounding, in half tokens by
\* the parts of a Perbill: its part of the reward, rounded for its share, for itself
\* and for each delegation.
Allowance(won, all) ==
    (2 * RoundReward) * Ratio(won, all) + Accuracy * (MaxTopDelegationsPerCandidate + 2)

\* The commission and the rest of the reward make up the reward.
LEMMA RewardSplits ==
  ASSUME NEW fee \in 0 .. Accuracy
  PROVE  /\ of(fee, RoundReward) \in 0 .. RoundReward
         /\ SatSub(RoundReward, of(fee, RoundReward)) \in 0 .. RoundReward
<1> DEFINE A == Accuracy
           R == RoundReward
           x == of(fee, R)
<1>1. A \in Nat \ {0} /\ R \in Nat /\ fee \in Nat /\ fee <= A
  BY RoundsAssumption
<1>2. x \in Nat /\ 2 * (A * x) <= 2 * (fee * R) + A
  BY <1>1, ProductBound
<1> HIDE DEF A, R, x
<1>3. fee * R <= A * R
  <2>1. R * fee <= R * A
    BY <1>1, FactorOut
  <2>2. R * fee = fee * R /\ R * A = A * R
    BY <1>1
  <2> QED
    BY <2>1, <2>2
<1>4. x <= R
  <2> SUFFICES ASSUME R + 1 <= x PROVE FALSE
    BY <1>1, <1>2
  <2>1. A * (R + 1) <= A * x
    <3>1. R + 1 \in Nat
      BY <1>1
    <3> QED
      BY <1>1, <1>2, <3>1, FactorOut
  <2>2. A * (R + 1) = A * R + A /\ A * R \in Nat /\ fee * R \in Nat /\ A * x \in Nat
    BY <1>1, <1>2
  <2> QED
    BY <1>1, <1>2, <1>3, <2>1, <2>2
<1> QED
  BY <1>1, <1>2, <1>4 DEF SatSub, A, R, x

\* A part of an amount that is at most the reward.
LEMMA ShareBound ==
  ASSUME NEW pct \in Nat, NEW amount \in 0 .. RoundReward
  PROVE  /\ of(pct, amount) \in Nat
         /\ (2 * Accuracy) * of(pct, amount) <= (2 * RoundReward) * pct + Accuracy
<1> DEFINE A == Accuracy
           R == RoundReward
           x == of(pct, amount)
<1>1. A \in Nat /\ R \in Nat /\ amount \in Nat /\ amount <= R
  BY RoundsAssumption
<1>2. x \in Nat /\ 2 * (A * x) <= 2 * (pct * amount) + A
  BY <1>1, ProductBound
<1> HIDE DEF A, R, x
<1>3. pct * amount <= pct * R /\ pct * amount \in Nat /\ pct * R \in Nat /\ A * x \in Nat
  BY <1>1, <1>2, FactorOut
<1>4. (2 * A) * x = 2 * (A * x) /\ (2 * R) * pct = 2 * (pct * R)
  BY <1>1, <1>2
<1>5. 2 * (A * x) <= 2 * (pct * R) + A
  BY <1>1, <1>2, <1>3
<1> QED
  BY <1>2, <1>4, <1>5 DEF A, R, x

\* The amounts of bonds are amounts.
LEMMA AmountsOfBonds ==
  ASSUME NEW list \in Seq(Bond)
  PROVE  \A i \in DOMAIN list : list[i].amount \in Nat
<1> SUFFICES ASSUME NEW i \in DOMAIN list PROVE list[i].amount \in Nat
  OBVIOUS
<1>1. list[i] \in Bond
  OBVIOUS
<1> QED
  BY <1>1 DEF Bond

\* A ratio is a number of parts, also when it divides by 0.
LEMMA RatioIsNat ==
  ASSUME NEW p \in Nat, NEW q \in Nat
  PROVE  from_rational(p, q) \in Nat
<1>1. CASE q = 0
  BY <1>1, RoundsAssumption DEF from_rational
<1>2. CASE q # 0
  <2>1. from_rational(p, q) = Ratio(p, q) /\ Ratio(p, q) \in 0 .. Accuracy
    BY <1>2, RatioOf, RatioBound
  <2> QED
    BY <2>1, RoundsAssumption
<1> QED
  BY <1>1, <1>2

\* What a sequencer and its delegators are due are amounts.
LEMMA PaymentsAreAmounts ==
  ASSUME NEW r, NEW s, SnapshotOK(atStake[r][s]), delayedPayouts[r] \in 0 .. Accuracy,
         awarded[r][s] \in Nat, points[r] \in Nat
  PROVE  payments(r, s) \in Seq(Nat)
<1> DEFINE issuance  == of(delayedPayouts[r], RoundReward)
           staking   == SatSub(RoundReward, issuance)
           pct_due   == from_rational(awarded[r][s], points[r])
           snapshot  == atStake[r][s]
           D         == snapshot.delegations
           share     == of(pct_due, staking)
           fee_due   == of(pct_due, issuance)
           amt_due   == SatSub(share, fee_due)
           due(bond) == of(from_rational(bond, snapshot.total), amt_due)
           parts     == [i \in DOMAIN D |-> due(D[i].amount)]
           list      == payments(r, s)
<1>1. list = IF D = <<>> THEN <<share>> ELSE <<due(snapshot.bond) + fee_due>> \o parts
  BY DEF payments
<1>2. issuance \in Nat /\ staking \in Nat /\ pct_due \in Nat
  <2>1. issuance \in 0 .. RoundReward /\ staking \in 0 .. RoundReward /\ RoundReward \in Nat
    BY RewardSplits, RoundsAssumption
  <2>2. pct_due \in Nat
    BY RatioIsNat
  <2> HIDE DEF issuance, staking, pct_due
  <2> QED
    BY <2>1, <2>2
<1>3. share \in Nat /\ fee_due \in Nat
  BY <1>2, ProductBound
<1>4. amt_due \in Nat
  BY <1>3 DEF SatSub
<1>5. D \in Seq(Bond) /\ snapshot.total \in Nat /\ snapshot.bond \in Nat
  BY DEF SnapshotOK
<1> HIDE DEF issuance, staking, pct_due, share, fee_due, amt_due, list, snapshot, D
<1>6. \A bond \in Nat : due(bond) \in Nat
  BY <1>4, <1>5, RatioIsNat, ProductBound
<1>7. \A i \in DOMAIN D : D[i].amount \in Nat
  BY <1>5, AmountsOfBonds
<1> HIDE DEF due
<1>8. parts \in Seq(Nat)
  <2>1. \A i \in DOMAIN D : due(D[i].amount) \in Nat
    BY <1>6, <1>7, Zenon
  <2> QED
    BY <1>5, <2>1
<1>9. <<due(snapshot.bond) + fee_due>> \in Seq(Nat) /\ <<share>> \in Seq(Nat)
  <2>1. due(snapshot.bond) \in Nat
    BY <1>5, <1>6, Zenon
  <2>2. due(snapshot.bond) + fee_due \in Nat
    BY <1>3, <2>1
  <2> QED
    BY <1>3, <2>2
<1> HIDE DEF parts
<1> QED
  BY <1>1, <1>8, <1>9 DEF list

\* A sequencer and its delegators are paid no more than its allowance.
LEMMA PaymentBound ==
  ASSUME NEW r, NEW s, SnapshotOK(atStake[r][s]), delayedPayouts[r] \in 0 .. Accuracy,
         ~ Undivided(atStake[r][s]), awarded[r][s] \in Nat, points[r] \in Nat \ {0}
  PROVE  /\ payments(r, s) \in Seq(Nat)
         /\ SumFunctionOnSet(payments(r, s), 1 .. Len(payments(r, s))) \in Nat
         /\ (2 * Accuracy) * SumFunctionOnSet(payments(r, s), 1 .. Len(payments(r, s)))
              <= Allowance(awarded[r][s], points[r])
<1> DEFINE A        == Accuracy
           R        == RoundReward
           K        == MaxTopDelegationsPerCandidate
           issuance == of(delayedPayouts[r], R)
           staking  == SatSub(R, issuance)
           pct_due  == Ratio(awarded[r][s], points[r])
           snapshot == atStake[r][s]
           share    == of(pct_due, staking)
           fee_due  == of(pct_due, issuance)
           amt_due  == SatSub(share, fee_due)
           own      == PartDue(snapshot.bond, snapshot.total, amt_due)
           parts    == [i \in DOMAIN snapshot.delegations |->
                           PartDue(snapshot.delegations[i].amount, snapshot.total, amt_due)]
           list     == payments(r, s)
           Sum(t)   == SumFunctionOnSet(t, 1 .. Len(t))
<1>1. A \in Nat \ {0} /\ R \in Nat /\ K \in Nat /\ pct_due \in Nat
  <2>1. pct_due \in 0 .. A
    BY RatioBound
  <2> QED
    BY <2>1, RoundsAssumption, CapacityAssumption
<1>2. /\ share \in Nat /\ (2 * A) * share <= (2 * R) * pct_due + A
      /\ fee_due \in Nat /\ (2 * A) * fee_due <= (2 * R) * pct_due + A
  BY <1>1, RewardSplits, ShareBound
<1>3. amt_due \in Nat /\ (amt_due + fee_due = share \/ amt_due + fee_due = fee_due)
  <2>1. \A x, y \in Nat : SatSub(x, y) \in Nat /\ (SatSub(x, y) + y = x \/ SatSub(x, y) + y = y)
    BY DEF SatSub
  <2> HIDE DEF share, fee_due
  <2> QED
    BY <1>2, <2>1
<1>4. list = IF snapshot.delegations = <<>> THEN <<share>> ELSE <<own + fee_due>> \o parts
  <2> DEFINE pct   == from_rational(awarded[r][s], points[r])
             whole == of(pct, staking)
             fee   == of(pct, issuance)
             rest  == SatSub(whole, fee)
             due(bond) == of(from_rational(bond, snapshot.total), rest)
  <2>1. list = IF snapshot.delegations = <<>> THEN <<whole>>
               ELSE <<due(snapshot.bond) + fee>>
                    \o [i \in DOMAIN snapshot.delegations |-> due(snapshot.delegations[i].amount)]
    BY DEF payments
  <2>2. whole = share /\ fee = fee_due /\ rest = amt_due
    BY RatioOf
  <2>3. ASSUME snapshot.delegations # <<>>
        PROVE  /\ due(snapshot.bond) = own
               /\ \A i \in DOMAIN snapshot.delegations :
                     due(snapshot.delegations[i].amount)
                       = PartDue(snapshot.delegations[i].amount, snapshot.total, amt_due)
    <3>1. snapshot.total \in Nat \ {0} /\ snapshot.bond \in Nat
      BY <2>3 DEF Undivided, SnapshotOK
    <3>2. \A i \in DOMAIN snapshot.delegations : snapshot.delegations[i].amount \in Nat
      <4>1. snapshot.delegations \in Seq(Bond)
        BY DEF SnapshotOK
      <4> QED
        BY <4>1, AmountsOfBonds
    <3>3. \A bond \in Nat : due(bond) = PartDue(bond, snapshot.total, amt_due)
      <4>1. \A bond \in Nat : from_rational(bond, snapshot.total) = Ratio(bond, snapshot.total)
        BY <3>1, RatioOf
      <4> QED
        BY <2>2, <4>1 DEF PartDue
    <3> HIDE DEF due, amt_due
    <3> QED
      BY <3>1, <3>2, <3>3
  <2>4. snapshot.delegations # <<>> =>
          [i \in DOMAIN snapshot.delegations |-> due(snapshot.delegations[i].amount)] = parts
    <3> SUFFICES ASSUME snapshot.delegations # <<>>
                 PROVE  [i \in DOMAIN snapshot.delegations |-> due(snapshot.delegations[i].amount)] = parts
      OBVIOUS
    <3> HIDE DEF due, amt_due, snapshot
    <3> QED
      BY <2>3
  <2> HIDE DEF whole, fee, rest, due, list, parts, own, share, fee_due
  <2> QED
    BY <2>1, <2>2, <2>3, <2>4
<1>5. SnapshotOK(snapshot)
  OBVIOUS
<1> HIDE DEF A, R, K, issuance, staking, pct_due, snapshot, share, fee_due, amt_due
<1>6. /\ own \in Nat /\ parts \in Seq(Nat) /\ Sum(parts) \in Nat
      /\ (2 * A) * (own + Sum(parts)) <= (2 * A) * amt_due + A * (K + 1)
  BY <1>3, <1>5, PartsBound DEF A, K
<1> HIDE DEF own, parts, list
<1>7. CASE snapshot.delegations = <<>>
  <2>1. list = <<share>> \o <<>> /\ <<>> \in Seq(Nat)
    BY <1>2, <1>4, <1>7
  <2>2. list \in Seq(Nat) /\ Sum(list) = share + Sum(<<>>)
    BY <1>2, <2>1, FirstPlusRest
  <2>3. Sum(<<>>) = 0
    <3>1. 1 .. Len(<<>>) = {}
      OBVIOUS
    <3> QED
      BY <3>1, SumUnfolds, FS_EmptySet
  <2> HIDE DEF Sum
  <2>4. Sum(list) = share
    BY <1>2, <2>2, <2>3
  <2>5. (2 * A) * share <= (2 * R) * pct_due + A * (K + 2)
    <3>1. A * (K + 2) = (A * K + A) + A /\ A * K \in Nat /\ (2 * A) * share \in Nat
          /\ (2 * R) * pct_due \in Nat
      BY <1>1, <1>2
    <3> QED
      BY <1>1, <1>2, <3>1
  <2> QED
    BY <1>2, <2>2, <2>4, <2>5 DEF Allowance, A, R, K, pct_due, list, Sum
<1>8. CASE snapshot.delegations # <<>>
  <2>1. list = <<own + fee_due>> \o parts /\ own + fee_due \in Nat
    BY <1>2, <1>4, <1>6, <1>8
  <2>2. list \in Seq(Nat) /\ Sum(list) = (own + fee_due) + Sum(parts)
    BY <1>6, <2>1, FirstPlusRest
  <2> HIDE DEF Sum
  <2>3. (2 * A) * Sum(list) = (2 * A) * (own + Sum(parts)) + (2 * A) * fee_due /\ Sum(list) \in Nat
    <3>1. \A x, y, z \in Nat : /\ (2 * A) * ((x + y) + z) = (2 * A) * (x + z) + (2 * A) * y
                               /\ (x + y) + z \in Nat
      BY <1>1
    <3>2. /\ (2 * A) * ((own + fee_due) + Sum(parts)) = (2 * A) * (own + Sum(parts)) + (2 * A) * fee_due
          /\ (own + fee_due) + Sum(parts) \in Nat
      BY <1>2, <1>6, <3>1, Zenon
    <3> QED
      BY <2>2, <3>2
  <2>4. (2 * A) * amt_due + (2 * A) * fee_due = (2 * A) * (amt_due + fee_due)
    BY <1>1, <1>2, <1>3
  <2>5. (2 * A) * (amt_due + fee_due) <= (2 * R) * pct_due + A
    BY <1>2, <1>3
  <2>6. A * (K + 2) = A * (K + 1) + A
    BY <1>1
  <2>7. /\ (2 * A) * (own + Sum(parts)) \in Nat /\ (2 * A) * fee_due \in Nat
        /\ (2 * A) * amt_due \in Nat /\ A * (K + 1) \in Nat /\ (2 * R) * pct_due \in Nat
        /\ (2 * A) * (amt_due + fee_due) \in Nat /\ A \in Nat
    <3>1. \A x, y \in Nat : x * y \in Nat /\ x + y \in Nat
      OBVIOUS
    <3>2. 2 \in Nat /\ 1 \in Nat
      OBVIOUS
    <3> QED
      BY <1>1, <1>2, <1>3, <1>6, <3>1, <3>2, Zenon
  <2>8. \A u, v, w, x, y, z \in Nat : u <= v + w /\ v + x <= y + z => u + x <= y + (w + z)
    OBVIOUS
  <2>9. (2 * A) * Sum(list) <= (2 * R) * pct_due + A * (K + 2)
    <3>1. (2 * A) * amt_due + (2 * A) * fee_due <= (2 * R) * pct_due + A
      BY <2>4, <2>5
    <3>2. (2 * A) * (own + Sum(parts)) + (2 * A) * fee_due <= (2 * R) * pct_due + (A * (K + 1) + A)
      BY <1>6, <2>7, <2>8, <3>1, Zenon
    <3> QED
      BY <2>3, <2>6, <3>2
  <2> QED
    BY <2>2, <2>3, <2>9 DEF Allowance, A, R, K, pct_due, list, Sum
<1> QED
  BY <1>7, <1>8

----------------------------------------------------------------------------
(* What a round pays out.                                                  *)

\* The points of a round, from what each sequencer earned in it.
PointsOf(won) == SumFunctionOnSet(won, Accounts)

\* What each sequencer may be paid for them.
AllowancesOf(won) == [a \in Accounts |-> Allowance(won[a], PointsOf(won))]

\* What was paid is within the allowances of those that were paid.
WithinAllowances(paid, won, done) ==
    (2 * Accuracy) * paid <= SumFunctionOnSet(AllowancesOf(won), done)

\* Allowances are amounts.
LEMMA AllowancesAreNat ==
  ASSUME NEW won \in [Accounts -> Nat], NEW U \in SUBSET Accounts
  PROVE  /\ PointsOf(won) \in Nat /\ IsFiniteSet(U)
         /\ \A a \in Accounts : AllowancesOf(won)[a] \in Nat
         /\ SumFunctionOnSet(AllowancesOf(won), U) \in Nat
         /\ WithinAllowances(0, won, U)
<1>1. IsFiniteSet(U) /\ IsFiniteSet(Accounts)
  BY AccountsAssumption, FS_Subset
<1>2. PointsOf(won) \in Nat
  <2>1. \A a \in Accounts : won[a] \in Nat
    OBVIOUS
  <2> QED
    BY <1>1, <2>1, SumPicks DEF PointsOf
<1>3. ASSUME NEW a \in Accounts PROVE AllowancesOf(won)[a] \in Nat
  <2> DEFINE f == Ratio(won[a], PointsOf(won))
  <2>1. f \in 0 .. Accuracy
    BY <1>2, RatioBound
  <2>2. /\ Accuracy \in Nat /\ RoundReward \in Nat /\ MaxTopDelegationsPerCandidate \in Nat /\ f \in Nat
    BY <2>1, RoundsAssumption, CapacityAssumption
  <2>3. AllowancesOf(won)[a] = (2 * RoundReward) * f + Accuracy * (MaxTopDelegationsPerCandidate + 2)
    BY DEF AllowancesOf, Allowance
  <2> HIDE DEF f
  <2>4. (2 * RoundReward) * f \in Nat /\ Accuracy * (MaxTopDelegationsPerCandidate + 2) \in Nat
    BY <2>2
  <2> QED
    BY <2>3, <2>4
<1>4. SumFunctionOnSet(AllowancesOf(won), U) \in Nat
  <2> DEFINE g == AllowancesOf(won)
  <2>1. \A a \in U : g[a] \in Nat
    BY <1>3
  <2> HIDE DEF g
  <2>2. SumFunctionOnSet(g, U) \in Nat
    BY <1>1, <2>1, SumPicks
  <2> QED
    BY <2>2 DEF g
<1>5. (2 * Accuracy) * 0 = 0
  BY RoundsAssumption
<1> QED
  BY <1>1, <1>2, <1>3, <1>4, <1>5 DEF WithinAllowances

\* The allowances of those that were paid add up to the reward, with the rounding.
LEMMA AllowancesBound ==
  ASSUME NEW won \in [Accounts -> Nat], NEW ever \in SUBSET Accounts, NEW done \in SUBSET ever,
         NEW paid \in Nat, WithinAllowances(paid, won, done)
  PROVE  2 * paid <= 2 * RoundReward + (MaxTopDelegationsPerCandidate + 2) * Cardinality(ever)
<1> DEFINE A == Accuracy
           R == RoundReward
           L == MaxTopDelegationsPerCandidate + 2
           E == PointsOf(won)
           W == Whole(E)
           g == AllowancesOf(won)
           b == (2 * R) * A
           c == W * (A * L)
           S == SumFunctionOnSet(g, done)
           T == SumFunctionOnSet(won, done)
           n == Cardinality(done)
           m == Cardinality(ever)
<1>1. A \in Nat \ {0} /\ R \in Nat /\ L \in Nat
  BY RoundsAssumption, CapacityAssumption
<1>2. /\ done \in SUBSET Accounts /\ IsFiniteSet(done) /\ E \in Nat /\ S \in Nat
      /\ \A a \in done : g[a] \in Nat
  <2>1. done \in SUBSET Accounts
    OBVIOUS
  <2>2. /\ PointsOf(won) \in Nat /\ IsFiniteSet(done)
        /\ \A a \in Accounts : AllowancesOf(won)[a] \in Nat
        /\ SumFunctionOnSet(AllowancesOf(won), done) \in Nat
        /\ WithinAllowances(0, won, done)
    BY <2>1, AllowancesAreNat
  <2> QED
    BY <2>1, <2>2
<1>3. W \in Nat \ {0} /\ E <= W
  BY <1>2 DEF Whole
<1> HIDE DEF E
<1>4. ASSUME NEW a \in done PROVE won[a] \in Nat /\ W * g[a] <= b * won[a] + c
  <2> DEFINE f == Ratio(won[a], E)
  <2>1. won[a] \in Nat /\ a \in Accounts
    BY <1>2
  <2>2. f \in Nat /\ W * f <= A * won[a]
    <3>1. /\ Ratio(won[a], E) \in 0 .. Accuracy /\ Whole(E) \in Nat \ {0}
          /\ Whole(E) * Ratio(won[a], E) <= Accuracy * won[a]
      BY <1>2, <2>1, RatioBound
    <3> QED
      BY <1>1, <3>1
  <2>3. g[a] = (2 * R) * f + A * L
    BY <2>1 DEF AllowancesOf, Allowance, E
  <2> HIDE DEF f, A, R, L, W, g
  <2>4. (2 * R) * (W * f) <= (2 * R) * (A * won[a])
    <3>1. 2 * R \in Nat /\ W * f \in Nat /\ A * won[a] \in Nat
      BY <1>1, <1>3, <2>1, <2>2
    <3> QED
      BY <2>2, <3>1, FactorOut
  <2>5. /\ W * g[a] = (2 * R) * (W * f) + c
        /\ (2 * R) * (A * won[a]) = b * won[a]
    BY <1>1, <1>3, <2>1, <2>2, <2>3
  <2>6. (2 * R) * (W * f) \in Nat /\ b * won[a] \in Nat /\ c \in Nat
    BY <1>1, <1>3, <2>1, <2>2
  <2> HIDE DEF b, c
  <2>7. W * g[a] <= b * won[a] + c
    BY <2>4, <2>5, <2>6
  <2> QED
    BY <2>1, <2>7
<1> HIDE DEF A, R, L, W, g
<1>5. b \in Nat /\ c \in Nat
  BY <1>1, <1>3
<1> HIDE DEF b, c
<1>6. W * S <= b * T + c * n
  BY <1>2, <1>3, <1>4, <1>5, SumsBound
<1>7. T \in Nat /\ T <= W
  <2>1. T \in Nat
    BY <1>2, <1>4, SumPicks
  <2>2. T <= E
    BY <1>2, AccountsAssumption, SumOfPart DEF PointsOf, E
  <2> QED
    BY <1>2, <1>3, <2>1, <2>2
<1>8. n \in Nat /\ m \in Nat /\ n <= m
  <2>1. IsFiniteSet(ever)
    BY AccountsAssumption, FS_Subset
  <2> QED
    BY <2>1, FS_Subset, FS_CardinalityType
<1> HIDE DEF S, T, n, m
<1>9. W * S <= W * (b + (A * L) * m)
  <2>1. b * T <= b * W /\ c * n <= c * m
    BY <1>3, <1>5, <1>7, <1>8, FactorOut
  <2>2. b * W + c * m = W * (b + (A * L) * m)
    BY <1>1, <1>3, <1>5, <1>8 DEF c
  <2>3. /\ W * S \in Nat /\ b * T \in Nat /\ c * n \in Nat /\ b * W \in Nat /\ c * m \in Nat
    <3>1. \A x, y \in Nat : x * y \in Nat
      OBVIOUS
    <3> QED
      BY <1>2, <1>3, <1>5, <1>7, <1>8, <3>1, Zenon
  <2>4. W * S <= b * W + c * m
    BY <1>6, <2>1, <2>3
  <2> QED
    BY <2>2, <2>4
<1>10. S <= b + (A * L) * m
  <2>1. b + (A * L) * m \in Nat
    BY <1>1, <1>5, <1>8
  <2> QED
    BY <1>2, <1>3, <1>9, <2>1, FactorOut
<1>11. A * (2 * paid) <= A * (2 * R + L * m)
  <2>1. (2 * A) * paid <= S
    BY DEF WithinAllowances, A, S, g
  <2>2. (2 * A) * paid = A * (2 * paid) /\ b + (A * L) * m = A * (2 * R + L * m)
    BY <1>1, <1>8 DEF b
  <2>3. A * (2 * paid) \in Nat /\ b + (A * L) * m \in Nat
    BY <1>1, <1>5, <1>8
  <2>4. A * (2 * paid) <= b + (A * L) * m
    BY <1>2, <1>10, <2>1, <2>2, <2>3
  <2> QED
    BY <2>2, <2>4
<1>12. 2 * paid <= 2 * R + L * m
  <2>1. 2 * paid \in Nat /\ 2 * R + L * m \in Nat
    BY <1>1, <1>8
  <2> QED
    BY <1>1, <1>11, <2>1, FactorOut
<1> QED
  BY <1>12 DEF R, L, m

\* Nothing is paid for a round before it is over, and what is paid for it then is
\* within the allowances of those whose stake the payouts have taken away, unless a
\* total of 0 divided a reward of it.
PaidInv ==
    /\ paidOut \in [Rounds -> Nat] /\ rewardPot \in Nat
    /\ everAtStake \in [Rounds -> SUBSET Accounts]
    /\ \A r \in Rounds :
          /\ Staked(atStake, r) \in SUBSET everAtStake[r]
          /\ r >= round => paidOut[r] = 0
          /\ r >= round \/ points[r] # 0 => points[r] = PointsOf(earned[r])
          /\ r \in undivided \/ WithinAllowances(paidOut[r], earned[r], everAtStake[r] \ Staked(atStake, r))

\* An award adds the same to the points of the round and to what was earned in it.
LEMMA AwardKeepsPaid ==
  ASSUME RoundsInv, PendingInv, PaidInv, NEW s \in Awardees, NEW p \in Awards,
         award_points_to_sequencer(s, p)
  PROVE  PaidInv'
<1> DEFINE e == [earned[round] EXCEPT ![s] = @ + p]
<1>1. s \in Accounts /\ p \in Nat /\ round \in Rounds /\ round >= round
  <2>1. s \in Accounts /\ p \in Nat
    BY RoundsAssumption
  <2>2. round \in Nat /\ round \in Rounds
    <3>1. round \in 1 .. MaxRound /\ MaxRound \in Nat
      BY StakingAssumption DEF RoundsInv, ClockOK
    <3> QED
      BY <3>1 DEF Rounds
  <2> QED
    BY <2>1, <2>2
<1>2. /\ earned' = [earned EXCEPT ![round] = e]
      /\ points' = [points EXCEPT ![round] = @ + p]
      /\ UNCHANGED <<round, atStake, everAtStake, paidOut, undivided, rewardPot>>
  BY DEF award_points_to_sequencer, points_plus, vars
<1>3. earned \in [Rounds -> [Accounts -> Nat]] /\ points \in [Rounds -> Nat]
  BY DEF RoundsInv, PointsOK, PendingInv
<1>4. /\ e \in [Accounts -> Nat] /\ e[s] = earned[round][s] + p
      /\ \A a \in Accounts \ {s} : e[a] = earned[round][a]
  BY <1>1, <1>3
<1> HIDE DEF e
<1>5. /\ earned'[round] = e /\ \A r \in Rounds \ {round} : earned'[r] = earned[r]
      /\ points'[round] = points[round] + p
      /\ \A r \in Rounds \ {round} : points'[r] = points[r]
  BY <1>1, <1>2, <1>3
<1>6. PointsOf(e) = PointsOf(earned[round]) + p
  <2> DEFINE f == earned[round]
  <2>1. \A a \in Accounts : f[a] \in Nat /\ e[a] \in Nat
    BY <1>1, <1>3, <1>4
  <2>2. e[s] = f[s] + p /\ \A a \in Accounts \ {s} : e[a] = f[a]
    BY <1>4
  <2> HIDE DEF f
  <2>3. SumFunctionOnSet(e, Accounts) + f[s] = SumFunctionOnSet(f, Accounts) + e[s]
    BY <1>1, <2>1, <2>2, AccountsAssumption, SumChanges
  <2>4. SumFunctionOnSet(e, Accounts) \in Nat /\ SumFunctionOnSet(f, Accounts) \in Nat
    BY <2>1, AccountsAssumption, SumPicks
  <2>5. f[s] \in Nat
    BY <1>1, <2>1
  <2> QED
    BY <1>1, <2>2, <2>3, <2>4, <2>5 DEF PointsOf, f
<1>7. /\ points'[round] = PointsOf(earned'[round])
      /\ round \in undivided \/ WithinAllowances(paidOut[round], earned'[round], everAtStake[round] \ Staked(atStake, round))
  <2>1. paidOut[round] = 0 /\ points[round] = PointsOf(earned[round])
        /\ everAtStake[round] \ Staked(atStake, round) \in SUBSET Accounts
    BY <1>1 DEF PaidInv
  <2>2. WithinAllowances(0, e, everAtStake[round] \ Staked(atStake, round))
    BY <1>4, <2>1, AllowancesAreNat
  <2> QED
    BY <1>5, <1>6, <2>1, <2>2
<1>8. ASSUME NEW r \in Rounds
      PROVE  /\ Staked(atStake, r) \in SUBSET everAtStake[r]
             /\ r >= round => paidOut[r] = 0
             /\ r >= round \/ points'[r] # 0 => points'[r] = PointsOf(earned'[r])
             /\ r \in undivided \/ WithinAllowances(paidOut[r], earned'[r], everAtStake[r] \ Staked(atStake, r))
  <2>1. CASE r = round
    BY <1>1, <1>7, <2>1 DEF PaidInv
  <2>2. CASE r # round
    <3>1. earned'[r] = earned[r] /\ points'[r] = points[r]
      BY <1>5, <2>2
    <3> QED
      BY <3>1 DEF PaidInv
  <2> QED
    BY <2>1, <2>2
<1> QED
  BY <1>2, <1>8 DEF PaidInv, Staked

\* A round that is touched by neither a payment nor a snapshot is as it was, and
\* nothing is paid for one that is not over.
LEMMA UntouchedRound ==
  ASSUME RoundsInv, PaidInv, NEW r \in Rounds, earned' = earned, RememberAtStake,
         \/ /\ paidOut'[r] = paidOut[r] /\ Staked(atStake', r) = Staked(atStake, r)
         \/ paidOut'[r] = 0
  PROVE  /\ everAtStake'[r] \in SUBSET Accounts
         /\ Staked(atStake', r) \in SUBSET everAtStake'[r]
         /\ r \in undivided \/ WithinAllowances(paidOut'[r], earned'[r], everAtStake'[r] \ Staked(atStake', r))
<1>1. everAtStake'[r] = everAtStake[r] \cup Staked(atStake', r)
  BY DEF RememberAtStake
<1>2. /\ everAtStake[r] \in SUBSET Accounts /\ Staked(atStake', r) \in SUBSET Accounts
      /\ Staked(atStake, r) \in SUBSET everAtStake[r]
      /\ r \in undivided \/ WithinAllowances(paidOut[r], earned[r], everAtStake[r] \ Staked(atStake, r))
  BY StakedAreFew DEF PaidInv
<1>3. CASE paidOut'[r] = paidOut[r] /\ Staked(atStake', r) = Staked(atStake, r)
  <2>1. everAtStake'[r] = everAtStake[r]
    BY <1>1, <1>2, <1>3
  <2> QED
    BY <1>2, <1>3, <2>1
<1>4. CASE paidOut'[r] = 0
  <2>1. everAtStake'[r] \in SUBSET Accounts /\ everAtStake'[r] \ Staked(atStake', r) \in SUBSET Accounts
    BY <1>1, <1>2
  <2>2. earned[r] \in [Accounts -> Nat]
    BY DEF RoundsInv, PointsOK
  <2>3. WithinAllowances(0, earned[r], everAtStake'[r] \ Staked(atStake', r))
    BY <2>1, <2>2, AllowancesAreNat
  <2> QED
    BY <1>1, <1>4, <2>1, <2>3
<1> QED
  BY <1>3, <1>4

\* The opening of a round pays nothing.
LEMMA OpeningKeepsPaid ==
  ASSUME IInv, RoundsInv, PaidInv, open_round
  PROVE  PaidInv'
<1>1. /\ round' = round + 1 /\ round \in Nat /\ earned' = earned /\ points' = points
      /\ paidOut' = paidOut /\ undivided' = undivided /\ rewardPot' = rewardPot /\ RememberAtStake
  BY DEF open_round, BlockStarts, new_round, prepare_staking_payouts, RoundsInv, ClockOK
<1>2. \A r \in Rounds : r <= round' => atStake'[r] = atStake[r]
  <2>1. ~continue_round
    BY <1>1 DEF continue_round, vars
  <2> QED
    BY <2>1, OverStakes DEF RoundsStep
<1>3. ASSUME NEW r \in Rounds
      PROVE  /\ everAtStake'[r] \in SUBSET Accounts
             /\ Staked(atStake', r) \in SUBSET everAtStake'[r]
             /\ r >= round' => paidOut[r] = 0 /\ r >= round
             /\ r \in undivided \/ WithinAllowances(paidOut[r], earned[r], everAtStake'[r] \ Staked(atStake', r))
  <2>1. r <= round' \/ r >= round
    BY <1>1 DEF Rounds
  <2>2. r >= round' => r >= round
    BY <1>1 DEF Rounds
  <2>3. r >= round => paidOut[r] = 0
    BY DEF PaidInv
  <2>4. r <= round' => Staked(atStake', r) = Staked(atStake, r)
    BY <1>2 DEF Staked
  <2>5. paidOut'[r] = paidOut[r]
    BY <1>1
  <2>6. /\ everAtStake'[r] \in SUBSET Accounts
        /\ Staked(atStake', r) \in SUBSET everAtStake'[r]
        /\ r \in undivided \/ WithinAllowances(paidOut'[r], earned'[r], everAtStake'[r] \ Staked(atStake', r))
    BY <1>1, <2>1, <2>3, <2>4, <2>5, UntouchedRound
  <2> QED
    BY <1>1, <2>2, <2>3, <2>6
<1>4. everAtStake' \in [Rounds -> SUBSET Accounts]
  BY <1>1, <1>3 DEF RememberAtStake
<1>5. ASSUME NEW r \in Rounds, r >= round' \/ points[r] # 0 PROVE points[r] = PointsOf(earned[r])
  BY <1>3, <1>5 DEF PaidInv
<1> QED
  BY <1>1, <1>3, <1>4, <1>5 DEF PaidInv, Staked

\* A payment is within the allowance of the sequencer it is for.
LEMMA PaymentIsWithin ==
  ASSUME RoundsInv, PendingInv, PaidInv, StakesOK(atStake), NEW p \in Rounds, PayoutPending(p),
         points[p] # 0, NEW s \in Staked(atStake, p), pay_one_sequencer_reward(p, s)
  PROVE  /\ rewardPot' \in Nat /\ paidOut' \in [Rounds -> Nat]
         /\ \A r \in Rounds \ {p} : paidOut'[r] = paidOut[r]
         /\ undivided \subseteq undivided'
         /\ p \in undivided' \/ WithinAllowances(paidOut'[p], earned[p],
                                                 everAtStake[p] \ (Staked(atStake, p) \ {s}))
<1> DEFINE list  == payments(p, s)
           left  == IF awarded[p][s] = 0 THEN rewardPot ELSE pot_after(rewardPot, list)
           won   == earned[p]
           g     == AllowancesOf(won)
           done  == everAtStake[p] \ Staked(atStake, p)
           done2 == everAtStake[p] \ (Staked(atStake, p) \ {s})
           A2    == 2 * Accuracy
           sum   == SumFunctionOnSet(list, 1 .. Len(list))
<1>1. /\ s \in Accounts /\ rewardPot \in Nat /\ paidOut \in [Rounds -> Nat] /\ A2 \in Nat
      /\ won \in [Accounts -> Nat] /\ everAtStake[p] \in SUBSET Accounts
      /\ Staked(atStake, p) \in SUBSET everAtStake[p]
      /\ p \in undivided \/ WithinAllowances(paidOut[p], won, done)
  <2>1. s \in Accounts
    BY DEF Staked
  <2>2. A2 \in Nat
    BY RoundsAssumption
  <2>3. won \in [Accounts -> Nat]
    BY DEF RoundsInv, PointsOK
  <2>4. /\ rewardPot \in Nat /\ paidOut \in [Rounds -> Nat] /\ everAtStake[p] \in SUBSET Accounts
        /\ Staked(atStake, p) \in SUBSET everAtStake[p]
        /\ p \in undivided \/ WithinAllowances(paidOut[p], won, done)
    BY DEF PaidInv
  <2> QED
    BY <2>1, <2>2, <2>3, <2>4
<1>2. awarded[p][s] = won[s] /\ points[p] = PointsOf(won)
  BY <1>1 DEF Staked, RoundsInv, PointsOK, PaidInv
<1>3. /\ rewardPot' = left
      /\ paidOut' = [paidOut EXCEPT ![p] = @ + rewardPot - left]
      /\ undivided \subseteq undivided'
      /\ awarded[p][s] # 0 /\ Undivided(atStake[p][s]) => p \in undivided'
  BY DEF pay_one_sequencer_reward
<1>4. /\ list \in Seq(Nat) /\ sum \in Nat
      /\ ~ Undivided(atStake[p][s]) => A2 * sum <= g[s]
  <2>1. SnapshotOK(atStake[p][s])
    BY <1>1 DEF StakesOK
  <2>2. delayedPayouts[p] \in 0 .. Accuracy
    BY RoundsAssumption DEF PayoutPending, PendingInv, NoPayout
  <2>3. awarded[p][s] \in Nat /\ points[p] \in Nat \ {0}
    BY <1>1, <1>2 DEF PendingInv
  <2>4. ASSUME ~ Undivided(atStake[p][s])
        PROVE  (2 * Accuracy) * SumFunctionOnSet(payments(p, s), 1 .. Len(payments(p, s)))
                 <= Allowance(awarded[p][s], points[p])
    BY <2>1, <2>2, <2>3, <2>4, PaymentBound
  <2>5. g[s] = Allowance(awarded[p][s], points[p])
    BY <1>1, <1>2 DEF AllowancesOf
  <2>6. list \in Seq(Nat)
    BY <2>1, <2>2, <2>3, PaymentsAreAmounts
  <2> HIDE DEF list
  <2>7. sum \in Nat
    BY <1>1, <2>6, PotBound
  <2> QED
    BY <2>4, <2>5, <2>6, <2>7 DEF list
<1> HIDE DEF list
<1>5. left \in 0 .. rewardPot /\ rewardPot <= left + sum
  <2>1. /\ pot_after(rewardPot, list) \in 0 .. rewardPot
        /\ rewardPot <= pot_after(rewardPot, list) + sum
    BY <1>1, <1>4, PotBound
  <2>2. rewardPot \in 0 .. rewardPot /\ rewardPot <= rewardPot + sum
    BY <1>1, <1>4
  <2> HIDE DEF sum
  <2> QED
    BY <2>1, <2>2
<1> HIDE DEF left, sum, won, A2
<1>6. PICK taken \in Nat : /\ rewardPot = left + taken /\ taken <= sum
                           /\ awarded[p][s] = 0 => taken = 0
  <2>1. rewardPot - left \in Nat /\ rewardPot = left + (rewardPot - left) /\ rewardPot - left <= sum
    BY <1>1, <1>4, <1>5
  <2>2. awarded[p][s] = 0 => rewardPot - left = 0
    <3>1. awarded[p][s] = 0 => left = rewardPot
      BY DEF left
    <3> QED
      BY <1>1, <3>1
  <2> QED
    BY <2>1, <2>2
<1>7. /\ paidOut' \in [Rounds -> Nat] /\ paidOut'[p] = paidOut[p] + taken
      /\ \A r \in Rounds \ {p} : paidOut'[r] = paidOut[r]
  <2>1. paidOut[p] + rewardPot - left = paidOut[p] + taken /\ paidOut[p] + taken \in Nat
    <3>1. paidOut[p] \in Nat /\ left \in Nat /\ rewardPot = left + taken
      BY <1>1, <1>5, <1>6
    <3>2. \A a, b, c \in Nat : a + (b + c) - b = a + c /\ a + c \in Nat
      OBVIOUS
    <3> QED
      BY <3>1, <3>2
  <2>2. paidOut' = [paidOut EXCEPT ![p] = paidOut[p] + taken]
    BY <1>1, <1>3, <2>1
  <2> QED
    BY <1>1, <2>1, <2>2
<1>8. /\ done2 \in SUBSET Accounts /\ IsFiniteSet(done2) /\ s \in done2 /\ done2 \ {s} = done
      /\ \A a \in done2 : g[a] \in Nat
  <2>1. done2 \in SUBSET Accounts /\ s \in done2 /\ done2 \ {s} = done
    BY <1>1
  <2>2. IsFiniteSet(done2) /\ \A a \in Accounts : g[a] \in Nat
    BY <1>1, <2>1, AllowancesAreNat
  <2> QED
    BY <2>1, <2>2
<1>9. SumFunctionOnSet(g, done) \in Nat
  <2>1. done \in SUBSET Accounts
    BY <1>1
  <2> QED
    BY <1>1, <2>1, AllowancesAreNat
<1> HIDE DEF g, done, done2
<1>10. SumFunctionOnSet(g, done2) = g[s] + SumFunctionOnSet(g, done) /\ g[s] \in Nat
  BY <1>8, SumPicks
<1>11. ASSUME p \notin undivided' PROVE WithinAllowances(paidOut'[p], won, done2)
  <2>1. A2 * paidOut[p] <= SumFunctionOnSet(g, done)
    BY <1>1, <1>3, <1>11 DEF WithinAllowances, A2, g
  <2>2. A2 * taken <= g[s] /\ A2 * taken \in Nat
    <3>1. CASE awarded[p][s] = 0
      <4>1. taken = 0 /\ A2 \in Nat
        BY <1>1, <1>6, <3>1
      <4>2. A2 * taken = 0
        BY <4>1
      <4> QED
        BY <1>10, <4>2
    <3>2. CASE awarded[p][s] # 0
      <4>1. A2 * sum <= g[s]
        BY <1>3, <1>4, <1>11, <3>2 DEF g
      <4>2. A2 * taken <= A2 * sum
        <5>1. A2 \in Nat /\ taken \in Nat /\ sum \in Nat /\ taken <= sum
          BY <1>1, <1>4, <1>6
        <5> QED
          BY <5>1, FactorOut
      <4>3. A2 * taken \in Nat /\ A2 * sum \in Nat
        BY <1>1, <1>4, <1>6
      <4> QED
        BY <1>10, <4>1, <4>2, <4>3
    <3> QED
      BY <3>1, <3>2
  <2>3. paidOut[p] \in Nat
    BY <1>1
  <2>4. A2 * (paidOut[p] + taken) = A2 * paidOut[p] + A2 * taken /\ A2 * paidOut[p] \in Nat
    BY <1>1, <1>6, <2>3
  <2>5. \A u, v, x, y \in Nat : u <= x /\ v <= y => u + v <= y + x
    OBVIOUS
  <2>6. A2 * paidOut[p] + A2 * taken <= g[s] + SumFunctionOnSet(g, done)
    BY <1>9, <1>10, <2>1, <2>2, <2>4, <2>5, Zenon
  <2>7. A2 * paidOut'[p] <= SumFunctionOnSet(g, done2)
    BY <1>7, <1>10, <2>4, <2>6
  <2> QED
    BY <2>7 DEF WithinAllowances, A2, g
<1> QED
  BY <1>1, <1>3, <1>5, <1>7, <1>11 DEF won, done2

\* A block that opens no round pays within an allowance, or not at all.
LEMMA PayoutKeepsPaid ==
  ASSUME IInv, RoundsInv, PendingInv, StakesOK(atStake), PaidInv, continue_round
  PROVE  PaidInv'
<1>1. /\ round' = round /\ earned' = earned /\ RememberAtStake /\ StakeShape(atStake) /\ round \in Nat
      /\ points \in [Rounds -> Nat]
  BY DEF continue_round, BlockStarts, vars, RoundsInv, ClockOK, PendingInv
<1>2. PICK p : p = round - RewardPaymentDelay
  OBVIOUS
<1>3. PICK stake : /\ Shrunk(stake) /\ snapshot_if_due(block + 1, round, first, stake)
                   /\ Waits(p, stake) \/ Ends(p, stake) \/ Pays(p, stake)
  BY <1>1, <1>2, PayoutCases
<1>4. \A r \in Rounds : r # round + 1 => atStake'[r] = stake[r]
  <2>1. PICK now : now = round
    OBVIOUS
  <2>2. now + 1 \in Rounds /\ pool \subseteq Bond
    BY <2>1, StakingAssumption DEF RoundsInv, ClockOK, Rounds, IInv, TypeOK
  <2>3. snapshot_if_due(block + 1, now, first, stake) /\ StakeShape(stake)
    BY <1>3, <2>1 DEF Shrunk
  <2>4. /\ StakeShape(atStake')
        /\ \A r \in Rounds \ {now + 1} : atStake'[r] = stake[r]
        /\ should_snapshot(block + 1, first) => selected' \subseteq Staked(atStake', now + 1)
        /\ ~ should_snapshot(block + 1, first) => atStake' = stake /\ UNCHANGED <<selected, groupingVars>>
    BY <2>2, <2>3, SnapshotStaked
  <2> QED
    BY <2>1, <2>4
<1>5. ASSUME NEW r \in Rounds, r # p \/ stake = atStake, paidOut'[r] = paidOut[r],
             \A q \in Rounds : q # p \/ stake = atStake => stake[q] = atStake[q]
      PROVE  /\ everAtStake'[r] \in SUBSET Accounts
             /\ Staked(atStake', r) \in SUBSET everAtStake'[r]
             /\ r \in undivided \/ WithinAllowances(paidOut'[r], earned[r], everAtStake'[r] \ Staked(atStake', r))
  <2>1. CASE r = round + 1
    <3>1. paidOut'[r] = 0
      <4>1. r >= round
        BY <1>1, <2>1
      <4> QED
        BY <1>5, <4>1 DEF PaidInv
    <3>2. /\ everAtStake'[r] \in SUBSET Accounts
          /\ Staked(atStake', r) \in SUBSET everAtStake'[r]
          /\ r \in undivided \/ WithinAllowances(paidOut'[r], earned'[r], everAtStake'[r] \ Staked(atStake', r))
      BY <1>1, <3>1, UntouchedRound
    <3> QED
      BY <1>1, <3>2
  <2>2. CASE r # round + 1
    <3>1. Staked(atStake', r) = Staked(atStake, r)
      BY <1>4, <1>5, <2>2 DEF Staked
    <3>2. /\ everAtStake'[r] \in SUBSET Accounts
          /\ Staked(atStake', r) \in SUBSET everAtStake'[r]
          /\ r \in undivided \/ WithinAllowances(paidOut'[r], earned'[r], everAtStake'[r] \ Staked(atStake', r))
      BY <1>1, <1>5, <3>1, UntouchedRound
    <3> QED
      BY <1>1, <3>2
  <2> QED
    BY <2>1, <2>2
<1>6. CASE Waits(p, stake)
  <2>1. stake = atStake /\ UNCHANGED <<points, paidOut, undivided, rewardPot>>
    BY <1>6 DEF Waits
  <2>2. \A r \in Rounds : /\ everAtStake'[r] \in SUBSET Accounts
                          /\ Staked(atStake', r) \in SUBSET everAtStake'[r]
                          /\ r \in undivided \/ WithinAllowances(paidOut[r], earned[r], everAtStake'[r] \ Staked(atStake', r))
    BY <1>5, <2>1
  <2>3. everAtStake' \in [Rounds -> SUBSET Accounts]
    BY <1>1, <2>2 DEF RememberAtStake
  <2> QED
    BY <1>1, <2>1, <2>2, <2>3 DEF PaidInv, Staked
<1>7. CASE Ends(p, stake)
  <2>1. /\ stake = atStake /\ UNCHANGED <<paidOut, undivided, rewardPot>> /\ p \in Rounds /\ p < round
        /\ points' = [points EXCEPT ![p] = 0]
    BY <1>7 DEF Ends, finish_payouts, PayoutPending, PendingInv
  <2>2. \A r \in Rounds : /\ everAtStake'[r] \in SUBSET Accounts
                          /\ Staked(atStake', r) \in SUBSET everAtStake'[r]
                          /\ r \in undivided \/ WithinAllowances(paidOut[r], earned[r], everAtStake'[r] \ Staked(atStake', r))
    BY <1>5, <2>1
  <2>3. everAtStake' \in [Rounds -> SUBSET Accounts]
    BY <1>1, <2>2 DEF RememberAtStake
  <2>4. ASSUME NEW r \in Rounds, r >= round \/ points'[r] # 0 PROVE points'[r] = PointsOf(earned[r])
    <3>1. r # p
      BY <1>1, <2>1, <2>4 DEF Rounds
    <3> QED
      BY <1>1, <2>1, <2>4, <3>1 DEF PaidInv
  <2> QED
    BY <1>1, <2>1, <2>2, <2>3, <2>4 DEF PaidInv, Staked
<1>8. CASE Pays(p, stake)
  <2>1. PICK s \in Staked(atStake, p) : pay_one_sequencer_reward(p, s) /\ stake = drain(p, s)
    BY <1>8 DEF Pays
  <2>2. p \in Rounds /\ s \in Accounts /\ PayoutPending(p) /\ p < round /\ points[p] # 0
    BY <1>8, <2>1 DEF Pays, PayoutPending, Staked, PendingInv
  <2>3. points' = points
    BY <2>1, <2>2, PaymentKeeps
  <2>4. /\ rewardPot' \in Nat /\ paidOut' \in [Rounds -> Nat]
        /\ \A r \in Rounds \ {p} : paidOut'[r] = paidOut[r]
        /\ undivided \subseteq undivided'
        /\ p \in undivided' \/ WithinAllowances(paidOut'[p], earned[p], everAtStake[p] \ (Staked(atStake, p) \ {s}))
    BY <2>1, <2>2, PaymentIsWithin
  <2>5. /\ Staked(stake, p) = Staked(atStake, p) \ {s}
        /\ \A r \in Rounds \ {p} : stake[r] = atStake[r]
    <3>1. /\ Shrunk(drain(p, s)) /\ Staked(drain(p, s), p) = Staked(atStake, p) \ {s}
          /\ \A r \in Rounds \ {p} : drain(p, s)[r] = atStake[r]
          /\ \A a \in Accounts \ {s} : drain(p, s)[p][a] = atStake[p][a]
          /\ ~ drain(p, s)[p][s].present
      BY <1>1, <2>2, DrainedStakes
    <3> QED
      BY <2>1, <3>1
  <2>6. /\ everAtStake'[p] \in SUBSET Accounts
        /\ Staked(atStake', p) \in SUBSET everAtStake'[p]
        /\ p \in undivided' \/ WithinAllowances(paidOut'[p], earned[p], everAtStake'[p] \ Staked(atStake', p))
    <3>1. p # round + 1 /\ p \in Nat
      BY <1>1, <2>2 DEF Rounds
    <3>2. Staked(atStake', p) = Staked(atStake, p) \ {s}
      BY <1>4, <2>2, <2>5, <3>1 DEF Staked
    <3>3. everAtStake'[p] = everAtStake[p] \cup Staked(atStake', p)
      BY <1>1, <2>2 DEF RememberAtStake
    <3>4. Staked(atStake, p) \in SUBSET everAtStake[p] /\ everAtStake[p] \in SUBSET Accounts
      BY <2>2 DEF PaidInv
    <3>5. everAtStake'[p] = everAtStake[p]
      BY <3>2, <3>3, <3>4
    <3> QED
      BY <2>4, <3>2, <3>4, <3>5
  <2>7. ASSUME NEW r \in Rounds
        PROVE  /\ everAtStake'[r] \in SUBSET Accounts
               /\ Staked(atStake', r) \in SUBSET everAtStake'[r]
               /\ r \in undivided' \/ WithinAllowances(paidOut'[r], earned[r], everAtStake'[r] \ Staked(atStake', r))
    <3>1. CASE r = p
      BY <2>6, <3>1
    <3>2. CASE r # p
      <4>1. paidOut'[r] = paidOut[r] /\ \A q \in Rounds : q # p \/ stake = atStake => stake[q] = atStake[q]
        BY <2>4, <2>5, <3>2
      <4> QED
        BY <1>5, <2>4, <3>2, <4>1
    <3> QED
      BY <3>1, <3>2
  <2>8. everAtStake' \in [Rounds -> SUBSET Accounts]
    BY <1>1, <2>7 DEF RememberAtStake
  <2>9. ASSUME NEW r \in Rounds, r >= round PROVE paidOut'[r] = 0
    <3>1. r # p
      BY <1>1, <2>2, <2>9 DEF Rounds
    <3> QED
      BY <2>4, <2>9, <3>1 DEF PaidInv
  <2> QED
    BY <1>1, <2>3, <2>4, <2>7, <2>8, <2>9 DEF PaidInv, Staked
<1> QED
  BY <1>3, <1>6, <1>7, <1>8

\* Every step keeps what was paid within the allowances.
LEMMA PaidStepInv ==
  ASSUME IInv, RoundsInv, PendingInv, StakesOK(atStake), PaidInv, RoundsStep
  PROVE  PaidInv'
<1>1. CASE AnyCall
  <2>1. UNCHANGED <<round, atStake>>
    BY <1>1, CallsKeepRound
  <2>2. UNCHANGED <<everAtStake, paidOut, undivided>>
    BY <1>1 DEF AnyCall, RoundCall, LedgerCall, GroupingCall, RoundsIdle, charge_reward_account,
           set_sequencer_commission, set_blocks_per_round, enable_marking_offline,
           notify_inactive_sequencer, award_points_to_sequencer
  <2>3. CASE \E s \in Awardees, p \in Awards : award_points_to_sequencer(s, p)
    BY <2>3, AwardKeepsPaid
  <2>4. CASE UNCHANGED <<points, earned>> /\ rewardPot' \in Nat
    BY <2>1, <2>2, <2>4 DEF PaidInv, Staked
  <2>5. \/ \E s \in Awardees, p \in Awards : award_points_to_sequencer(s, p)
        \/ UNCHANGED <<points, earned>> /\ (rewardPot' = rewardPot \/ \E d \in Deposits : rewardPot' = rewardPot + d)
    BY <1>1 DEF AnyCall, RoundCall, LedgerCall, GroupingCall, RoundsIdle, charge_reward_account,
           set_sequencer_commission, set_blocks_per_round, enable_marking_offline,
           notify_inactive_sequencer
  <2>6. \A d \in Deposits : rewardPot + d \in Nat
    <3>1. Deposits \subseteq Nat /\ rewardPot \in Nat
      BY RoundsAssumption DEF PaidInv
    <3> QED
      BY <3>1
  <2> QED
    BY <2>3, <2>4, <2>5, <2>6 DEF PaidInv
<1> QED
  BY <1>1, OpeningKeepsPaid, PayoutKeepsPaid DEF RoundsStep

\* At genesis nothing was earned and nothing paid.
LEMMA PaidInitInv == RoundsInit => PaidInv
<1> SUFFICES ASSUME RoundsInit PROVE PaidInv
  OBVIOUS
<1> DEFINE none == [a \in Accounts |-> 0]
<1>1. /\ paidOut = [r \in Rounds |-> 0] /\ rewardPot \in Nat /\ everAtStake = [r \in Rounds |-> {}]
      /\ points = [r \in Rounds |-> 0] /\ earned = [r \in Rounds |-> none]
      /\ atStake = [r \in Rounds |-> [a \in Accounts |-> NoSnapshot]]
  BY RoundsAssumption DEF RoundsInit
<1>2. \A r \in Rounds : Staked(atStake, r) = {}
  BY <1>1 DEF Staked, NoSnapshot
<1>3. none \in [Accounts -> Nat] /\ {} \in SUBSET Accounts
  OBVIOUS
<1>4. \A a \in Accounts : none[a] = 0
  OBVIOUS
<1> HIDE DEF none
<1>5. PointsOf(none) = 0
  <2>1. SumFunctionOnSet(none, Accounts) = SumFunctionOnSet(none, {})
    <3>1. \A a \in Accounts : none[a] \in Nat
      BY <1>4
    <3>2. {} \in SUBSET Accounts /\ \A a \in Accounts \ {} : none[a] = 0
      BY <1>4
    <3> QED
      BY <3>1, <3>2, AccountsAssumption, SumSkips
  <2>2. SumFunctionOnSet(none, {}) = 0
    BY SumUnfolds, FS_EmptySet
  <2> QED
    BY <2>1, <2>2 DEF PointsOf
<1>6. WithinAllowances(0, none, {})
  BY <1>3, AllowancesAreNat
<1>7. everAtStake \in [Rounds -> SUBSET Accounts] /\ paidOut \in [Rounds -> Nat]
  BY <1>1
<1>8. ASSUME NEW r \in Rounds
      PROVE  /\ Staked(atStake, r) \in SUBSET everAtStake[r] /\ paidOut[r] = 0
             /\ points[r] = PointsOf(earned[r])
             /\ r \in undivided \/ WithinAllowances(paidOut[r], earned[r], everAtStake[r] \ Staked(atStake, r))
  <2>1. /\ everAtStake[r] = {} /\ paidOut[r] = 0 /\ points[r] = 0 /\ earned[r] = none
        /\ Staked(atStake, r) = {} /\ {} \ {} = {}
    BY <1>1, <1>2
  <2> QED
    BY <1>5, <1>6, <2>1
<1> QED
  BY <1>1, <1>7, <1>8 DEF PaidInv

\* For any stakes, points, commissions and order of the payouts: the payouts of a
\* round come out of the reward of one round, but for the rounding, however the
\* commission, the reward and the delegations divide. Nobody is paid twice: what a
\* sequencer is paid takes the snapshot away that entitles it. A round with a total of
\* 0 is left out: each part of it is the whole.
THEOREM RewardsStayWithin == RoundsSpec => []PaidWithinReward
<1>1. RoundsInit => PendingInv /\ PaidInv
  BY PendingInitInv, PaidInitInv
<1>2. IInv /\ RoundsInv /\ StakesOK(atStake) /\ PendingInv /\ PaidInv /\ [RoundsNext]_allVars
        => PendingInv' /\ PaidInv'
  BY StepsOfRounds, PendingStepInv, PaidStepInv
<1>3. RoundsInv /\ PaidInv => PaidWithinReward
  <2> SUFFICES ASSUME RoundsInv, PaidInv, NEW r \in Rounds \ undivided
               PROVE  2 * paidOut[r] <= 2 * RoundReward
                        + (MaxTopDelegationsPerCandidate + 2) * Cardinality(everAtStake[r])
    BY DEF PaidWithinReward
  <2>1. /\ earned[r] \in [Accounts -> Nat] /\ everAtStake[r] \in SUBSET Accounts
        /\ everAtStake[r] \ Staked(atStake, r) \in SUBSET everAtStake[r]
        /\ paidOut[r] \in Nat
        /\ r \in undivided \/ WithinAllowances(paidOut[r], earned[r], everAtStake[r] \ Staked(atStake, r))
    BY DEF RoundsInv, PointsOK, PaidInv
  <2> QED
    BY <2>1, AllowancesBound
<1> QED
  BY <1>1, <1>2, <1>3, AllRoundsInvariance, PTL DEF RoundsSpec
=============================================================================
