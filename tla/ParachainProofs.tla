--------------------------- MODULE ParachainProofs ---------------------------
(***************************************************************************)
(* For any accounts, lengths of rounds and metrics: with the pallets of    *)
(* the runtime together, the nodes are told to run at the right block,     *)
(* with complete groups that have what they are to run.                    *)
(***************************************************************************)
EXTENDS Parachain, StakingRoundsProofs, ContainerPalletProofs

----------------------------------------------------------------------------
(* Announcing a round.                                                     *)

\* benchmark_trigger_group, root's call that groups a list of its own, is left
\* alone: the hook alone makes groups and announces rounds.
OnlyTheHookGroups == CandidateLists = {}

\* The list of the selected has each of them once.
LEMMA InOrderLists ==
  ASSUME NEW S \in SUBSET Accounts
  PROVE  InOrder(S) \in Seq(S) /\ Distinct(InOrder(S))
<1> DEFINE n == Len(AccountOrder)
<1>1. AccountOrder \in Seq(Accounts) /\ n \in Nat /\ DOMAIN AccountOrder = 1 .. n
  BY RoundsAssumption
<1>2. \A a \in Accounts : Place(a) \in 1 .. n /\ AccountOrder[Place(a)] = a
  <2>1. \A a \in Accounts : \E i \in DOMAIN AccountOrder : AccountOrder[i] = a
    BY RoundsAssumption, Zenon
  <2>2. \A a \in Accounts : Place(a) \in DOMAIN AccountOrder /\ AccountOrder[Place(a)] = a
    BY <2>1, Zenon DEF Place
  <2> QED
    BY <1>1, <2>2
<1> HIDE DEF n
<1> DEFINE key == [a \in S |-> Place(a)]
           Smaller(a) == {b \in S : Place(b) < Place(a)}
           k == Cardinality(S)
<1>3. key \in [S -> 1 .. n] /\ \A a, b \in S : key[a] = key[b] => a = b
  BY <1>2, Zenon
<1>4. IsFiniteSet(S)
  <2> HIDE DEF key
  <2>1. key \in Injection(S, 1 .. n)
    BY <1>3 DEF Injection, IsInjective
  <2>2. IsFiniteSet(1 .. n)
    BY <1>1, FS_Interval
  <2> QED
    BY <2>1, <2>2, FS_Injection
<1>5. \A a \in S : Rank(S, key, a) = Cardinality(Smaller(a))
  BY DEF Rank
<1>6. key \in [S -> Nat]
  BY <1>1, <1>3
<1>7. \A j \in 0 .. k - 1 : \E a \in S : Cardinality(Smaller(a)) = j
  <2> HIDE DEF key, Smaller, k
  <2> SUFFICES ASSUME NEW j \in 0 .. k - 1 PROVE \E a \in S : Cardinality(Smaller(a)) = j
    OBVIOUS
  <2>1. j \in 0 .. Cardinality(S) - 1
    BY DEF k
  <2>2. \E a \in S : Rank(S, key, a) = j
    BY <1>3, <1>4, <1>6, <2>1, RankIsOnto
  <2> QED
    BY <1>5, <2>2
<1>8. k \in Nat
  BY <1>4, FS_CardinalityType
<1> DEFINE at(i) == CHOOSE a \in S : Cardinality(Smaller(a)) = i - 1
<1>9. InOrder(S) = [i \in 1 .. k |-> at(i)]
  BY DEF InOrder
<1> HIDE DEF k, Smaller
<1>10. \A i \in 1 .. k : at(i) \in S /\ Cardinality(Smaller(at(i))) = i - 1
  <2> SUFFICES ASSUME NEW i \in 1 .. k
               PROVE  at(i) \in S /\ Cardinality(Smaller(at(i))) = i - 1
    OBVIOUS
  <2>1. i - 1 \in 0 .. k - 1
    BY <1>8
  <2>2. \E a \in S : Cardinality(Smaller(a)) = i - 1
    BY <1>7, <2>1
  <2> QED
    BY <2>2, Zenon
<1> HIDE DEF at
<1>11. \A i, j \in 1 .. k : at(i) = at(j) => i = j
  <2> SUFFICES ASSUME NEW i \in 1 .. k, NEW j \in 1 .. k, at(i) = at(j) PROVE i = j
    OBVIOUS
  <2>1. i - 1 = j - 1 /\ i \in Nat /\ j \in Nat
    BY <1>8, <1>10
  <2> QED
    BY <2>1
<1> QED
  BY <1>8, <1>9, <1>10, <1>11 DEF Distinct

\* Every member of a group is selected and has a stake in round r, and every
\* group has a processor.
GroupsReady(r) ==
    /\ \A g \in all_group_ids : Members(g) \subseteq selected \cap Staked(atStake, r)
    /\ UNION {processorInfo[i].groups : i \in 1 .. ProcessorCount} = all_group_ids

\* Lists of members of S have their members in S.
LEMMA GroupsAreIn ==
  ASSUME NEW S, GroupsOver(S), NEW g \in all_group_ids
  PROVE  Members(g) \subseteq S
  BY DEF GroupsOver, Members, Lists

\* The groups stay disjoint lists of accounts.
GroupsInv == GroupingInv /\ GroupsOver(Accounts) /\ length \in Nat \ {0}

\* trigger_group announces the round it is given or none, and if it does, the
\* groups are complete.
LEMMA TriggerAnnounces ==
  ASSUME GroupsInv, NEW S \in SUBSET Accounts, NEW announced \in NextRound, NEW seed \in Seeds,
         trigger_group(InOrder(S), announced, seed)
  PROVE  /\ GroupingInv' /\ GroupsOver(Accounts)'
         /\ nextRound' # nextRound =>
               /\ nextRound' = announced
               /\ \A g \in all_group_ids' : Members(g)' \subseteq S
               /\ UNION {processorInfo'[i].groups : i \in 1 .. ProcessorCount'} = all_group_ids'
<1>1. GroupingInv /\ GroupsOver(Accounts) /\ seed \in Nat
  BY GroupingAssumption DEF GroupsInv
<1>2. InOrder(S) \in Seq(S) /\ Distinct(InOrder(S))
  BY InOrderLists
<1> DEFINE list == InOrder(S)
<1>3. list \in Seq(S) /\ list \in Seq(Accounts) /\ Distinct(list)
  <2>1. \A t \in Seq(S) : t \in Seq(Accounts)
    OBVIOUS
  <2> QED
    BY <1>2, <2>1
<1>4. trigger_group(list, announced, seed)
  OBVIOUS
<1> HIDE DEF list
<1>5. GroupingInv'
  BY <1>1, <1>4, TriggerKeeps
<1>6. GroupsOver(Accounts)'
  BY <1>1, <1>3, <1>4, TriggerGroups
<1>7. ASSUME nextRound' # nextRound
      PROVE  /\ nextRound' = announced
             /\ \A g \in all_group_ids' : Members(g)' \subseteq S
             /\ UNION {processorInfo'[i].groups : i \in 1 .. ProcessorCount'} = all_group_ids'
  <2>1. /\ Len(list) >= total_selected
        /\ groupMembers' = split(shuffle_accounts(list, seed))
        /\ nextRound' = announced
    BY <1>4, <1>7 DEF trigger_group, groupingVars
  <2>2. GroupsOver(S)'
    BY <1>1, <1>3, <2>1, SplitGroups
  <2>3. \A g \in all_group_ids' : Members(g)' \subseteq S
    BY <2>2, GroupsAreIn DEF GroupsOver, Members, Lists
  <2>4. UNION {processorInfo'[i].groups : i \in DOMAIN processorInfo'} = all_group_ids'
    BY <1>1, <1>4, <1>7, AnnouncementServed
  <2>5. DOMAIN processorInfo' = 1 .. ProcessorCount'
    BY <1>5 DEF GroupingInv, GroupingTypeOK
  <2> QED
    BY <2>1, <2>3, <2>4, <2>5
<1> QED
  BY <1>5, <1>6, <1>7

\* The second half of the hook announces the next round when its snapshot is due
\* or nothing, and what it announces is ready.
LEMMA SnapshotAnnounces ==
  ASSUME GroupsInv, pool \subseteq Bond, NEW n, NEW now \in Nat, NEW start \in Nat,
         now + 1 \in Rounds, NEW stake, StakeShape(stake), snapshot_if_due(n, now, start, stake)
  PROVE  /\ GroupingInv' /\ GroupsOver(Accounts)'
         /\ nextRound' # nextRound =>
               /\ should_snapshot(n, start)
               /\ nextRound' = [starting_block |-> start + length, round_index |-> now + 1]
               /\ \A g \in all_group_ids' :
                     Members(g)' \subseteq selected' \cap Staked(atStake', now + 1)
               /\ UNION {processorInfo'[i].groups : i \in 1 .. ProcessorCount'} = all_group_ids'
<1>1. CASE ~ should_snapshot(n, start)
  <2>1. UNCHANGED <<groupMembers, nextRound, metric, processorInfo>>
    BY <1>1 DEF snapshot_if_due, groupingVars
  <2> QED
    BY <2>1 DEF GroupsInv, GroupingInv, GroupingTypeOK, OneProcessorPerGroup, ProcessorCount,
                GroupsOver, GroupsDisjoint, all_group_ids
<1>2. CASE should_snapshot(n, start)
  <2> DEFINE announced == [starting_block |-> start + length, round_index |-> now + 1]
  <2>1. announced \in NextRound
    BY DEF NextRound, GroupsInv
  <2>2. selected' \subseteq Staked(atStake', now + 1)
    BY <1>2, SnapshotStaked
  <2>3. PICK S : S = selected'
    OBVIOUS
  <2>4. S \in SUBSET Accounts
    BY <2>2, <2>3 DEF Staked
  <2>5. \E seed \in Seeds : trigger_group(InOrder(S), announced, seed)
    BY <1>2, <2>3 DEF snapshot_if_due
  <2> HIDE DEF announced
  <2>6. PICK seed \in Seeds : trigger_group(InOrder(S), announced, seed)
    BY <2>5
  <2>7. /\ GroupingInv' /\ GroupsOver(Accounts)'
        /\ nextRound' # nextRound =>
               /\ nextRound' = announced
               /\ \A g \in all_group_ids' : Members(g)' \subseteq S
               /\ UNION {processorInfo'[i].groups : i \in 1 .. ProcessorCount'} = all_group_ids'
    BY <2>1, <2>4, <2>6, TriggerAnnounces
  <2> QED
    BY <1>2, <2>2, <2>3, <2>7 DEF announced
<1> QED
  BY <1>1, <1>2

\* What a block announces is for the round after the one that is running, and it
\* starts a whole round after the start of that one.
LEMMA HookAnnounces ==
  ASSUME TypeOK, RoundsInv, GroupsInv, open_round \/ continue_round
  PROVE  /\ GroupsInv'
         /\ nextRound' # nextRound =>
               /\ should_snapshot(block', first')
               /\ nextRound'.starting_block = first' + length
               /\ nextRound'.round_index = round' + 1
               /\ \A g \in all_group_ids' :
                     Members(g)' \subseteq selected' \cap Staked(atStake', round' + 1)
               /\ UNION {processorInfo'[i].groups : i \in 1 .. ProcessorCount'} = all_group_ids'
<1>1. pool \subseteq Bond /\ ClockOK /\ StakeShape(atStake)
      /\ awarded \in [Rounds -> [Accounts -> Nat]]
  BY DEF TypeOK, RoundsInv, PointsOK
<1>2. round \in Nat /\ block \in Nat /\ first \in Nat
  BY <1>1 DEF ClockOK
<1>3. CASE open_round
  <2>1. /\ block' = block + 1 /\ round' = round + 1 /\ first' = block' /\ round < MaxRound
        /\ length' = length
        /\ snapshot_if_due(block + 1, round + 1, block + 1, atStake)
    BY <1>3 DEF open_round, BlockStarts, new_round
  <2>2. PICK now, start : now = round + 1 /\ start = block + 1
    OBVIOUS
  <2>3. now \in Nat /\ start \in Nat /\ now + 1 \in Rounds
    BY <1>2, <2>1, <2>2, StakingAssumption DEF Rounds
  <2>4. snapshot_if_due(start, now, start, atStake)
    BY <2>1, <2>2
  <2>5. /\ GroupingInv' /\ GroupsOver(Accounts)'
        /\ nextRound' # nextRound =>
               /\ should_snapshot(start, start)
               /\ nextRound' = [starting_block |-> start + length, round_index |-> now + 1]
               /\ \A g \in all_group_ids' :
                     Members(g)' \subseteq selected' \cap Staked(atStake', now + 1)
               /\ UNION {processorInfo'[i].groups : i \in 1 .. ProcessorCount'} = all_group_ids'
    BY <1>1, <2>3, <2>4, SnapshotAnnounces
  <2> QED
    BY <2>1, <2>2, <2>5 DEF GroupsInv, should_snapshot
<1>4. CASE continue_round
  <2>1. /\ block' = block + 1 /\ round' = round /\ first' = first /\ length' = length
    BY <1>4 DEF continue_round, BlockStarts, vars
  <2>2. PICK stake : StakeShape(stake) /\ snapshot_if_due(block + 1, round, first, stake)
    BY <1>1, <1>4, PayoutStep, Zenon
  <2>3. PICK n, now, start : n = block + 1 /\ now = round /\ start = first
    OBVIOUS
  <2>4. now \in Nat /\ start \in Nat /\ now + 1 \in Rounds
    BY <1>1, <1>2, <2>3, StakingAssumption DEF Rounds, ClockOK
  <2>5. StakeShape(stake) /\ snapshot_if_due(n, now, start, stake)
    BY <2>2, <2>3
  <2>6. /\ GroupingInv' /\ GroupsOver(Accounts)'
        /\ nextRound' # nextRound =>
               /\ should_snapshot(n, start)
               /\ nextRound' = [starting_block |-> start + length, round_index |-> now + 1]
               /\ \A g \in all_group_ids' :
                     Members(g)' \subseteq selected' \cap Staked(atStake', now + 1)
               /\ UNION {processorInfo'[i].groups : i \in 1 .. ProcessorCount'} = all_group_ids'
    BY <1>1, <2>4, <2>5, SnapshotAnnounces
  <2> QED
    BY <2>1, <2>3, <2>6 DEF GroupsInv, should_snapshot
<1> QED
  BY <1>3, <1>4

\* A processor that registers, again or for the first time, brings no group and
\* takes none away.
LEMMA RegisterServes ==
  ASSUME GroupingInv, NEW who \in Processors, NEW address \in Addresses,
         register_processor(who, address)
  PROVE  UNION {processorInfo'[i].groups : i \in 1 .. ProcessorCount'}
            = UNION {processorInfo[i].groups : i \in 1 .. ProcessorCount}
<1>1. /\ processorInfo \in [1 .. ProcessorCount -> Processor] /\ ProcessorCount \in Nat
  BY DEF GroupingInv, GroupingTypeOK
<1> DEFINE n == ProcessorCount
           known == {i \in 1 .. n : processorInfo[i].account = who}
<1>2. CASE known # {}
  <2>1. processorInfo' = [i \in 1 .. n |->
                             IF i \in known THEN [processorInfo[i] EXCEPT !.address = address]
                                            ELSE processorInfo[i]]
    BY <1>2 DEF register_processor
  <2> HIDE DEF known
  <2>2. \A i \in 1 .. n : processorInfo'[i].groups = processorInfo[i].groups
    <3> SUFFICES ASSUME NEW i \in 1 .. n PROVE processorInfo'[i].groups = processorInfo[i].groups
      OBVIOUS
    <3>1. processorInfo[i] \in Processor
      BY <1>1
    <3>2. processorInfo'[i] = IF i \in known THEN [processorInfo[i] EXCEPT !.address = address]
                                             ELSE processorInfo[i]
      BY <2>1
    <3> QED
      BY <3>1, <3>2 DEF Processor
  <2>3. ProcessorCount' = n
    <3> HIDE DEF n
    <3>1. n \in Nat
      BY <1>1 DEF n
    <3>2. Len(processorInfo') = n
      BY <2>1, <3>1
    <3> QED
      BY <3>2 DEF ProcessorCount
  <2> QED
    BY <2>2, <2>3
<1>3. CASE known = {}
  <2> DEFINE p == [account |-> who, address |-> address, groups |-> {}]
  <2>1. processorInfo' = Append(processorInfo, p)
    BY <1>3 DEF register_processor
  <2>2. p \in Processor /\ p.groups = {}
    BY DEF Processor
  <2>3. processorInfo \in Seq(Processor) /\ Len(processorInfo) = n
    BY <1>1 DEF ProcessorCount
  <2> HIDE DEF p
  <2>4. /\ Len(processorInfo') = n + 1
        /\ \A i \in 1 .. n : processorInfo'[i] = processorInfo[i]
        /\ processorInfo'[n + 1] = p
    BY <2>1, <2>2, <2>3, AppendProperties
  <2>5. ProcessorCount' = n + 1
    BY <2>4 DEF ProcessorCount
  <2> HIDE DEF n
  <2>6. \A i : i \in 1 .. n + 1 <=> i \in 1 .. n \/ i = n + 1
    BY <1>1 DEF n
  <2>7. UNION {processorInfo'[i].groups : i \in 1 .. n + 1}
           = UNION {processorInfo[i].groups : i \in 1 .. n}
    BY <2>2, <2>4, <2>6
  <2> QED
    BY <2>5, <2>7 DEF n
<1> QED
  BY <1>2, <1>3

\* A call neither groups nor announces, and no processor gets or loses a group.
LEMMA CallsKeepGroups ==
  ASSUME OnlyTheHookGroups, GroupsInv, AnyCall
  PROVE  /\ GroupsInv'
         /\ UNCHANGED <<groupMembers, nextRound>>
         /\ UNION {processorInfo'[i].groups : i \in 1 .. ProcessorCount'}
               = UNION {processorInfo[i].groups : i \in 1 .. ProcessorCount}
<1>1. GroupingInv /\ metric \in Metric /\ length \in Nat \ {0}
      /\ processorInfo \in [1 .. ProcessorCount -> Processor] /\ ProcessorCount \in Nat
  BY DEF GroupsInv, GroupingInv, GroupingTypeOK
<1>2. CASE UNCHANGED groupingVars
  <2>1. length' \in Nat \ {0}
    <3>1. total_selected \in Nat
      BY <1>1 DEF total_selected, Metric
    <3>2. ASSUME NEW new \in BlockLengths, set_blocks_per_round(new)
          PROVE  length' \in Nat \ {0}
      BY <3>1, <3>2, RoundsAssumption DEF set_blocks_per_round
    <3>3. length' = length \/ \E new \in BlockLengths : set_blocks_per_round(new)
      BY DEF AnyCall, RoundCall, LedgerCall, GroupingCall, RoundsIdle, charge_reward_account,
             set_sequencer_commission, enable_marking_offline, notify_inactive_sequencer,
             award_points_to_sequencer
    <3> QED
      BY <1>1, <3>2, <3>3
  <2>2. UNCHANGED <<groupMembers, nextRound, metric, processorInfo>>
    BY <1>2 DEF groupingVars
  <2> QED
    BY <2>1, <2>2 DEF GroupsInv, GroupingInv, GroupingTypeOK, OneProcessorPerGroup, ProcessorCount,
                      GroupsOver, GroupsDisjoint, all_group_ids
<1>3. CASE GroupingNext /\ UNCHANGED length
  <2>1. GroupingInv'
    BY <1>1, <1>3, GroupingNextInv
  <2>2. UNCHANGED <<groupMembers, nextRound>>
    BY <1>3 DEF GroupingNext, OnlyTheHookGroups, set_group_metric, register_processor
  <2>3. GroupsOver(Accounts)'
    BY <2>2 DEF GroupsInv, GroupsOver, GroupsDisjoint, all_group_ids
  <2>4. UNION {processorInfo'[i].groups : i \in 1 .. ProcessorCount'}
           = UNION {processorInfo[i].groups : i \in 1 .. ProcessorCount}
    <3>1. CASE \E new \in Metrics : set_group_metric(new)
      BY <3>1 DEF set_group_metric, ProcessorCount
    <3>2. ASSUME NEW who \in Processors, NEW address \in Addresses, register_processor(who, address)
          PROVE  UNION {processorInfo'[i].groups : i \in 1 .. ProcessorCount'}
                    = UNION {processorInfo[i].groups : i \in 1 .. ProcessorCount}
      BY <1>1, <3>2, RegisterServes
    <3> QED
      BY <1>3, <3>1, <3>2 DEF GroupingNext, OnlyTheHookGroups
  <2> QED
    BY <1>1, <1>3, <2>1, <2>2, <2>3, <2>4 DEF GroupsInv
<1>4. UNCHANGED groupingVars \/ (GroupingNext /\ UNCHANGED length)
  BY DEF AnyCall, RoundCall, LedgerCall, GroupingCall, RoundsIdle, charge_reward_account,
         set_sequencer_commission, enable_marking_offline, notify_inactive_sequencer,
         award_points_to_sequencer, set_blocks_per_round, groupingVars
<1> QED
  BY <1>2, <1>3, <1>4

----------------------------------------------------------------------------
(* Blocks.                                                                 *)

\* What the chain keeps in order, besides the ledger.
PartsInv == RoundsInv /\ GroupsInv /\ AppsInv

\* No round beyond the next one is announced, and that one not before its
\* snapshot.
AnnouncedInv ==
    /\ nextRound.round_index <= round + 1
    /\ nextRound.round_index = round + 1 => block - first >= SnapshotTimePoint

\* The announced block is where the announced round starts; an older announcement
\* has passed.
OnTime ==
    /\ nextRound.round_index = round + 1 =>
          nextRound.starting_block = first + length /\ block < nextRound.starting_block
    /\ nextRound.round_index = round => nextRound.starting_block = first
    /\ nextRound.round_index < round =>
          nextRound.starting_block = 0 \/ nextRound.starting_block < first

TimingInv == AnnouncedInv /\ (lengthKept => OnTime)

\* A step of the chain, seen by the staking pallet.
LEMMA StepsOfChain ==
  ASSUME [ChainNext]_chainVars
  PROVE  /\ \/ InitializeBlock /\ (open_round \/ continue_round) /\ UNCHANGED containerVars
               /\ phase' = "calls" /\ told' = [a \in Accounts |-> shuld_load(a)]
            \/ AnyCall /\ UNCHANGED <<phase, told>>
               /\ (ContainerCall \/ UNCHANGED containerVars)
            \/ AnyCall /\ UNCHANGED <<vars, groupingVars, told>>
               /\ on_finalize /\ phase = "calls" /\ phase' = "head"
         /\ RoundsStep
         /\ lengthKept' => nextRound' # nextRound \/ (lengthKept /\ length' = length)
<1>1. CASE InitializeBlock
  BY <1>1 DEF InitializeBlock, RoundsStep, RememberLength
<1>2. CASE Dispatch
  <2>1. AnyCall
    BY <1>2 DEF Dispatch, Call, ContainerCall, AnyCall, RoundsIdle
  <2> QED
    BY <1>2, <2>1 DEF Dispatch, RoundsStep, RememberLength
<1>3. CASE FinalizeBlock
  BY <1>3 DEF FinalizeBlock, AnyCall, RoundsIdle, RoundsStep, allVars, roundVars
<1>4. CASE UNCHANGED chainVars
  BY <1>4 DEF chainVars, AnyCall, RoundsIdle, RoundsStep, allVars, roundVars
<1> QED
  BY <1>1, <1>2, <1>3, <1>4 DEF ChainNext

\* The whole runtime implements the ledger, the other pallets' hooks and calls
\* in between.
LEMMA ChainRunsTheLedger == ChainSpec => Spec
<1>1. ChainInit => Init
  BY DEF ChainInit, RoundsInit
<1>2. [ChainNext]_chainVars => [Next]_vars
  BY StepsOfChain, CallIsLedgerStep, HookIsLedgerStep DEF RoundsStep
<1> QED
  BY <1>1, <1>2, PTL DEF ChainSpec, Spec

\* Calls and hooks of the container pallet keep groups and applications matched.
LEMMA AppsStepInv ==
  ASSUME AppsInv, GroupingTypeOK,
         ContainerCall \/ on_finalize \/ UNCHANGED containerVars
  PROVE  AppsInv'
<1>1. CASE UNCHANGED containerVars
  BY <1>1 DEF containerVars, AppsInv, ContainerTypeOK
<1>2. CASE on_finalize
  BY <1>2, FinalizeKeeps
<1>3. ASSUME NEW info \in AppInfos, register_app(info) PROVE AppsInv'
  BY <1>3, RegisterAppKeeps
<1>4. ASSUME NEW url \in Urls, set_default_url(url) PROVE AppsInv'
  BY <1>4 DEF set_default_url, AppsInv, ContainerTypeOK
<1> QED
  BY <1>1, <1>2, <1>3, <1>4 DEF ContainerCall

\* Each part of the chain keeps its own storage in order.
LEMMA PartsStepInv ==
  ASSUME OnlyTheHookGroups, TypeOK, PartsInv, [ChainNext]_chainVars
  PROVE  PartsInv'
<1>1. RoundsStep
  BY StepsOfChain
<1>2. RoundsInv'
  BY <1>1, RoundsStepInv DEF PartsInv
<1>3. GroupsInv'
  BY <1>1, HookAnnounces, CallsKeepGroups DEF PartsInv, RoundsStep
<1>4. AppsInv'
  <2>1. ContainerCall \/ on_finalize \/ UNCHANGED containerVars
    BY StepsOfChain
  <2>2. AppsInv /\ GroupingTypeOK
    BY DEF PartsInv, GroupsInv, GroupingInv
  <2> QED
    BY <2>1, <2>2, AppsStepInv
<1> QED
  BY <1>2, <1>3, <1>4 DEF PartsInv

\* The genesis of the chain is that of its parts.
LEMMA PartsInitInv == ChainInit => PartsInv
<1> SUFFICES ASSUME ChainInit PROVE PartsInv
  OBVIOUS
<1>1. RoundsInv
  BY RoundsInitInv DEF ChainInit
<1>2. GroupsInv
  <2>1. GroupingInit /\ length = GenesisBlocksPerRound
    BY DEF ChainInit, RoundsInit
  <2>2. all_group_ids = {}
    BY <2>1 DEF GroupingInit, all_group_ids
  <2> QED
    BY <2>1, <2>2, GroupingInitInv, RoundsAssumption DEF GroupsInv, GroupsOver, GroupsDisjoint
<1>3. AppsInv
  <2>1. PalletsInit
    BY DEF ChainInit, RoundsInit, PalletsInit
  <2> QED
    BY <2>1, PalletsInitInv DEF PalletsInv
<1> QED
  BY <1>1, <1>2, <1>3 DEF PartsInv

\* The invariants of the parts hold after every block of the chain.
LEMMA ChainInvariance ==
  ASSUME OnlyTheHookGroups
  PROVE  ChainSpec => [](TypeOK /\ PartsInv)
<1>1. TypeOK /\ PartsInv /\ [ChainNext]_chainVars => PartsInv'
  BY PartsStepInv
<1> QED
  BY <1>1, PartsInitInv, ChainRunsTheLedger, TypeCorrect, PTL DEF ChainSpec

\* The groups of the chain are disjoint, whatever is selected, because the hook
\* lists everyone it selects once.
THEOREM ChainGroupsDisjoint ==
  ASSUME OnlyTheHookGroups
  PROVE  ChainSpec => []GroupsDisjoint
<1>1. PartsInv => GroupsDisjoint
  BY DEF PartsInv, GroupsInv, GroupsOver
<1> QED
  BY <1>1, ChainInvariance, PTL

----------------------------------------------------------------------------
(* The signal to run.                                                      *)

\* What the clock of a block does, with the announcement it makes or leaves.
LEMMA HookClock ==
  ASSUME TypeOK, PartsInv, open_round \/ continue_round
  PROVE  /\ round \in Nat /\ block \in Nat /\ first \in Nat /\ first <= block
         /\ length \in Nat \ {0} /\ length' = length /\ block' = block + 1
         /\ nextRound.starting_block \in Nat /\ nextRound.round_index \in Nat
         /\ \/ /\ open_round /\ round' = round + 1 /\ first' = block'
               /\ (block + 1) - first >= length
            \/ /\ continue_round /\ round' = round /\ first' = first
               /\ (block + 1) - first < length
         /\ nextRound' # nextRound =>
               /\ block' - first' = SnapshotTimePoint
               /\ nextRound'.starting_block = first' + length
               /\ nextRound'.round_index = round' + 1
<1>1. /\ round \in Nat /\ block \in Nat /\ first \in Nat /\ first <= block
      /\ length \in Nat \ {0} /\ nextRound \in NextRound
  BY DEF PartsInv, RoundsInv, GroupsInv, ClockOK, GroupingInv, GroupingTypeOK
<1>2. /\ length' = length /\ block' = block + 1
      /\ \/ open_round /\ round' = round + 1 /\ first' = block'
         \/ continue_round /\ UNCHANGED <<round, first>>
  BY HookStaked DEF PartsInv, RoundsInv, PointsOK
<1>3. nextRound' # nextRound =>
         /\ should_snapshot(block', first')
         /\ nextRound'.starting_block = first' + length
         /\ nextRound'.round_index = round' + 1
  BY HookAnnounces DEF PartsInv
<1>4. open_round => (block + 1) - first >= length
  <2>1. open_round => should_update(block + 1)
    BY DEF open_round
  <2> QED
    BY <2>1 DEF should_update
<1>5. continue_round => (block + 1) - first < length
  <2>1. continue_round => ~ should_update(block + 1)
    BY DEF continue_round
  <2> QED
    BY <1>1, <2>1 DEF should_update
<1> QED
  BY <1>1, <1>2, <1>3, <1>4, <1>5 DEF should_snapshot, NextRound

\* Announcements keep their time.
LEMMA TimingStepInv ==
  ASSUME OnlyTheHookGroups, TypeOK, PartsInv, TimingInv, [ChainNext]_chainVars
  PROVE  TimingInv'
<1> DEFINE stp == SnapshotTimePoint
<1>1. stp \in Nat /\ stp' = stp
  BY TimePoint DEF SnapshotTimePoint
<1>2. lengthKept' => nextRound' # nextRound \/ (lengthKept /\ length' = length)
  BY StepsOfChain
<1>3. CASE AnyCall
  <2>1. UNCHANGED <<round, block, first, nextRound>>
    BY <1>3, CallsKeepRound, CallsKeepGroups DEF PartsInv
  <2>2. AnnouncedInv'
    BY <1>1, <2>1 DEF TimingInv, AnnouncedInv
  <2>3. lengthKept' => OnTime'
    BY <1>2, <2>1 DEF TimingInv, OnTime
  <2> QED
    BY <2>2, <2>3 DEF TimingInv
<1>4. CASE open_round \/ continue_round
  <2>1. /\ round \in Nat /\ block \in Nat /\ first \in Nat /\ first <= block
        /\ length \in Nat \ {0} /\ length' = length /\ block' = block + 1
        /\ nextRound.starting_block \in Nat /\ nextRound.round_index \in Nat
        /\ \/ /\ open_round /\ round' = round + 1 /\ first' = block'
              /\ (block + 1) - first >= length
           \/ /\ continue_round /\ round' = round /\ first' = first
              /\ (block + 1) - first < length
        /\ nextRound' # nextRound =>
              /\ block' - first' = stp
              /\ nextRound'.starting_block = first' + length
              /\ nextRound'.round_index = round' + 1
    BY <1>4, HookClock
  <2> HIDE DEF stp
  <2>2. CASE nextRound' # nextRound
    <3>1. block' < first' + length
      BY <2>1
    <3>2. nextRound'.round_index # round' /\ ~(nextRound'.round_index < round')
          /\ nextRound'.round_index <= round' + 1 /\ block' - first' >= stp
      BY <1>1, <2>1, <2>2
    <3>3. nextRound'.starting_block = first' + length' /\ nextRound'.round_index = round' + 1
      BY <2>1, <2>2
    <3>4. AnnouncedInv' /\ OnTime'
      BY <1>1, <2>1, <3>1, <3>2, <3>3 DEF AnnouncedInv, OnTime, stp
    <3> QED
      BY <3>4 DEF TimingInv
  <2>3. CASE nextRound' = nextRound
    <3>1. AnnouncedInv'
      BY <1>1, <2>1, <2>3 DEF TimingInv, AnnouncedInv, stp
    <3>2. ASSUME lengthKept' PROVE OnTime'
      <4>1. OnTime /\ AnnouncedInv
        BY <1>2, <2>3, <3>2 DEF TimingInv
      <4> QED
        BY <2>1, <2>3, <4>1 DEF OnTime, AnnouncedInv
    <3> QED
      BY <3>1, <3>2 DEF TimingInv
  <2> QED
    BY <2>2, <2>3
<1> QED
  BY <1>3, <1>4, StepsOfChain DEF RoundsStep

\* Nothing is announced at genesis.
LEMMA TimingInitInv == ChainInit => TimingInv
  BY TimePoint DEF ChainInit, RoundsInit, Init, GroupingInit, TimingInv, AnnouncedInv, OnTime

\* So does what says when a round is announced and for which block.
LEMMA TimingInvariance ==
  ASSUME OnlyTheHookGroups
  PROVE  ChainSpec => [](TypeOK /\ PartsInv /\ TimingInv)
<1>1. TypeOK /\ PartsInv /\ TimingInv /\ [ChainNext]_chainVars => TimingInv'
  BY TimingStepInv
<1> QED
  BY <1>1, TimingInitInv, ChainInvariance, PTL DEF ChainSpec

\* At a head after genesis the signal to run and the opening of an announced round
\* coincide.
LEMMA RunIsOpening ==
  ASSUME PartsInv, TimingInv, lengthKept, block > 0
  PROVE  should_run <=> block = first /\ nextRound.round_index = round
<1>1. /\ round \in Nat /\ block \in Nat /\ first \in Nat /\ first <= block
      /\ nextRound.starting_block \in Nat /\ nextRound.round_index \in Nat
  BY DEF PartsInv, RoundsInv, GroupsInv, ClockOK, GroupingInv, GroupingTypeOK, NextRound
<1> QED
  BY <1>1 DEF TimingInv, AnnouncedInv, OnTime, should_run

\* Whatever the lengths of the rounds, the seeds and the failures of groupings: as
\* long as the length is not changed after the announcement, the nodes are told to
\* run at the block that opens the announced round, and at no other.
THEOREM RunAtTheOpening ==
  ASSUME OnlyTheHookGroups
  PROVE  ChainSpec => []RunOpensRound
<1>1. PartsInv /\ TimingInv => RunOpensRound
  BY RunIsOpening DEF RunOpensRound, AtHead
<1> QED
  BY <1>1, TimingInvariance, PTL

----------------------------------------------------------------------------
(* Who runs.                                                               *)

\* The groups of an announced round are ready for it until it is open, and in the
\* block that opens it.
RunnersInv ==
    /\ nextRound.round_index = round + 1 => GroupsReady(round + 1)
    /\ nextRound.round_index = round /\ block = first => GroupsReady(round)

\* Groups stay ready for a round whose stakes are not touched.
LEMMA ReadyStays ==
  ASSUME NEW r, GroupsReady(r), UNCHANGED <<groupMembers, selected>>, atStake'[r] = atStake[r],
         UNION {processorInfo'[i].groups : i \in 1 .. ProcessorCount'}
            = UNION {processorInfo[i].groups : i \in 1 .. ProcessorCount}
  PROVE  GroupsReady(r)'
<1>1. all_group_ids' = all_group_ids /\ \A g : Members(g)' = Members(g)
  BY DEF all_group_ids, Members
<1>2. Staked(atStake', r) = Staked(atStake, r)
  BY DEF Staked
<1> QED
  BY <1>1, <1>2 DEF GroupsReady

\* Groups are made by the hook alone, which leaves them when they are announced
\* for the round that opens.
LEMMA RunnersStepInv ==
  ASSUME OnlyTheHookGroups, GenesisBlocksPerRound >= 2, TypeOK, PartsInv, TimingInv, RunnersInv,
         [ChainNext]_chainVars
  PROVE  RunnersInv'
<1>1. CASE AnyCall
  <2>1. /\ UNCHANGED <<round, block, first, selected, atStake, groupMembers, nextRound>>
        /\ UNION {processorInfo'[i].groups : i \in 1 .. ProcessorCount'}
              = UNION {processorInfo[i].groups : i \in 1 .. ProcessorCount}
    BY <1>1, CallsKeepRound, CallsKeepGroups DEF PartsInv
  <2>2. PICK now : now = round
    OBVIOUS
  <2>3. GroupsReady(now + 1) => GroupsReady(now + 1)'
    BY <2>1, ReadyStays
  <2>4. GroupsReady(now) => GroupsReady(now)'
    BY <2>1, ReadyStays
  <2> QED
    BY <2>1, <2>2, <2>3, <2>4 DEF RunnersInv
<1>2. CASE open_round \/ continue_round
  <2> DEFINE stp == SnapshotTimePoint
  <2>1. /\ round \in Nat /\ block \in Nat /\ first \in Nat /\ first <= block
        /\ block' = block + 1 /\ nextRound.round_index \in Nat
        /\ \/ open_round /\ round' = round + 1 /\ first' = block'
           \/ continue_round /\ round' = round /\ first' = first
    BY <1>2, HookClock
  <2>2. stp \in Nat /\ stp > 0
    BY TimePoint
  <2>3. /\ \A r \in Rounds : r >= round /\ r # round' + 1 => atStake'[r] = atStake[r]
        /\ ~ should_snapshot(block', first') =>
              /\ atStake'[round' + 1] = atStake[round' + 1]
              /\ UNCHANGED <<selected, groupingVars>>
    BY <1>2, HookStaked DEF PartsInv, RoundsInv, PointsOK
  <2>4. CASE nextRound' # nextRound
    <3>1. PICK now : now = round' + 1
      OBVIOUS
    <3>2. /\ nextRound'.round_index = now
          /\ \A g \in all_group_ids' : Members(g)' \subseteq selected' \cap Staked(atStake', now)
          /\ UNION {processorInfo'[i].groups : i \in 1 .. ProcessorCount'} = all_group_ids'
      BY <1>2, <2>4, <3>1, HookAnnounces DEF PartsInv
    <3>3. GroupsReady(now)'
      BY <3>2 DEF GroupsReady
    <3>4. nextRound'.round_index # round'
      BY <2>1, <3>1, <3>2
    <3> QED
      BY <3>1, <3>3, <3>4 DEF RunnersInv
  <2>5. CASE nextRound' = nextRound /\ open_round /\ round' = round + 1 /\ first' = block'
    <3>1. ~ should_snapshot(block', first')
      <4> HIDE DEF stp
      <4>1. block' - first' # stp
        BY <2>1, <2>2, <2>5
      <4> QED
        BY <4>1 DEF should_snapshot, stp
    <3>2. PICK now : now = round + 1
      OBVIOUS
    <3>3. now \in Rounds /\ now >= round /\ now # round' + 1
      BY <2>1, <2>5, <3>2, StakingAssumption DEF PartsInv, RoundsInv, ClockOK, Rounds
    <3>4. GroupsReady(now) => GroupsReady(now)'
      <4>1. UNCHANGED <<groupMembers, processorInfo, selected>> /\ ProcessorCount' = ProcessorCount
        BY <2>3, <3>1 DEF groupingVars, ProcessorCount
      <4>2. atStake'[now] = atStake[now]
        BY <2>3, <3>3
      <4> QED
        BY <4>1, <4>2, ReadyStays
    <3>5. nextRound.round_index <= round + 1
      BY DEF TimingInv, AnnouncedInv
    <3> QED
      BY <2>1, <2>5, <3>2, <3>4, <3>5 DEF RunnersInv
  <2>6. CASE nextRound' = nextRound /\ continue_round /\ round' = round /\ first' = first
    <3>1. PICK now : now = round + 1
      OBVIOUS
    <3>2. block' # first'
      BY <2>1, <2>6
    <3>3. ASSUME nextRound'.round_index = round' + 1 PROVE GroupsReady(now)'
      <4>1. nextRound.round_index = round + 1 /\ GroupsReady(now) /\ block - first >= stp
        BY <2>6, <3>1, <3>3 DEF RunnersInv, TimingInv, AnnouncedInv
      <4>2. ~ should_snapshot(block', first')
        <5> HIDE DEF stp
        <5>1. block' - first' # stp
          BY <2>1, <2>2, <2>6, <4>1
        <5> QED
          BY <5>1 DEF should_snapshot, stp
      <4>3. UNCHANGED <<groupMembers, processorInfo, selected>> /\ ProcessorCount' = ProcessorCount
            /\ atStake'[now] = atStake[now]
        BY <2>3, <2>6, <3>1, <4>2 DEF groupingVars, ProcessorCount
      <4> QED
        BY <4>1, <4>3, ReadyStays
    <3> QED
      BY <2>6, <3>1, <3>2, <3>3 DEF RunnersInv
  <2> QED
    BY <2>1, <2>4, <2>5, <2>6
<1> QED
  BY <1>1, <1>2, StepsOfChain DEF RoundsStep

\* Nothing is announced at genesis.
LEMMA RunnersInitInv == ChainInit => RunnersInv
  BY DEF ChainInit, RoundsInit, Init, GroupingInit, RunnersInv

\* Whoever is told to run when a round opens has a stake in it, and each group a
\* processor, whatever failed before. A genesis length of one block would take a
\* snapshot in the block that opens the round before.
THEOREM RunnersStaked ==
  ASSUME OnlyTheHookGroups, GenesisBlocksPerRound >= 2
  PROVE  ChainSpec => []RunnersAreStaked
<1>1. TypeOK /\ PartsInv /\ TimingInv /\ RunnersInv /\ [ChainNext]_chainVars => RunnersInv'
  BY RunnersStepInv
<1>2. PartsInv /\ TimingInv /\ RunnersInv => RunnersAreStaked
  <2> SUFFICES ASSUME PartsInv, TimingInv, RunnersInv,
                      AtHead, should_run, block = first, lengthKept
               PROVE  GroupsReady(round)
    BY DEF RunnersAreStaked, GroupsReady
  <2>1. nextRound.round_index = round
    BY RunIsOpening DEF AtHead
  <2> QED
    BY <2>1 DEF RunnersInv
<1> QED
  BY <1>1, <1>2, RunnersInitInv, TimingInvariance, PTL DEF ChainSpec

----------------------------------------------------------------------------
(* No group waits.                                                         *)

\* The storage of the grouping and container pallets is in order, whatever root
\* groups.
StorageInv == RoundsInv /\ GroupingInv /\ length \in Nat /\ AppsInv

\* The hook writes the groups through trigger_group, if at all.
LEMMA HookTriggers ==
  ASSUME RoundsInv, length \in Nat, open_round \/ continue_round
  PROVE  \/ UNCHANGED groupingVars
         \/ \E candidates, announced, seed :
               announced \in NextRound /\ trigger_group(candidates, announced, seed)
<1>1. round \in Nat /\ block \in Nat /\ first \in Nat
  BY DEF RoundsInv, ClockOK
<1>2. ASSUME NEW n, NEW now \in Nat, NEW start \in Nat, NEW stake,
             snapshot_if_due(n, now, start, stake)
      PROVE  \/ UNCHANGED groupingVars
             \/ \E candidates, announced, seed :
                   announced \in NextRound /\ trigger_group(candidates, announced, seed)
  <2> DEFINE announced == [starting_block |-> start + length, round_index |-> now + 1]
  <2>1. announced \in NextRound
    BY <1>2 DEF NextRound
  <2> QED
    BY <1>2, <2>1 DEF snapshot_if_due
<1>3. CASE open_round
  <2>1. snapshot_if_due(block + 1, round + 1, block + 1, atStake)
    BY <1>3 DEF open_round
  <2>2. block + 1 \in Nat /\ round + 1 \in Nat
    BY <1>1
  <2> QED
    BY <1>2, <2>1, <2>2
<1>4. CASE continue_round
  <2>1. \E stake : snapshot_if_due(block + 1, round, first, stake)
    BY <1>4 DEF continue_round
  <2> QED
    BY <1>1, <1>2, <2>1
<1> QED
  BY <1>3, <1>4

\* What the hook triggers or root calls keeps the storage of the grouping pallet.
LEMMA GroupingStays ==
  ASSUME RoundsInv, GroupingInv, length \in Nat, RoundsStep
  PROVE  GroupingInv' /\ length' \in Nat
<1>1. CASE UNCHANGED groupingVars
  <2>1. GroupingInv'
    BY <1>1 DEF groupingVars, GroupingInv, GroupingTypeOK, OneProcessorPerGroup, ProcessorCount
  <2>2. length' = length \/ length' \in BlockLengths
    BY DEF RoundsStep, AnyCall, RoundCall, LedgerCall, GroupingCall, RoundsIdle, open_round,
           continue_round, BlockStarts, charge_reward_account, set_sequencer_commission,
           set_blocks_per_round, enable_marking_offline, notify_inactive_sequencer,
           award_points_to_sequencer
  <2> QED
    BY <2>1, <2>2, RoundsAssumption
<1>2. CASE open_round \/ continue_round
  <2>1. length' = length
    BY <1>2 DEF open_round, continue_round, BlockStarts
  <2>2. \/ UNCHANGED groupingVars
        \/ \E candidates, announced, seed :
              announced \in NextRound /\ trigger_group(candidates, announced, seed)
    BY <1>2, HookTriggers
  <2> QED
    BY <1>1, <2>1, <2>2, TriggerKeeps
<1>3. CASE GroupingCall
  BY <1>3, GroupingNextInv DEF GroupingCall
<1>4. CASE AnyCall /\ ~ GroupingCall
  BY <1>1, <1>4 DEF AnyCall, RoundCall, LedgerCall, RoundsIdle, charge_reward_account,
         set_sequencer_commission, set_blocks_per_round, enable_marking_offline,
         notify_inactive_sequencer, award_points_to_sequencer
<1> QED
  BY <1>2, <1>3, <1>4 DEF RoundsStep

\* Between two blocks no group waits for a free application. At genesis there is
\* neither.
ServedInv == phase = "head" => WaitingGroups = {} \/ FreeApps = {}

\* Every step of the chain keeps the pairing at the end of a block.
LEMMA ServedStepInv ==
  ASSUME TypeOK, StorageInv, ServedInv, [ChainNext]_chainVars
  PROVE  StorageInv' /\ ServedInv'
<1>1. StorageInv'
  <2>1. RoundsStep /\ (ContainerCall \/ on_finalize \/ UNCHANGED containerVars)
    BY StepsOfChain
  <2>2. RoundsInv'
    BY <2>1, RoundsStepInv DEF StorageInv
  <2>3. GroupingInv' /\ length' \in Nat
    BY <2>1, GroupingStays DEF StorageInv
  <2>4. AppsInv'
    BY <2>1, AppsStepInv DEF StorageInv, GroupingInv
  <2> QED
    BY <2>2, <2>3, <2>4 DEF StorageInv
<1>2. ServedInv'
  <2>1. CASE phase' = "calls"
    BY <2>1 DEF ServedInv
  <2>2. CASE FinalizeBlock
    <3>1. on_finalize /\ UNCHANGED groupMembers
      BY <2>2 DEF FinalizeBlock, allVars, groupingVars
    <3> QED
      BY <3>1, FinalizeServes DEF ServedInv, StorageInv, GroupingInv
  <2>3. CASE UNCHANGED chainVars
    BY <2>3 DEF chainVars, allVars, groupingVars, containerVars, ServedInv, WaitingGroups,
                FreeApps, all_group_ids
  <2> QED
    BY <2>1, <2>2, <2>3 DEF ChainNext, InitializeBlock, Dispatch
<1> QED
  BY <1>1, <1>2

\* At genesis there are no groups, so none waits.
LEMMA ServedInitInv == ChainInit => StorageInv /\ ServedInv
<1> SUFFICES ASSUME ChainInit PROVE StorageInv /\ ServedInv
  OBVIOUS
<1>1. PartsInv
  BY PartsInitInv
<1>2. all_group_ids = {}
  BY DEF ChainInit, RoundsInit, GroupingInit, all_group_ids
<1> QED
  BY <1>1, <1>2 DEF PartsInv, GroupsInv, StorageInv, ServedInv, WaitingGroups

\* Whatever is grouped, regrouped and registered in a block, and in whatever order:
\* after it no group waits for an application while one is free.
THEOREM NobodyWaits == ChainSpec => []NoGroupWaits
<1>1. ServedInv => NoGroupWaits
  BY DEF ServedInv, NoGroupWaits, AtHead
<1>2. ChainSpec => []TypeOK
  BY ChainRunsTheLedger, TypeCorrect, PTL
<1>3. ChainSpec => []ServedInv
  BY <1>2, ServedInitInv, ServedStepInv, PTL DEF ChainSpec
<1> QED
  BY <1>1, <1>3, PTL

----------------------------------------------------------------------------
(* Told before told to run.                                                *)

\* x, but for the URL, is what account a is told to load.
StillLoads(a, x) == \E y \in shuld_load(a) : [y EXCEPT !.url = x.url] = x

\* While groups and the applications they have stay and a URL stays set, everyone is
\* told to load the same.
LEMMA LoadStays ==
  ASSUME AppsInv, GroupingTypeOK, UNCHANGED groupMembers,
         \A g \in DOMAIN groupApp :
            groupApp[g] # 0 => /\ groupApp'[g] = groupApp[g]
                               /\ appInfoMap'[groupApp[g]] = appInfoMap[groupApp[g]],
         defaultUrl # {} => defaultUrl' # {},
         NEW a, NEW x, StillLoads(a, x)
  PROVE  StillLoads(a, x)'
<1>1. PICK y \in shuld_load(a) : [y EXCEPT !.url = x.url] = x
  BY DEF StillLoads
<1>2. PICK g \in account_in_group(a), url \in defaultUrl :
         /\ groupApp[g] # 0
         /\ y = [app_id |-> groupApp[g], group |-> g, info |-> appInfoMap[groupApp[g]], url |-> url]
  BY <1>1 DEF shuld_load
<1>3. account_in_group(a)' = account_in_group(a)
  BY DEF account_in_group, GroupsOf, all_group_ids, Members
<1>4. g \in DOMAIN groupApp
  <2>1. g \in all_group_ids
    BY <1>2 DEF account_in_group, GroupsOf
  <2>2. Len(groupMembers) \in 0 .. MaxGroupNumber /\ DOMAIN groupApp = 0 .. MaxGroupNumber - 1
    BY DEF GroupingTypeOK, AppsInv, ContainerTypeOK
  <2> QED
    BY <2>1, <2>2, GroupingAssumption DEF all_group_ids
<1>5. PICK new \in defaultUrl' : TRUE
  BY <1>2
<1> DEFINE z == [app_id |-> groupApp[g], group |-> g, info |-> appInfoMap[groupApp[g]], url |-> new]
<1>6. z \in shuld_load(a)'
  <2>1. groupApp'[g] = groupApp[g] /\ appInfoMap'[groupApp'[g]] = appInfoMap[groupApp[g]]
    BY <1>2, <1>4
  <2>2. z = [app_id |-> groupApp'[g], group |-> g, info |-> appInfoMap'[groupApp'[g]], url |-> new]
    BY <2>1
  <2>3. g \in {h \in account_in_group(a)' : groupApp'[h] # 0}
    BY <1>2, <1>3, <2>1
  <2> HIDE DEF z
  <2> QED
    BY <1>5, <2>2, <2>3 DEF shuld_load
<1>7. [z EXCEPT !.url = x.url] = [y EXCEPT !.url = x.url]
  BY <1>2
<1> QED
  BY <1>1, <1>6, <1>7 DEF StillLoads

\* From the opening of the announced round on, everyone is told to load what they were
\* told at the head before.
ToldInv ==
    lengthKept /\ nextRound.starting_block = block /\ block > 0 =>
        \A a \in Accounts : \A x \in told[a] : StillLoads(a, x)

\* The block that opens an announced round leaves groups and applications alone.
LEMMA OpeningLeavesGroups ==
  ASSUME GenesisBlocksPerRound >= 2, TypeOK, PartsInv, TimingInv, lengthKept',
         [ChainNext]_chainVars, open_round \/ continue_round,
         nextRound'.starting_block = block'
  PROVE  UNCHANGED groupMembers
<1> DEFINE stp == SnapshotTimePoint
<1>1. /\ round \in Nat /\ block \in Nat /\ first \in Nat /\ first <= block
      /\ length \in Nat \ {0} /\ length' = length /\ block' = block + 1
      /\ nextRound.starting_block \in Nat /\ nextRound.round_index \in Nat
      /\ \/ /\ open_round /\ round' = round + 1 /\ first' = block'
            /\ (block + 1) - first >= length
         \/ /\ continue_round /\ round' = round /\ first' = first
            /\ (block + 1) - first < length
      /\ nextRound' # nextRound => nextRound'.starting_block = first' + length
  BY HookClock
<1>2. stp \in Nat /\ stp > 0
  BY TimePoint
<1>3. nextRound' = nextRound
  <2>1. block' < first' + length
    BY <1>1
  <2>2. block' # first' + length
    BY <1>1, <2>1
  <2> QED
    BY <1>1, <2>2
<1>4. OnTime /\ AnnouncedInv
  BY <1>3, StepsOfChain DEF TimingInv
<1>5. nextRound.round_index = round + 1 /\ nextRound.starting_block = first + length
  BY <1>1, <1>3, <1>4 DEF OnTime, AnnouncedInv
<1>6. first' = block'
  BY <1>1, <1>3, <1>5
<1>7. ~ should_snapshot(block', first')
  <2> HIDE DEF stp
  <2>1. block' - first' # stp
    BY <1>1, <1>2, <1>6
  <2> QED
    BY <2>1 DEF should_snapshot, stp
<1>8. UNCHANGED groupingVars
  BY <1>7, HookStaked DEF PartsInv, RoundsInv, PointsOK
<1> QED
  BY <1>8 DEF groupingVars

\* A step of the chain keeps what the nodes were told at the head before.
LEMMA ToldStepInv ==
  ASSUME OnlyTheHookGroups, GenesisBlocksPerRound >= 2, TypeOK, PartsInv, TimingInv, ToldInv,
         [ChainNext]_chainVars
  PROVE  ToldInv'
<1> SUFFICES ASSUME lengthKept', nextRound'.starting_block = block', block' > 0,
                    NEW a \in Accounts, NEW x \in told'[a]
             PROVE  StillLoads(a, x)'
  BY DEF ToldInv
<1>1. AppsInv /\ GroupingTypeOK
  BY DEF PartsInv, GroupsInv, GroupingInv
<1>2. CASE (open_round \/ continue_round) /\ UNCHANGED containerVars
           /\ told' = [b \in Accounts |-> shuld_load(b)]
  <2>1. UNCHANGED groupMembers
    BY <1>2, OpeningLeavesGroups
  <2>2. x \in shuld_load(a)
    BY <1>2
  <2>3. StillLoads(a, x)
    <3>1. PICK g, url : x = [app_id |-> groupApp[g], group |-> g,
                             info |-> appInfoMap[groupApp[g]], url |-> url]
      BY <2>2 DEF shuld_load
    <3>2. [x EXCEPT !.url = x.url] = x
      BY <3>1
    <3> QED
      BY <2>2, <3>2 DEF StillLoads
  <2> QED
    BY <1>1, <1>2, <2>1, <2>3, LoadStays DEF containerVars
<1>3. CASE AnyCall /\ UNCHANGED told
  <2>1. UNCHANGED <<block, groupMembers, nextRound>>
    BY <1>3, CallsKeepRound, CallsKeepGroups DEF PartsInv
  <2>2. StillLoads(a, x)
    <3>1. lengthKept
      BY <2>1, StepsOfChain
    <3> QED
      BY <1>3, <2>1, <3>1 DEF ToldInv
  <2>3. CASE UNCHANGED containerVars
    BY <1>1, <2>1, <2>2, <2>3, LoadStays DEF containerVars
  <2>4. ASSUME NEW info \in AppInfos, register_app(info)
        PROVE  StillLoads(a, x)'
    <3>1. UNCHANGED <<groupApp, defaultUrl>> /\ appInfoMap' = Append(appInfoMap, info)
      BY <2>4 DEF register_app
    <3>2. \A i \in DOMAIN appInfoMap : appInfoMap'[i] = appInfoMap[i]
      BY <1>1, <3>1 DEF AppsInv, ContainerTypeOK
    <3>3. \A g \in DOMAIN groupApp : groupApp[g] # 0 => groupApp[g] \in DOMAIN appInfoMap
      BY <1>1 DEF AppsInv, ContainerTypeOK
    <3> QED
      BY <1>1, <2>1, <2>2, <3>1, <3>2, <3>3, LoadStays
  <2>5. ASSUME NEW url \in Urls, set_default_url(url)
        PROVE  StillLoads(a, x)'
    BY <1>1, <2>1, <2>2, <2>5, LoadStays DEF set_default_url
  <2>6. CASE on_finalize
    <3>1. \A g \in DOMAIN groupApp : groupApp[g] # 0 => groupApp'[g] = groupApp[g]
      BY <1>1, <2>6, FinalizeGives
    <3>2. UNCHANGED <<appInfoMap, defaultUrl>>
      BY <2>6 DEF on_finalize
    <3> QED
      BY <1>1, <2>1, <2>2, <3>1, <3>2, LoadStays
  <2>7. ContainerCall \/ on_finalize \/ UNCHANGED containerVars
    BY StepsOfChain
  <2> QED
    BY <2>3, <2>4, <2>5, <2>6, <2>7 DEF ContainerCall
<1> QED
  BY <1>2, <1>3, StepsOfChain

\* Nothing is told, and no block announced, at genesis.
LEMMA ToldInitInv == ChainInit => ToldInv
  BY DEF ChainInit, RoundsInit, ToldInv

\* Whatever is registered and grouped in between, and however the groups are dealt: a
\* node that is told to run runs what it was told to load at the head before.
THEOREM ToldBefore ==
  ASSUME OnlyTheHookGroups, GenesisBlocksPerRound >= 2
  PROVE  ChainSpec => []ToldBeforeRun
<1>1. TypeOK /\ PartsInv /\ TimingInv /\ ToldInv /\ [ChainNext]_chainVars => ToldInv'
  BY ToldStepInv
<1>2. ToldInv => ToldBeforeRun
  BY DEF ToldInv, ToldBeforeRun, AtHead, should_run, StillLoads
<1> QED
  BY <1>1, <1>2, ToldInitInv, TimingInvariance, PTL DEF ChainSpec
=============================================================================
