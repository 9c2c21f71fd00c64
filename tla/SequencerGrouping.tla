------------------------- MODULE SequencerGrouping -------------------------
(***************************************************************************)
(* Pallet sequencer-grouping: the selected sequencers are shuffled and     *)
(* split into groups, and the groups are dealt out to the processors.      *)
(* (pallets/sequencer-grouping/src/lib.rs)                                 *)
(*                                                                         *)
(* trigger_group is called by the staking hook and by a root extrinsic;    *)
(* both ignore its result, so what it wrote before an error stays.         *)
(* Group ids count from 0, sequences from 1.                               *)
(***************************************************************************)
EXTENDS Naturals, Sequences, FiniteSets

CONSTANTS
    MaxGroupSize, MaxGroupNumber,   \* bounds of set_group_metric
    MaxRunningAPP,                  \* capacity of ProcessorInfo and of each entry's groups
    GenesisMetric,                  \* the group metric of the genesis configuration
    Metrics,                        \* metrics root may set
    Seeds,                          \* first bytes of the parent hash
    Processors, Addresses,          \* who may register as a processor, and where
    CandidateLists,                 \* lists root may pass to benchmark_trigger_group
    Announcements                   \* next rounds root may pass to it

Metric == [size : Nat, number : Nat]
NextRound == [starting_block : Nat, round_index : Nat]

ASSUME GroupingAssumption ==
    /\ MaxGroupSize \in Nat /\ MaxGroupNumber \in Nat
    /\ MaxRunningAPP \in Nat \ {0}
    /\ GenesisMetric \in Metric
    /\ GenesisMetric.size <= MaxGroupSize /\ GenesisMetric.number <= MaxGroupNumber
    /\ Metrics \subseteq Metric
    /\ Seeds \subseteq 0 .. 255
    /\ Announcements \subseteq NextRound

VARIABLES
    groupMembers,    \* GroupMembers: a sequence of groups
    nextRound,       \* NextRoundStorage
    metric,          \* GroupSize and GroupNumber
    processorInfo    \* ProcessorInfo: processors in the order they registered

groupingVars == <<groupMembers, nextRound, metric, processorInfo>>

GroupingInit ==
    /\ groupMembers = <<>>
    /\ nextRound = [starting_block |-> 0, round_index |-> 0]
    /\ metric = GenesisMetric
    /\ processorInfo = <<>>

----------------------------------------------------------------------------
(* Forming groups.                                                         *)

total_selected == metric.size * metric.number

\* Mutant: a swap that writes only one of the two places.
overwrite(s, i, j) == [s EXCEPT ![i] = s[j]]

swap(s, i, j) == [s EXCEPT ![i] = s[j], ![j] = s[i]]

\* Place i, from the last one down to the second, is swapped with place seed % i;
\* k counts the swaps done.
shuffle_accounts(accounts, seed) ==
    LET n == Len(accounts)
        swapped[k \in 0 .. n] ==
            IF k = 0 THEN accounts
            ELSE swap(swapped[k - 1], n - k + 1, (seed % (n - k + 1)) + 1)
    IN  IF n = 0 THEN accounts ELSE swapped[n - 1]

\* The groups, each popped off the end of the shuffled list.
split(accounts) ==
    [g \in 1 .. metric.number |->
        [m \in 1 .. metric.size |-> accounts[Len(accounts) - (g - 1) * metric.size - (m - 1)]]]

----------------------------------------------------------------------------
(* Dealing the groups out: group g goes to processor g modulo their number. *)

ProcessorCount == Len(processorInfo)

\* Mutant: the range of group ids stops one short.
group_ids_but_last(i) == {g \in 0 .. metric.number - 2 : g % ProcessorCount = i - 1}

\* Mutant: a processor also gets the groups of those before it.
group_ids_up_to(i) == {g \in 0 .. metric.number - 1 : g % ProcessorCount <= i - 1}

\* The groups of the i-th processor.
group_ids_of(i) == {g \in 0 .. metric.number - 1 : g % ProcessorCount = i - 1}

\* No error is returned. For no groups at all, group_number - 1 wraps around and
\* the first processor runs out of room.
can_assign_processors ==
    /\ ProcessorCount > 0 /\ metric.number > 0
    /\ \A i \in 1 .. ProcessorCount : Cardinality(group_ids_of(i)) <= MaxRunningAPP

assign_processors_to_groups ==
    processorInfo' = [i \in 1 .. ProcessorCount |->
                         [processorInfo[i] EXCEPT !.groups = group_ids_of(i)]]

trigger_group(candidates, announced, seed) ==
    \/ /\ Len(candidates) < total_selected          \* CandidatesNotEnough
       /\ UNCHANGED groupingVars
    \/ /\ Len(candidates) >= total_selected
       /\ groupMembers' = split(shuffle_accounts(candidates, seed))
       /\ IF can_assign_processors
          THEN assign_processors_to_groups /\ nextRound' = announced
          ELSE UNCHANGED <<processorInfo, nextRound>>
       /\ UNCHANGED metric

----------------------------------------------------------------------------
(* Extrinsics.                                                             *)

set_group_metric(new) ==
    /\ new.size <= MaxGroupSize /\ new.number <= MaxGroupNumber
    /\ metric' = new
    /\ UNCHANGED <<groupMembers, nextRound, processorInfo>>

benchmark_trigger_group(candidates, announced) ==
    \E seed \in Seeds : trigger_group(candidates, announced, seed)

\* A known processor only changes its address and keeps its groups.
register_processor(who, address) ==
    LET known == {i \in 1 .. ProcessorCount : processorInfo[i].account = who}
    IN  /\ IF known # {}
           THEN processorInfo' = [i \in 1 .. ProcessorCount |->
                    IF i \in known THEN [processorInfo[i] EXCEPT !.address = address]
                                   ELSE processorInfo[i]]
           ELSE /\ ProcessorCount < MaxRunningAPP   \* TooManyProcessors
                /\ processorInfo' = Append(processorInfo,
                       [account |-> who, address |-> address, groups |-> {}])
        /\ UNCHANGED <<groupMembers, nextRound, metric>>

GroupingNext ==
    \/ \E new \in Metrics : set_group_metric(new)
    \/ \E candidates \in CandidateLists, announced \in Announcements :
          benchmark_trigger_group(candidates, announced)
    \/ \E who \in Processors, address \in Addresses : register_processor(who, address)

----------------------------------------------------------------------------
(* Queries of the other pallets and of the node.                           *)

all_group_ids == 0 .. Len(groupMembers) - 1

Members(g) == {groupMembers[g + 1][m] : m \in DOMAIN groupMembers[g + 1]}

GroupsOf(account) == {g \in all_group_ids : account \in Members(g)}

\* The first group that contains the account, none for AccountNotInGroup.
account_in_group(account) == {g \in GroupsOf(account) : \A h \in GroupsOf(account) : g <= h}

----------------------------------------------------------------------------
(* What makes the grouping correct.                                        *)

\* No sequencer is in two groups or twice in one: account_in_group, which
\* answers with the first group it finds, has only one answer to give.
GroupsDisjoint ==
    \A g, h \in all_group_ids :
        \A i \in DOMAIN groupMembers[g + 1], j \in DOMAIN groupMembers[h + 1] :
            groupMembers[g + 1][i] = groupMembers[h + 1][j] => g = h /\ i = j

\* A group has at most one processor, whatever failed since it was assigned, and
\* no processor serves more than MaxRunningAPP groups.
OneProcessorPerGroup ==
    /\ \A i, j \in 1 .. ProcessorCount :
          i # j => /\ processorInfo[i].account # processorInfo[j].account
                   /\ processorInfo[i].groups \cap processorInfo[j].groups = {}
    /\ \A i \in 1 .. ProcessorCount : Cardinality(processorInfo[i].groups) <= MaxRunningAPP

\* A next round is announced only with a complete assignment: every group of it
\* has a processor, and no processor serves a group that does not exist.
AnnouncedGroupsServed ==
    [][nextRound' # nextRound =>
          UNION {processorInfo'[i].groups : i \in DOMAIN processorInfo'} = all_group_ids']_groupingVars
=============================================================================
