----------------------------- MODULE Parachain -----------------------------
(***************************************************************************)
(* The parachain's runtime: the hooks and calls of staking, grouping and   *)
(* container pallets in the order a block executes them, and the runtime   *)
(* API through which the nodes follow it (runtime/src/lib.rs).             *)
(*                                                                         *)
(* A block is the staking hook, calls, and the container pallet's hook;    *)
(* then it is a head, and the nodes ask the runtime API in its state.      *)
(***************************************************************************)
EXTENDS StakingRounds, ContainerPallet

VARIABLES
    phase,       \* "calls" inside a block, "head" after it
    told,        \* history: what each account was told to load at the head before
    lengthKept   \* history: the length of rounds did not change since the announcement

chainVars == <<allVars, containerVars, phase, told, lengthKept>>

ChainInit ==
    /\ RoundsInit
    /\ ContainerInit
    /\ phase = "head"
    /\ told = [a \in Accounts |-> {}]
    /\ lengthKept = TRUE

----------------------------------------------------------------------------
(* The runtime API, besides shuld_load.                                    *)

\* Mutant: true from the announcement on.
should_run_soon == nextRound.starting_block >= block

\* Mutant: true in the block before the round.
should_run_early == nextRound.starting_block = block + 1

should_run == nextRound.starting_block = block

----------------------------------------------------------------------------
(* The steps of a block.                                                   *)

RememberLength ==
    lengthKept' = (nextRound' # nextRound \/ (lengthKept /\ length' = length))

\* Executive::initialize_block
InitializeBlock ==
    /\ phase = "head" /\ phase' = "calls"
    /\ open_round \/ continue_round
    /\ told' = [a \in Accounts |-> shuld_load(a)]
    /\ RememberLength
    /\ UNCHANGED containerVars

ContainerCall ==
    /\ calls < MaxCalls
    /\ calls' = calls + 1
    /\ \/ \E info \in AppInfos : register_app(info)
       \/ \E url \in Urls : set_default_url(url)
    /\ UNCHANGED <<vars, groupingVars, block, first, length, selected, atStake, points, awarded,
                   delayedPayouts, commission, markingOffline, rewardPot,
                   everAtStake, earned, paidOut, unpaid, undivided>>

\* A dispatchable call
Dispatch ==
    /\ phase = "calls"
    /\ (Call /\ UNCHANGED containerVars) \/ ContainerCall
    /\ RememberLength
    /\ UNCHANGED <<phase, told>>

\* Executive::finalize_block
FinalizeBlock ==
    /\ phase = "calls" /\ phase' = "head"
    /\ on_finalize
    /\ UNCHANGED <<allVars, told, lengthKept>>

ChainNext == InitializeBlock \/ Dispatch \/ FinalizeBlock

ChainSpec == ChainInit /\ [][ChainNext]_chainVars

----------------------------------------------------------------------------
(* What makes the runtime correct for the nodes.                           *)

AtHead == phase = "head" /\ block > 0

\* The nodes are told to run at the first block of the round that was announced
\* and at no other, although its first block was computed when its snapshot was
\* taken, unless the length of a round was changed since.
RunOpensRound ==
    AtHead /\ lengthKept =>
        (should_run <=> block = first /\ nextRound.round_index = round)

\* When a round is opened with a signal to run, everyone in a group has a stake in
\* that round and is selected for it, and every group has a processor: what failed
\* in the snapshot, the shuffle or the assignment left no half-made groups behind.
\* A signal that a changed length brought to the wrong round has old groups.
RunnersAreStaked ==
    AtHead /\ should_run /\ block = first /\ lengthKept =>
        /\ \A g \in all_group_ids : Members(g) \subseteq selected \cap Staked(atStake, round)
        /\ all_group_ids = UNION {processorInfo[i].groups : i \in 1 .. ProcessorCount}

\* At a head no group waits for an application while one is free.
NoGroupWaits == AtHead => WaitingGroups = {} \/ FreeApps = {}

\* A node that is told to run has what it is going to run: the application it was
\* told to load at the head before, it is told to load still, for the same group.
\* Only an application or a URL that is new in this very block comes too late.
ToldBeforeRun ==
    AtHead /\ should_run /\ lengthKept =>
        \A a \in Accounts : \A x \in told[a] :
            \E y \in shuld_load(a) : [y EXCEPT !.url = x.url] = x
=============================================================================
