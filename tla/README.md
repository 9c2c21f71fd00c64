# A TLA+ model of Popsicle

Popsicle is a Substrate parachain that rents out sequencers. Accounts stake (an asset
standing for BTC) on sequencer candidates, every round the best staked candidates are
selected and shuffled into groups, every group is given an application, and the nodes of
its sequencers download and run that application. This directory models the three
pallets, their composition into blocks, and the node task that follows them, model-checks
them with TLC on small instances, and proves with TLAPS, for all sizes, most of what the
instances check: the invariants and the action properties of the ledger, and the central
invariants of the grouping, the containers, the rounds, the chain, the node's task and its
download.

Paths in this document are relative to the repository.

## 1. The system

### Components

| component | source | state | operations | hard because |
|---|---|---|---|---|
| delegation book of a candidate | `pallets/sequencer-staking/src/types.rs` | top and bottom `Delegations` and the `CandidateMetadata` that caches their limits | add, remove, kick, promote, demote, increase, decrease | every lookup is decided by cached amounts; long sequences of moves between two bounded sorted lists |
| staking ledger | `pallets/sequencer-staking/src/{lib,types,delegation_requests}.rs` | candidates, delegators, scheduled requests, `CandidatePool`, `Total`, locks, BTC balances | 16 extrinsics of candidates and delegators, root's `force_join_candidates` | one delegation is recorded in four places; a call of one account changes another's records; requests are executed rounds after they were made |
| bounded ordered set | `pallets/sequencer-staking/src/set.rs` | a sorted vector | insert, try_insert, remove, contains, from | used as a map by owner; one entry out of order and the binary search goes wrong |
| rounds, snapshots, rewards | `pallets/sequencer-staking/src/lib.rs` (hooks, payouts, snapshot, root calls) | `Round`, `AtStake`, `Points`, `AwardedPts`, `DelayedPayouts`, `SelectedCandidates`, commission, reward pot | `on_initialize`, payouts, snapshot, root calls, `notify_inactive_sequencer`, awards | work spread over the blocks of several rounds, with parameters that root changes meanwhile; a hook that is not rolled back |
| sequencer grouping | `pallets/sequencer-grouping/src/lib.rs` | groups, next round, metric, processors | `trigger_group`, `set_group_metric`, `benchmark_trigger_group`, `register_processor`, queries | fails half-way inside a hook; index arithmetic |
| container pallet | `pallets/container/src/lib.rs` | registered applications, in-use flags, application of each group, URL | `register_app`, `set_default_url`, `on_finalize`, `shuld_load` | three maps written by different calls must stay one matching |
| container runtime API | `primitives/container`, `runtime/src/lib.rs` | none | `shuld_load`, `should_run` | |
| container task of the node | `node/src/container_task.rs` | `RunningApp` behind a lock, two instances, docker containers | head loop, download task, run task | three kinds of concurrent tasks, failures in each, processes that must not escape, a memory that a restart loses |
| download of an application | `node/src/container_task.rs` | the file on the disk, docker's images | ranged download, hash, permissions, image pull | a server that answers anything, connections that break, crashes that leave partial files |
| runtime wiring | `runtime/src/lib.rs` | configuration | composes the pallets | the constants contradict each other in places |
| XCM configuration, weights and benchmarks, node service and command line | `runtime/src/xcm_config.rs`, `*/weights.rs`, `*/benchmarking.rs`, `node/src/{service,command,cli,rpc,chain_spec}.rs` | | | not modelled (section 8) |

### How they interact

* The outer pallets call the staking pallet through extrinsics (transactional: an error
  rolls the call back) and through hooks (not transactional).
* `on_initialize` of sequencer-staking asks the grouping pallet for the number of
  sequencers to select (`total_selected`) and, in the block of the snapshot, calls
  `trigger_group` and ignores its result. `notify_inactive_sequencer` calls
  `OnInactiveSequencer`, which the runtime wires back to `go_offline`.
* `on_finalize` of the container pallet reads the groups (`all_group_ids`), and the
  runtime API combines `account_in_group` with the allocation.
* The node asks the runtime API at each head and reacts by spawning tasks that share a
  locked record with the loop.

### What makes each component correct

* Book: the two lists hold the largest delegations in order; the cached metadata are
  those of the lists, or a lookup goes to the wrong list.
* Ledger: the delegator's and the candidate's record of a delegation agree; requests fit
  what they are about when they fall due and can then be executed; BTC is conserved per
  account and the pallet can always pay back; the pool is never stale; roles are
  exclusive; stake falls only for one of three reasons.
* Rounds: the selected have snapshots; snapshots add up; rewards are paid in time, once,
  not above the round's reward and not below it; who earned points is not reported
  inactive.
* Grouping: nobody is in two groups; each group has one processor, and an announced
  round is completely served.
* Containers: groups and applications stay matched one to one and a waiting group gets a
  free application.
* Runtime: what the nodes are told at a head opens the round that was announced, for
  groups of staked sequencers, with an application they were told of before.
* Ordered sets: every change of the ledger is what the methods of `set.rs` do to the
  sorted vectors.
* Node: one download at a time, the arguments of an application are its own, at most one
  instance runs, no process is out of reach, the assigned application eventually runs.
* Download: an application is started from a file with the registered hash only, such a
  file is never lost again, and every leftover of a crash is recovered from.

The concrete dangers, each at its line of the source and with the property that would
catch it, are listed under `hazards` in `PROJECT.json`.

## 2. The modules

```
CandidateBook                 operators: one candidate's book
  ^ SequencerStaking          the ledger: variables, one action per extrinsic
OrderedSet                    operators: sorted vectors
SequencerGrouping             groups and processors
  ^ ContainerPallet           + applications
StakingSets                   SequencerStaking + OrderedSet: the ledger's sets as vectors
StakingRounds                 SequencerStaking + SequencerGrouping: the block hook, rewards, snapshots
Parachain                     StakingRounds + ContainerPallet: blocks, heads, the runtime API
ContainerTask                 the node's task; the chain is a nondeterministic answer
SdkDownload                   one download of that task, step by step
  implements VerifiedDownload     what ContainerTask takes a download to be
MC*.tla, *.cfg                instances for TLC

FiniteInduction               lemmas: induction without an induction rule, ranks, sums
CandidateBookProofs           lemmas about CandidateBook
  ^ SequencerStakingProofs    theorems of the ledger: types, pool, roles, records, sums, vectors, steps
    ^ StakingRoundsProofs     theorems of the rounds: snapshots, payouts, the ledger below
ContainerPalletProofs         theorems of grouping and containers
  ^ ParachainProofs           theorems of the chain (with StakingRoundsProofs)
ContainerTaskProofs           theorems of the node's task
SdkDownloadProofs             theorems of a download, with its refinement
```

### `CandidateBook`

Pure operators on one record: self bond, number of delegations, `total_counted`, the top
and bottom lists and the cached amounts and capacities. Each method of `CandidateMetadata`
and `Delegations` is an operator that returns the book after it; a `can_...` operator
states the errors the method may return. The order inside a list is the code's: insertion
puts a delegation behind equal ones (`insert_sorted_greatest_to_least`), except a pushed
last entry. `reset_top_data`, `reset_bottom_data` are part of every change, as in the code.
Where a lookup is decided by cached metadata the model decides by the same cached
metadata, including the retry in the other list when `lowest_top` equals
`highest_bottom`. Subtractions that saturate in Rust saturate here.

### `SequencerStaking`

State: `round`; `candidateInfo` (status, exit round, self-bond request), `book`, `pool`,
`delegatorState`, `requests`, `total`, `locks`, and the BTC as `wallet` and `palletBtc`.
One action per extrinsic, named as in the source; its guard conjoins the errors, its
primed variables are all storage writes of the call, including those of the methods it
calls. Three splits: `delegate` and `delegate_kicking` (with and without a kicked account),
`execute_revoke` and `execute_decrease` (one extrinsic, two kinds of request), and
`new_round` for the passing of time, the only step not by an account. An amount of zero
stands for "no delegation".

Simplifications, all without influence on the properties: weight hints are dropped;
`hotfix_remove_delegation_requests_exited_candidates` only removes empty entries, and
`set_candidate_bond_to_zero` is called by nothing; the minimum balance of an asset account
is 1, so that every positive balance may be emptied only by a transfer the code permits.
(`node/src/chain_spec.rs` sets that minimum to 100 000 000 000, far above `MinDelegation`,
so on the shipped chain a delegation smaller than it could not be paid to an empty account.
That case is outside the model.) `GenesisCandidates` are candidates without a bond, as the
genesis build makes them.

### `OrderedSet`, `StakingSets`

`OrderedSet` has the methods of `set.rs` on vectors of `Bond`s, which compare by owner
alone; `Hits` and `Slot` are the two outcomes of the library's binary search. `VectorOf`
is the sorted vector of a set of bonds, and `from`, which sorts and drops duplicates, is given
the places of a vector whose bonds it collects. The ledger
keeps the sets as what they stand for (a set of entries, a function from candidates to
amounts). `StakingSets` reads them as vectors again and states, for each change of the
ledger, which sequence of set methods the code performs (`Inserted`, `Removed`, `Updated`;
`Created`, `Added`, `Dropped`, `Changed`). `SetsAssumption` says that `AccountOrder` orders
the accounts and nobody else.

### `SequencerGrouping`, `ContainerPallet`

The grouping keeps its four storage items; groups are sequences of sequences because
`all_group_ids` and `account_in_group` go by position. `trigger_group` is one action whose
three outcomes are those of the code: not enough candidates (nothing changes), groups
replaced but processors missing (groups change, assignment and announcement do not: the
hook is not rolled back), success. The shuffle is the code's loop of swaps, driven by one
of a few seeds for the parent hash.

`ContainerPallet` extends it with registration and the allocation at the end of a block,
which pairs the i-th waiting group with the i-th free application. `shuld_load` returns a
set with the answer or the empty set.

### `StakingRounds`

Extends ledger and grouping. A block is `open_round` or `continue_round` (the two
branches of `on_initialize`), followed by any number of `Call`s. Both hooks do everything
the code does in that block: pay one sequencer of the round due, or finish the payouts;
take the snapshot when the time point is reached; have the sequencers grouped; clean up. A
step of the ledger's `new_round` is the part of `open_round` the ledger can see. Where the
code would panic (`expect`) `on_initialize` has no step.

Five history variables remember what the properties talk about after the code has deleted
it: `everAtStake` (who was at stake in a round), `earned` (the points won), `paidOut`,
`unpaid` (what was due and failed because the pot did not cover it) and `undivided` (the
rounds in which a total of 0 divided a reward). A `Perbill` has 10^9 parts; the model has
`Accuracy` parts, with the rounding of the code: `from_rational` down, `of` to the nearest.
As in `sp-arithmetic` 25.0.0 (`Cargo.lock`), `from_rational` is one when the denominator is
not larger than the numerator, also for 0 of 0.

### `Parachain`

Composes `StakingRounds` and `ContainerPallet` as `construct_runtime!` and the executive
do: a block is `InitializeBlock` (the staking hook), any number of `Dispatch`ed calls of the
three pallets, and `FinalizeBlock` (the container pallet's hook). Between blocks the chain
is at a head, and there the properties evaluate the runtime API: `shuld_load` of
`ContainerPallet` and `should_run`, which compares the announced starting block with the
block number. Two history variables: `told`, what `shuld_load` answered at the head before,
and `lengthKept`, whether the length of rounds is still the one the announcement was
computed with. `benchmark_trigger_group`, a root call for benchmarks that announces any
round it is given, is left out here (`ContainerPallet` has it).

### `ContainerTask`

A step is what happens between taking and releasing the lock: one iteration of the loop
over the heads is `new_head` (decide whether to download) and `check_run` (decide whether
to run); a download task goes through `download_ready`, `sync_task`, `download_done`; a run
task is `run_task`. Each may fail (`download_fails`, `download_aborts`,
`sync_task_fails`, `run_task_fails`) at the places where the code returns early or
panics. A group is named by its application, which `GroupKeepsApp` of `ContainerPallet`
justifies. `strays` holds the processes whose handle was dropped.

`restart_node` stops the node at any point and starts it with a fresh `RunningApp`, as
`spawn_container_task` does. Nothing in the code kills the processes when the node stops,
so any of them may live on: they become `orphans`, which nobody can stop. The containers
stay.

### `SdkDownload`, `VerifiedDownload`

`SdkDownload` is one download, from the head that spawns it to its outcome, over and over:
`need_download` by the hash of what is on the disk, HEAD, `File::create`, one request per
range of `PartialRangeIter` (its arithmetic modulo `Word`, for 2^64), the permissions, the
hash; or the image commands of docker. The file is the sequence of its units, so that a
hash matches exactly one content. The environment may answer HEAD with another length, a
range with another status, other content or a part of it, ignore ranges, break any call,
fill the disk, and crash the node between any two steps; the disk survives.

`VerifiedDownload` is what `ContainerTask` takes for granted: a download that is ready has
left a good copy, and a good copy is never lost. `ImplementsVerifiedDownload` is the
refinement (`task` from the program counter, `copy` from the disk and docker).

## 3. The runs

| run | configuration | asks |
|---|---|---|
| `book` | `SequencerStakingBook.cfg` | Is one candidate's book consistent when it overflows? 2 top places, 1 bottom place, 4 delegators, amounts 1 and 2, 2 BTC for the candidate and 3 for each delegator: kicks, promotions, demotions, ties, requests pending across all of them. 78 000 states, with symmetry of the delegators. |
| `cross` | `SequencerStakingCross.cfg` | Two accounts that want to be candidates, three that delegate and one of the two that wants to delegate as well, two rounds: joining, leaving, going offline, coming back, exits; does a kick or an exit at one candidate leave the records at the other alone, and do the sorted vectors follow? 201 000 states. |
| `rounds` | `StakingRounds.cfg` | The composed system over three rounds and the beginning of a fourth, with lengths 3 and 4: the first round is opened by genesis, the second is selected by a snapshot, the third is paid for the first, the fourth shows whether the third was done in time. Is what is paid for a round neither more than its reward nor, where all points were won at stake, less (`PaidWithinReward`, `RewardsPaidInFull`)? 583 000 states. |
| `chain` | `Parachain.cfg` | The three pallets block by block, two candidates, lengths 3 and 6, metrics of one, two and no groups, up to two applications, two URLs: is what the nodes are told right, and is whoever is told to run told what to load one head before (a head, not the time a download takes)? 2 047 000 states. |
| `container` | `ContainerPallet.cfg` | Grouping and allocation with four sequencers, two processors, changing metrics and at most four applications. 38 000 states; liveness under fairness. |
| `task` | `ContainerTask.cfg` | The node with three process applications, up to three regroupings, one restart, two faults in each life, two run tasks waiting per application. 48 000 states; liveness under fairness. There are no docker applications here, so the part of `NothingEscapes` about containers has no case; `docker` has them. |
| `download` | `SdkDownload.cfg` | One file or image, files of 0 to 5 units in ranges of 2, a server with and without ranges, three faults or crashes. 19 000 states; refinement and liveness under fairness. |
| `total`, `self_bond`, `docker`, `offline`, `executable` | the other configurations | One statement of the repository each that the code does not keep (section 5). |

Every property of a passing run is accompanied in `PROJECT.json` by a mutant: a changed
form of a modelled definition (`plain_sub`, `kicked_state_kept`, `clear_prefix`, ...,
kept beside the original in the modules) under which TLC finds the property violated.
So no property holds only for want of a state in which it could fail.

### Bounds, and why they are enough

* `MaxRound`, `MaxBlock`: delays are 1, so a request made in round 1 is due in round 2;
  three rounds are needed for leave, execute, join again, four for payouts that come late.
  `rounds` stops at block 10, hence `CHECK_DEADLOCK FALSE` there; the other runs check
  deadlock.
* Capacities of 1 and 2: with two top places a removal can touch the first, the last and
  the only entry, and with one bottom place a bump always kicks. Four delegators are one
  more than the book can hold.
* Amounts 1 and 2 with bonds that grow and shrink produce all orders and ties that the
  comparisons of the code distinguish.
* `MaxCalls = 4` in `rounds` bounds the calls in a behaviour, since every block multiplies
  them: enough for an award, a change of the length or metric, and two calls to the
  ledger. `MaxPot`, `MaxPoints` bound the pot and the points explored. `Deposits` are
  charges of the pot: 10 at genesis does not pay one reward of 20, 50 does.
* Seeds of the shuffle: as many as a list of four needs to reach each place.
* `MaxRegroups`, `MaxFaults`, `MaxRuns`, `MaxRestarts` in `task`: two regroupings reuse both
  slots, the third comes back to an earlier application; two faults let two of download,
  sync and run fail in one life; one restart puts every state of the first life before a
  second one.
* `chain`: `MaxBlock = 10` is three rounds and the beginning of a fourth at length 3, so two
  announcements are followed to their round; `MaxCalls = 5` registers a processor and an
  application, sets the URL and leaves two calls for the metric, the length or the stakes. It
  stops at its last block, hence `CHECK_DEADLOCK FALSE`. Length 6 is twice length 3: a length
  set and set back can put an announcement at the opening of the wrong round (section 5). Two
  URLs let root change what comes with an application between two heads.
* `download`: lengths below, at and above a multiple of `ChunkSize`, with one, two and three
  ranges, and the empty file; `Word = 16` makes the wrap of `length - 1` happen, `DiskSize`
  is above every file and below what a wrong length can write. Three faults: a wrong
  attempt, a crash in the one that repairs it, and one more.

### Fairness

* `ContainerPallet`: weak fairness of `on_finalize`, which the runtime executes in every
  block.
* `ContainerTask`: weak fairness of the head loop and of every spawned task that can
  proceed (the executor polls them); strong fairness of heads with `should_run` (every
  round has a first block, but between two of them there are heads without) and of
  `download_ready` (a download tried again and again succeeds). `AssignedAppRuns` further
  assumes in its statement what the code cannot do without: the group stays, no step
  fails for good in the node's last life, and a run task has got the lock before the next
  round begins. A fault that ends a task early leaves the status `Downloading`, and the
  code never downloads again before a restart; the property cannot hold without that
  premise. The lives before may have ended in any state.
* `SdkDownload`: weak fairness of the steps of an attempt together (heads keep coming and
  the executor runs the task); nothing about faults, of which there are finitely many.
* The ledger, the rounds and the chain have safety properties only.

## 4. Properties worth reading

* `RecordsAgree`, `RequestsFitBonds`: a delegation is written in the delegator's state, in
  the book, in the pending requests and in `less_total`; every call of any account,
  including the kick that another's call causes, leaves the four consistent.
* `NoRequestStuck`: whatever is due can be executed. It fails as soon as any cached amount
  sends a lookup to the wrong list (its mutant drops the retry on ties).
* `WealthPreserved`, `StakeFallsOnlyByRule`: what a step may never do to an account.
* `TopIsTheLargest`: the stake that counts is that of the largest delegations.
* `ActiveNotNotified`: points are read by one part of the code and deleted by another. It
  holds because the payout deletes points and stake together: whose points are gone is not
  at stake any more. (Its mutant deletes the points only.) The price is `offline` below.
* `SetsFollowVectors`: the ledger's sets are, step by step, what the code's vectors do, with
  room wherever the code expects it.
* `RunOpensRound`, `RunnersAreStaked`, `ToldBeforeRun`: the announcement is computed at the
  snapshot, the groups are made there, perhaps only half, the applications are paired at the
  end of blocks; at the head that opens the round the three agree.
* `ImplementsVerifiedDownload`, `DownloadRecovers`: one says that no leftover is taken for the
  application, the other that no leftover blocks it.
* `RewardsPaidInFull`: points, the commission, the snapshot and the points of each sequencer
  are deleted at four different times, by the payouts of several blocks. If all points of a
  round were won by sequencers at stake, then after its payouts the reward that some
  commission leaves has been paid, or has failed for want of tokens (`unpaid`). Its mutant
  drains the snapshots of the whole round with the first payout.
* `NothingEscapes`, `OneRunInstance`, `ArgsOfOwnApp`: over all orders of the node's tasks.

## 5. Where the code and what is said of it differ

| run | statement | what the code does |
|---|---|---|
| `total` | `Total` is the "Total capital locked by this staking pallet" (`lib.rs:235`) | `decrease_bottom_delegation` (`types.rs:1031`) does not lower the total of the bottom list; when the candidate leaves, more is subtracted from `Total` than was staked, and it ends below the stake of the others. `PalletCoversStakes` (passing) shows that no BTC is missing. |
| `self_bond` | candidates "remain bonded" until the exit is executed (`lib.rs:90`), and the event reports the self bond as unlocked (`lib.rs:1451`) | `execute_leave_candidates_inner` returns the delegations only; the self bond stays with the pallet. |
| `docker` | "stop old instance" (`container_task.rs:425`) | A process started by a RUN while the other slot is a docker container is not stored, so nothing can stop it. |
| `offline` | "If a sequencer doesn't produce any block on this number of rounds, it is notified as inactive" (`lib.rs:86`) | The payouts delete the `AtStake` entries of idle sequencers too, so once a round has been paid nobody can be reported for a window with that round in it. The runtime ships `MaxOfflineRounds = 5` with `RewardPaymentDelay = 2`, against the constraint in the same comment. |
| `executable` | `expect("failed to execute process")` (`container_task.rs:466`) | The permissions are set after the last range is written. After a crash between the two the complete file is not executable, its hash says it need not be downloaded, and every start panics. |

Further observations, made while reading and not the subject of a run:

* `delegation_schedule_bond_decrease` (`delegation_requests.rs:167`) waits for
  `RevokeDelegationDelay`; `DelegationBondLessDelay`, "Number of rounds that delegation less
  requests must wait" (`lib.rs:102`), is read by nothing. Both are 3 in the shipped runtime.
* "The delegation receives no rewards for the rounds while a revoke is pending"
  (`lib.rs:935`) does not hold in two cases. The stakes of a round are written at the snapshot
  of the round before (`lib.rs:637`), so a revoke scheduled after it is pending in the whole
  round, and the round pays the delegation in full. And a sequencer's bond is 0 as it joins:
  if all its top delegations are being revoked at the snapshot, each counts with 0 and the
  total is 0; `from_rational(0, 0)` is one (`lib.rs:1634`), so each revoked delegation, and the
  sequencer (`lib.rs:1616`), is paid the whole amount due. The round then pays more than its
  reward: without leaving such rounds out (`undivided`), `PaidWithinReward` fails in `rounds`.
* The snapshot time point is computed from the genesis length only. After
  `set_blocks_per_round` to a length not above it, rounds have no snapshot and the next
  fallback meets "all selected candidates have snapshots" (`lib.rs:1730`). Possible with the
  constants of the pallet's mock runtime (genesis length 5, minimum 3, time point 3); the
  shipped minimum of 1440 equals the genesis length. Nothing in the pallet enforces it, so
  `SelectedStayStaked` is proved under the hypothesis `SnapshotFits`: every length root may
  set is above the time point. A genesis length of one block, which the pallet accepts
  too, would take the snapshot in the block that opens the round; `RunnersStaked` and
  `ToldBefore` assume at least two.
* What a round pays is the reward less the commission, and a sequencer with delegators gets
  its commission out of that share again: the commission part of the reward
  (`lib.rs:1593`) is paid to nobody, although `types.rs:149` speaks of "The total reward paid
  this round to stakers".
* The announced `starting_block` is computed at the snapshot. If root changes the length of
  the round afterwards, the head with `should_run` is inside the round, or the last round's
  announcement is used, or there is none. Two steps combined are worse: with a length
  shortened so that the announced block is the next snapshot's, a `trigger_group` that fails
  half-way there regroups the sequencers in the very head that tells them to run
  (`ToldBeforeRun` without `lengthKept` fails after six calls). So is a length that is set
  back: announced with length 6, shortened to 3, and the snapshot of the next round's
  grouping failing half-way, the old announcement is the opening block of another round,
  whose groups need not be staked or served (`RunnersAreStaked` without `lengthKept` fails).
  Hence both properties speak of announcements whose length was kept.
* `should_run` compares with `NextRound`'s default until something is announced, so it is
  true at the genesis head, block 0.
* The download: with a server that ignores ranges every range appends the whole file, so
  only files of one range can be verified; an empty file wraps `length - 1` (a panic in builds
  with overflow checks); a wrong length 0 in HEAD appends until the server refuses or the disk
  is full. The node recovers from each at a later head.
* `set_group_metric` does not compare the number of sequencers with the round length, as
  `set_blocks_per_round` does, and neither does genesis; with more sequencers than blocks,
  `RewardsPaidInTime` would fail. The shipped runtime is safe all the same, by numbers in
  three other places: its pool holds 1000 candidates (`runtime/src/lib.rs:500`), root can set
  no round below 1440 blocks (`:530`), and genesis has 1440 (`chain_spec.rs:229`). The
  hypothesis `PayoutsFit` of `RewardsInTime` says as much.
* A product of a `Perbill` is rounded to the nearest integer, so the payouts of a round can
  exceed its reward by a few of the smallest units: half a unit for each product, of which
  a sequencer has one for its share, one for itself and one for each of its delegations.
  `PaidWithinReward` states the bound with that slack; without it, it is false.
* `set_blocks_per_round` is documented to "transition immediately in the next block"
  (`lib.rs:722`); it does only if enough blocks have passed.
* At genesis, sequencer-staking is built before sequencer-grouping, so `total_selected` is
  0 and nobody is selected for the first round. The model starts like that.
* `award_points_to_sequencer` has no caller in the repository; the model lets it be called
  at any time. A dissolved group keeps its application in use for good.

## 6. What is proved

`tlapm` proves the following for all values of the constants that satisfy the assumptions
of the modules (`CapacityAssumption`, `AccountsAssumption`, `StakingAssumption`,
`GenesisAssumption`, `OrderAssumption`, `SetsAssumption`, `GroupingAssumption`,
`RoundsAssumption`, `ContainerAssumption`, `TaskAssumption`, `DownloadAssumption`): any
accounts, candidates, applications, capacities, delays, lengths, amounts, seeds and files,
without the bounds of the runs. Some theorems have a further hypothesis, named in its
column; each is a fact about constants.

| theorem | states | hypothesis |
|---|---|---|
| **`SequencerStakingProofs`** | | |
| `Invariance` | `Spec => []IInv` | |
| `TypeCorrect`, `MetadataCorrect`, `PoolCorrect`, `RolesCorrect` | `TypeOK`, `MetadataMatchesBook`, `PoolMatchesActive`, `RolesExclusive` | |
| `LedgerInvariance` | `Spec => []LedgerInv` | |
| `RecordsCorrect`, `RequestsCorrect` | `RecordsAgree`, `RequestsFitBonds` | |
| `TopCorrect`, `TotalsCorrect`, `PalletCorrect` | `TopIsTheLargest`, `TotalsMatchBook`, `PalletCoversStakes` | |
| `WealthCorrect` | the action property `WealthPreserved` | |
| `StakeFallsCorrect` | the action property `StakeFallsOnlyByRule` | |
| `SetsCorrect` | the action property `SetsFollowVectors` | |
| **`ContainerPalletProofs`** | | |
| `AppsMatch` | `AppsMatchGroups` | |
| `OneProcessor` | `OneProcessorPerGroup` | |
| `GroupsKeepApps` | the action property `GroupKeepsApp` | |
| `AnnouncedServed` | the action property `AnnouncedGroupsServed` | |
| `GroupsAreDisjoint` | `GroupsDisjoint` | `ListsDistinct` |
| `LoadsMatchTheGroups` | `LoadsMatchGroups` | `ListsDistinct` |
| **`StakingRoundsProofs`** | | |
| `ActiveStay` | `ActiveNotNotified` | |
| `SelectedStayStaked` | `SelectedHaveSnapshots` | `SnapshotFits` |
| `SnapshotsAddUp` | `SnapshotTotals` | |
| `RewardsInTime` | `RewardsPaidInTime` | `PayoutsFit` |
| `RewardsStayWithin` | `PaidWithinReward` | |
| **`ParachainProofs`** | | |
| `ChainGroupsDisjoint` | `GroupsDisjoint` of the chain | `OnlyTheHookGroups` |
| `RunAtTheOpening` | `RunOpensRound` | `OnlyTheHookGroups` |
| `RunnersStaked` | `RunnersAreStaked` | `OnlyTheHookGroups`, `GenesisBlocksPerRound >= 2` |
| `NobodyWaits` | `NoGroupWaits` | |
| `ToldBefore` | `ToldBeforeRun` | `OnlyTheHookGroups`, `GenesisBlocksPerRound >= 2` |
| **`ContainerTaskProofs`** | | |
| `DownloadsOnce` | `OneDownload` | |
| `ArgsBelongTogether` | `ArgsOfOwnApp` | |
| `NothingIsLost` | `NothingEscapes` | `DockerApps = {}` |
| `RunsOnce` | `OneRunInstance` | `DockerApps = {}` |
| **`SdkDownloadProofs`** | | |
| `DownloadVerified` | the refinement `ImplementsVerifiedDownload` | |
| `RangesAreTheFile` | `RangesCoverFile` | |

### The hypotheses

* `ListsDistinct`: the lists root passes to `benchmark_trigger_group` have nobody twice; the
  call itself does not look. On the chain this is no assumption: `select_top_candidates`
  lists each candidate once, and `ChainGroupsDisjoint` proves the same of what the hook
  groups.
* `OnlyTheHookGroups` (`CandidateLists = {}`): root does not use `benchmark_trigger_group`,
  which announces any round it is given; it is the staking hook that groups.
  `Parachain.cfg` leaves the call out likewise.
* `SnapshotFits`, `GenesisBlocksPerRound >= 2`: section 5. The shipped runtime keeps both.
* `PayoutsFit`: a round of any length that genesis or root can set has more blocks than any
  metric they can set selects sequencers, or more than the pool has places. The shipped
  runtime keeps it (section 5).
* `DockerApps = {}`: with docker images the two statements are false, which is the run
  `docker`.

### The ledger

    IInv == TypeOK /\ MetadataMatchesBook /\ SelfRequestsFit /\ PoolMatchesActive /\ RolesExclusive

None of its parts is inductive by itself. `TypeOK` promises natural numbers, and whether
`rm_delegation` finds the entry it takes out, and does not take the last one of an empty
list, depends on the cached capacities and amounts, so it needs `MetadataMatchesBook`.
`execute_candidate_bond_less` subtracts a request made rounds before, so it needs
`SelfRequestsFit`. That a kick or a revoke refreshes the right pool entry needs
`PoolMatchesActive` and `RolesExclusive`.

The argument: `CandidateBookProofs` shows for each operator on a book that it takes a good
book (right type, right metadata) to a good book (`AddDelegation`, `RmDelegation`,
`IncreaseDelegation`, `DecreaseDelegation`, resting on lemmas about insertion, removal,
sorting and positions in a sequence). `SequencerStakingProofs` has one lemma per action,
each from the book's lemma and from `BookStep`/`PoolRefresh`, which say what changing one
book, and the pool with it, preserves. `InitIInv` and `NextIInv` combine them.

On top of `IInv`, which says that what is cached is right, comes what is recorded:

    LedgerInv == /\ \A c \in Accounts : BookRecorded(c)
                 /\ \A d \in Accounts : EntryRecorded(d)
                 /\ PalletCoversStakes

`BookRecorded(c)` says that the book of `c` is arranged (`Arranged`: both lists in order,
one bond for each owner, nothing below larger than anything above, the lower list used only
when the upper is full, the upper total exact and the lower at least its sum) and holds
exactly the bonds that the delegators' entries name (`HeldBy`). `EntryRecorded(d)` says that
the totals of an entry are its sums, that it is there as long as it has a delegation, and
that every request fits its delegation. Neither side is inductive alone. The code finds a
bond of a book by comparing the amount in the *entry* with the book's cached limits, so
the lookup goes to the right list only if the entry is right; and what an entry loses is
paid from what the book returns. `Total` follows the book, whose lower total goes stale after
a decrease, hence the inequality in `Arranged`: enough for `PalletCoversStakes`, and the
reason why `Total` alone is wrong (section 5).

The argument has three layers:

* `FiniteInduction` proves what a sum over a finite set is: `SumPicks` (any member may be
  taken out), `SumChanges` (one value changes, the sum by as much), `SumSkips`,
  `SumsOverImages`, `SumsBound` (smaller values, smaller sum), `SumOfPart` (fewer members). `AccountsAssumption`, that there are finitely many account ids, is what
  sums over the accounts need.
* `CandidateBookProofs` says for each operation which bonds the book holds afterwards and
  that it stays arranged (`AddArranged`, `RmArranged`, `ChangeArranged`, from what inserting,
  popping, removing and re-sorting do to a tidy list). The cases are the code's: the lowest of
  the top is pushed down, the highest of the bottom is moved up, equal amounts on both sides
  are searched for in both.
* `SequencerStakingProofs` has one lemma per extrinsic. Each shows `LedgerKept`, the invariant in
  the next state together with both action properties, because the same facts decide all
  three: which bond left the book, whose entry named it, and where its BTC went. `KickedBook`
  and `EntryKicked` are the kick, in which one account's call changes another's entry,
  requests and wallet; the exit of a candidate (`OwnersHold`) pays the set of its owners at
  once, which together is what the two lists amount to.

`SetsCorrect` compares the ledger with the vectors. A set of bonds with one for each owner
has exactly one sorted vector: the i-th bond has i - 1 before it (`ListedRank`), so two such
lists are equal (`ListedOneWay`), and `RankIsOnto` makes one (`VectorLists`). Therefore
whatever a method returns is the vector of the new set as soon as it lists that set in
order: `InsertLists`, `RemoveLists`, `ChangeLists`, `FromLists`. It remains to see that a step
changes one bond of a set only (`StepEditsPool`; `StepOthersStay`, where a kick and an exit
take one delegation out of the entries of others), and that the pool, which the genesis
candidates fit into, never exceeds its capacity (`PoolKeepsFitting`): `update_active` puts
back an entry that it took out.

All this holds of the rounds and of the chain as well. Their steps are composed from the
ledger's actions, so that they run the ledger holds by construction and shows nothing by
itself; the lemmas `RoundsRunTheLedger` and `ChainRunsTheLedger` only carry the invariants
over.

### Grouping and containers

`GroupingInv` types the four storage items and says that processors are in a row and no two
serve a group; `AppsInv` relates `InuseMap`, `GroupAPPMap` and `APPInfoMap`. Both hold
without knowing who is grouped. `DisjointInv` adds that members are spread without
repetition, and follows the list through the code: a swap keeps a list without duplicates
(`SwapKeeps`), hence so does the loop of swaps, and splitting it cannot put one place into
two groups. `LoadsMatch` then reads disjointness and the matching through `shuld_load`.

The prover has no rule of induction. `FiniteInduction` gets round it: a set of natural
numbers that is not everything has a least absentee (`LeastOf`, from the well-foundedness
that the library proves), which gives `NatByInduction` for sets written in the statement,
and from it `Rank`, `RankGrows` and `RankIsOnto`, by which the pairing of the i-th waiting
group with the i-th free application is one-to-one.

### Rounds and chain

`StepsOfRounds` and `StepsOfChain` reduce a step of the composition to what the staking
pallet sees: a hook, a call, or a step of the others. From there every
proof is a case for each; the ledger's invariants are carried over by the lemmas
`RoundsRunTheLedger` and `ChainRunsTheLedger`.

* `RoundsInv` ties the clock, the snapshots kept and the points: points remain exactly
  where the stake of the round remains. That is why who earned a point is either awarded or
  no longer at stake (`ActiveStay`).
* `SelectedInv`: the round is longer than the time point, so its snapshot has been taken
  before the next round is opened, and what a payout deletes is of earlier rounds.
* `StakesOK`: the total of every snapshot kept is the sum of the bond and the delegations it
  lists. When it is taken, the total is what the metadata counts less what is asked back,
  and the delegations are listed without what is asked back: `Arranged` makes the total of
  the top list the sum of its bonds, and `TopBondSplits` divides each bond into the two
  parts, since a request fits its bond (`RequestsFitBonds`). Afterwards snapshots are copied
  or deleted.
* `CountInv`, `PendingInv`, `TimeInv` are the clock of the payouts. No snapshot lists more
  sequencers than the metric selects (`FewAreSelected`: who is selected has fewer than
  `total_selected` entries above it in the pool, each another number) or the pool holds
  (`PoolFits`, from the ledger); payouts wait only for rounds that are over; and while they run, the blocks
  left in the round are more than the sequencers left at stake. Every block but the first
  takes one off both sides, so none is left when the round ends.
* `PaidInv`: what was paid for a round is within the allowances of those whose stake the
  payouts have taken. `Allowance` is a sequencer's part of the reward by its points, with the
  slack of its rounded products; `PaymentBound` shows that one payout stays within it:
  commission and the rest divide the reward (`RewardSplits`), the parts of the delegators
  and of the sequencer divide the share (`PartsBound`, by the snapshot's total), and each
  rounding adds half a unit. Points are earned once and add up (`PointsOf`), so the
  allowances add up to the reward with the slack of all (`AllowancesBound`). `PotBound`
  relates the transfers, each of which may fail for want of tokens, to what is paid. A
  payout with a total of 0 (`Undivided`) is outside `PaymentBound`; it puts its round into
  `undivided`, of which `PaidInv` and the theorem say nothing.
* `PartsInv` collects the invariants of the parts, `TimingInv` says when a round can be
  announced and, while the length is kept, for which block; `RunOpensRound` follows by
  arithmetic of `first`, `length` and `block`.
* `RunnersInv`: the groups are ready (staked, and each with a processor) for the announced
  round until it has begun. The step that matters is a `trigger_group` that fails
  half-way: it changes groups without announcing, and it may not do so between an
  announcement and its round.
* `StorageInv` and `ServedInv`: the pairing at the end of a block leaves no group waiting or
  no application free.
* `ToldInv`: at the head of the announced block every sequencer still loads what it was told
  at the head before, since the block that opens a round leaves groups alone.

### The node

`DownloadsInv`: at most one download, for the application the record names, and as long as
there is one the status is `Downloading`. `ProcessesInv`: with processes only, the
current slot never holds a RUN instance and no process is outside the slots; so the next
start, which stops the other slot, stops all that ran. `DownloadInv`: image
steps and file steps do not mix, an attempt begins only when the hash does not match and
ends as ready only when it does; every step of the download is then a step of
`VerifiedDownload` or a stutter. `FetchInv`: with an honest answer the first `next` units
are on the disk, whatever the length, chunk and word size.

## 7. What is only model-checked, and why

* `NoRequestStuck` uses `ENABLED`; `WaitingGroupServed`, `AssignedAppRuns` and
  `DownloadRecovers` are liveness under fairness. All four are out of the prover's reach.
* `RewardsPaidInFull`: the lower bound needs the sums of `RewardsStayWithin` from the other
  side, which is left for later (section 9).

## 8. What is not modelled

* XCM configuration, weights, benchmarks, node service and command line: configuration,
  generated tables and start-up of library code.
* The arguments read from offchain storage beyond whose they are; processes that exit by
  themselves; failing stop and run commands of docker; an application marked as a docker
  image without an image name; two applications registered with one file name; the end of
  the relay chain's head stream.
* Of the web server and the hash what the client can tell: units instead of bytes.
* The encoding of the runtime API's answers.
* Library pallets (balances, assets, session, aura): the transfers and the native lock are
  modelled as the pallets use them, the existential deposit of the native token is not.

## 9. Plan

Done: the modules and runs above, and the proofs of section 6. Left are further models: the
node against `Parachain` instead of a nondeterministic chain; an abstract ledger (a map from
accounts and candidates to stakes, with a total) that `SequencerStaking` implements; an
abstract matching of groups and applications that `ContainerPallet` implements; docker
containers across a restart. And a proof: `RewardsPaidInFull` for all sizes.
