-------------------------- MODULE ContainerPallet --------------------------
(***************************************************************************)
(* Pallet container: applications are registered, and at the end of every  *)
(* block each group without an application gets the first free one.        *)
(* (pallets/container/src/lib.rs)                                          *)
(***************************************************************************)
EXTENDS SequencerGrouping

CONSTANTS
    AppInfos,        \* descriptions an application may be registered with
    Urls,            \* download URLs root may set
    MaxRuningAPP     \* capacity of InuseMap

ASSUME ContainerAssumption == MaxRuningAPP \in Nat \ {0}

VARIABLES
    nextApplicationID,   \* NextApplicationID
    appInfoMap,          \* APPInfoMap, application i at place i
    inuse,               \* InuseMap: whether application i has a group
    groupApp,            \* GroupAPPMap: the application of a group, 0 for none
    defaultUrl           \* DefaultUrl: the URLs set, none or one

containerVars == <<nextApplicationID, appInfoMap, inuse, groupApp, defaultUrl>>

ContainerInit ==
    /\ nextApplicationID = 1
    /\ appInfoMap = <<>>
    /\ inuse = <<>>
    /\ groupApp = [g \in 0 .. MaxGroupNumber - 1 |-> 0]
    /\ defaultUrl = {}

\* The extrinsic fails as a whole when InuseMap is full.
register_app(info) ==
    /\ Len(inuse) < MaxRuningAPP
    /\ appInfoMap' = Append(appInfoMap, info)
    /\ nextApplicationID' = nextApplicationID + 1
    /\ inuse' = Append(inuse, FALSE)
    /\ UNCHANGED <<groupApp, defaultUrl>>

set_default_url(url) ==
    /\ defaultUrl' = {url}
    /\ UNCHANGED <<nextApplicationID, appInfoMap, inuse, groupApp>>

----------------------------------------------------------------------------
(* The allocation.                                                         *)

FreeApps == {i \in DOMAIN inuse : ~inuse[i]}
WaitingGroups == {g \in all_group_ids : groupApp[g] = 0}

\* How many members of S come before x.
Before(S, x) == Cardinality({y \in S : y < x})

\* Mutant: every waiting group is given the first free application.
GetsFirstFree(g, i) ==
    /\ g \in WaitingGroups /\ i \in FreeApps
    /\ Before(FreeApps, i) = 0

\* Mutant: a group that has an application is given another one.
GetsAgain(g, i) ==
    /\ g \in all_group_ids /\ i \in FreeApps
    /\ Before(all_group_ids, g) = Before(FreeApps, i)

\* Mutant: the search stops short of the last application.
GetsButLast(g, i) ==
    /\ g \in WaitingGroups /\ i \in FreeApps \ {Len(inuse)}
    /\ Before(WaitingGroups, g) = Before(FreeApps, i)

\* The hook visits the groups in order and gives each waiting one the first
\* application that is still free: the k-th waiting group gets the k-th free
\* application, as long as there are any.
Gets(g, i) ==
    /\ g \in WaitingGroups /\ i \in FreeApps
    /\ Before(WaitingGroups, g) = Before(FreeApps, i)

\* Mutant: the applications that were given away are not marked.
on_finalize_unmarked ==
    /\ groupApp' = [g \in DOMAIN groupApp |->
                       IF \E i \in DOMAIN inuse : Gets(g, i)
                       THEN CHOOSE i \in DOMAIN inuse : Gets(g, i) ELSE groupApp[g]]
    /\ UNCHANGED <<nextApplicationID, appInfoMap, inuse, defaultUrl>>

on_finalize ==
    /\ groupApp' = [g \in DOMAIN groupApp |->
                       IF \E i \in DOMAIN inuse : Gets(g, i)
                       THEN CHOOSE i \in DOMAIN inuse : Gets(g, i) ELSE groupApp[g]]
    /\ inuse' = [i \in DOMAIN inuse |-> inuse[i] \/ \E g \in DOMAIN groupApp : Gets(g, i)]
    /\ UNCHANGED <<nextApplicationID, appInfoMap, defaultUrl>>

----------------------------------------------------------------------------
(* The runtime API the node calls.                                         *)

\* What a sequencer is told to load, none or one: the application of its group,
\* once the group has one and a URL is set.
shuld_load(account) ==
    {[app_id |-> groupApp[g], group |-> g, info |-> appInfoMap[groupApp[g]], url |-> url] :
        g \in {h \in account_in_group(account) : groupApp[h] # 0}, url \in defaultUrl}

----------------------------------------------------------------------------
PalletsInit == GroupingInit /\ ContainerInit

palletsVars == <<groupMembers, nextRound, metric, processorInfo,
                 nextApplicationID, appInfoMap, inuse, groupApp, defaultUrl>>

ContainerStep(step) == step /\ UNCHANGED groupingVars

PalletsNext ==
    \/ GroupingNext /\ UNCHANGED containerVars
    \/ \E info \in AppInfos : ContainerStep(register_app(info))
    \/ \E url \in Urls : ContainerStep(set_default_url(url))
    \/ ContainerStep(on_finalize)

\* on_finalize is executed in every block.
PalletsSpec ==
    PalletsInit /\ [][PalletsNext]_palletsVars /\ WF_palletsVars(ContainerStep(on_finalize))

----------------------------------------------------------------------------
(* What makes the allocation correct.                                      *)

\* An application in use is the one of exactly one group, and every group's
\* application is registered: InuseMap, GroupAPPMap and APPInfoMap, written by
\* different calls, agree.
AppsMatchGroups ==
    /\ Len(inuse) = nextApplicationID - 1 /\ Len(appInfoMap) = nextApplicationID - 1
    /\ \A g \in DOMAIN groupApp : groupApp[g] = 0 \/ groupApp[g] \in DOMAIN inuse
    /\ \A i \in DOMAIN inuse :
          inuse[i] <=> Cardinality({g \in DOMAIN groupApp : groupApp[g] = i}) = 1

Sequencers == UNION {{s[i] : i \in DOMAIN s} : s \in CandidateLists}

\* Two sequencers are told to load the same application exactly when they are
\* members of the same group.
LoadsMatchGroups ==
    \A a, b \in Sequencers : \A x \in shuld_load(a), y \in shuld_load(b) :
        x.app_id = y.app_id <=> GroupsOf(a) \cap GroupsOf(b) # {}

\* A group keeps the application it was given, across regroupings and changes of
\* the metric.
GroupKeepsApp ==
    [][\A g \in DOMAIN groupApp : groupApp[g] # 0 => groupApp'[g] = groupApp[g]]_palletsVars

\* A group for which there is a free application gets one, unless it is dissolved.
WaitingGroupServed ==
    \A g \in 0 .. MaxGroupNumber - 1 :
        g \in WaitingGroups /\ Before(WaitingGroups, g) < Cardinality(FreeApps)
            ~> g \notin WaitingGroups
=============================================================================
