--------------------------- MODULE ContainerTask ---------------------------
(***************************************************************************)
(* The container task of a sequencer's node (node/src/container_task.rs):  *)
(* it follows the parachain heads, downloads the application of the        *)
(* sequencer's group, starts it to synchronise and, when the group's round *)
(* begins, starts it to run and stops the one that ran before.             *)
(*                                                                         *)
(* The loop over the heads and the two kinds of spawned tasks share the    *)
(* record RunningApp behind a lock. A step here is what happens between    *)
(* taking and releasing the lock; process_run_task keeps it across its     *)
(* awaits.                                                                 *)
(*                                                                         *)
(* What the chain answers is `assigned': the group of the sequencer once   *)
(* shuld_load returns its application. A group never changes its           *)
(* application (ContainerPallet, GroupKeepsApp), so group and application  *)
(* are one value here: a group is named by its application.                *)
(***************************************************************************)
EXTENDS Naturals, FiniteSets

CONSTANTS
    Apps,          \* the applications, one per group
    DockerApps,    \* those that are docker images
    NoApp,         \* no group, no application, an empty slot
    MaxRegroups,   \* bound on the changes of group explored
    MaxFaults,     \* bound on the faults explored
    MaxRuns,       \* bound on the run tasks of one application waiting for the lock
    MaxRestarts    \* bound on the restarts of the node explored

ASSUME TaskAssumption ==
    /\ DockerApps \subseteq Apps
    /\ NoApp \notin Apps
    /\ MaxRegroups \in Nat /\ MaxFaults \in Nat /\ MaxRuns \in Nat \ {0}
    /\ MaxRestarts \in Nat

VARIABLES
    assigned,     \* what shuld_load answers at the current head
    regroups,     \* how often that has changed
    faults,       \* how many steps went wrong or came too late since the node started
    restarts,     \* how often the node was restarted
    head,         \* the loop: "next" head, or "run" between its two locked sections
    app,          \* RunningApp: group_id, app_id, running, app_info, cur_ins
    slot,         \* RunningApp: instance1 and instance2 with docker flag and name
    containers,   \* docker containers that exist
    strays,       \* processes that live without a handle
    orphans,      \* processes that outlived the node that started them
    download,     \* spawned process_download_tasks, with how far they are
    runs          \* spawned process_run_tasks by application

nodeVars == <<restarts, orphans>>

taskVars == <<assigned, regroups, faults, head, app, slot, containers, strays, download, runs,
              nodeVars>>

Instance == [app : Apps, mode : {"sync", "run"}]
NoInstance == [app |-> NoApp, mode |-> "sync"]
EmptySlot == [child |-> NoInstance, docker |-> FALSE, name |-> NoApp]

NewApp == [group_id |-> NoApp, app_id |-> NoApp, running |-> "Pending",
           app_info |-> NoApp, cur_ins |-> 1]

TaskInit ==
    /\ assigned = NoApp /\ regroups = 0 /\ faults = 0
    /\ head = "next"
    /\ app = NewApp
    /\ slot = [i \in 1 .. 2 |-> EmptySlot]
    /\ containers = {} /\ strays = {}
    /\ download = {}
    /\ runs = [a \in Apps |-> 0]
    /\ restarts = 0 /\ orphans = {}

Fault == faults < MaxFaults /\ faults' = faults + 1

----------------------------------------------------------------------------
(* The heads.                                                              *)

\* The chain puts the sequencer in another group, or in none.
chain_regroups(a) ==
    /\ regroups < MaxRegroups /\ a # assigned
    /\ assigned' = a /\ regroups' = regroups + 1
    /\ UNCHANGED <<nodeVars, faults, head, app, slot, containers, strays, download, runs>>

\* Mutant: a download is started whatever is going on.
ShouldDownloadAnyway == assigned # NoApp /\ app.group_id # assigned

\* Mutant: only the first group's application is downloaded.
ShouldDownloadOnce ==
    assigned # NoApp /\ app.group_id = NoApp /\ app.running = "Pending"

ShouldDownload ==
    assigned # NoApp /\ app.group_id # assigned /\ app.running = "Pending"

\* handle_new_best_parachain_head, first locked section. An error of the runtime
\* API ends the handling of the head and is a head that asks for nothing.
new_head(should_run) ==
    /\ head = "next"
    /\ head' = IF should_run THEN "run" ELSE "next"
    /\ IF ShouldDownload
       THEN /\ app' = [app EXCEPT !.running = "Downloading", !.app_id = assigned]
            /\ download' = download \cup {[app |-> assigned, at |-> "fetch"]}
       ELSE UNCHANGED <<app, download>>
    /\ UNCHANGED <<nodeVars, assigned, regroups, faults, slot, containers, strays, runs>>

\* The second locked section, at the first block of a round. A run task of the
\* round before that is still waiting is one that came too late.
check_run ==
    /\ head = "run"
    /\ head' = "next"
    /\ IF app.app_info # NoApp /\ app.running = "Downloaded"
       THEN /\ runs[app.app_info] < MaxRuns
            /\ runs' = [runs EXCEPT ![app.app_info] = @ + 1]
            /\ app' = [app EXCEPT !.running = "Pending"]
            /\ IF \E a \in Apps : runs[a] > 0 THEN Fault ELSE UNCHANGED faults
       ELSE UNCHANGED <<runs, app, faults>>
    /\ UNCHANGED <<nodeVars, assigned, regroups, slot, containers, strays, download>>

----------------------------------------------------------------------------
(* process_run_task, from taking the lock on.                              *)

Other(i) == 3 - i

\* Mutant: the instance in the slot is not stopped.
leave_old(s) == s

\* Stops the old instance in a slot: the process, unless the slot says docker.
stop_old(s) == IF s.docker THEN s ELSE [s EXCEPT !.child = NoInstance]

\* The containers left when the container a slot names is removed.
WithoutContainer(s) ==
    IF s.docker THEN {x \in containers : x.app # s.name} ELSE containers

\* docker run does nothing when the name is taken, and nobody looks at its result.
WithContainer(before, x) ==
    IF \E y \in before : y.app = x.app THEN before ELSE before \cup {x}

\* A process whose handle is overwritten lives on.
Overwritten(s) == IF s.child = NoInstance THEN {} ELSE {s.child}

\* StartType::SYNC: the instance takes the current slot.
start_sync(a) ==
    LET i   == app.cur_ins
        old == stop_old(slot[i])
        new == [app |-> a, mode |-> "sync"]
    IN  /\ IF a \in DockerApps
           THEN /\ containers' = WithContainer(WithoutContainer(slot[i]), new)
                /\ slot' = [slot EXCEPT ![i] =
                               [child |-> NoInstance, docker |-> TRUE, name |-> a]]
           ELSE /\ containers' = WithoutContainer(slot[i])
                /\ slot' = [slot EXCEPT ![i] =
                               [child |-> new, docker |-> FALSE, name |-> NoApp]]
        /\ strays' = strays \cup Overwritten(old)

\* StartType::RUN: the instance replaces the one in the current slot, the other
\* slot is cleared and becomes the current one. The new process is stored only
\* when the other slot is not a docker container, and docker flag and name stay
\* as the last SYNC left them.
start_run(a) ==
    LET i      == app.cur_ins
        j      == Other(i)
        old    == stop_old(slot[i])
        new    == IF a \in DockerApps THEN NoInstance ELSE [app |-> a, mode |-> "run"]
        before == WithoutContainer(slot[i])
        with   == IF a \in DockerApps
                  THEN WithContainer(before, [app |-> a, mode |-> "run"]) ELSE before
    IN  /\ IF slot[j].docker
           THEN /\ containers' = {x \in with : x.app # slot[j].name}
                /\ slot' = [slot EXCEPT ![i] = old, ![j].docker = FALSE, ![j].name = NoApp]
                /\ strays' = strays \cup (IF new = NoInstance THEN {} ELSE {new})
           ELSE /\ containers' = with
                /\ slot' = [slot EXCEPT ![i] = [old EXCEPT !.child = new],
                                        ![j] = [stop_old(@) EXCEPT !.child = NoInstance]]
                /\ strays' = strays \cup Overwritten(old) \cup Overwritten(stop_old(slot[j]))
        /\ app' = [app EXCEPT !.cur_ins = j]

\* A spawned run task gets the lock.
run_task(a) ==
    /\ runs[a] > 0
    /\ runs' = [runs EXCEPT ![a] = @ - 1]
    /\ start_run(a)
    /\ UNCHANGED <<nodeVars, assigned, regroups, faults, head, download>>

\* process_run_task stopped the old instance and then failed.
stopped_only ==
    /\ slot' = [slot EXCEPT ![app.cur_ins] = stop_old(@)]
    /\ containers' = WithoutContainer(slot[app.cur_ins])

\* A run task that returns an error, before taking the lock or after stopping the
\* old instance. It is not tried again.
run_task_fails(a) ==
    /\ runs[a] > 0
    /\ Fault
    /\ runs' = [runs EXCEPT ![a] = @ - 1]
    /\ stopped_only \/ UNCHANGED <<slot, containers>>
    /\ UNCHANGED <<nodeVars, assigned, regroups, head, app, strays, download>>

----------------------------------------------------------------------------
(* process_download_task.                                                  *)

Moves(t, at) == download' = (download \ {t}) \cup {[t EXCEPT !.at = at]}

\* The file or the image is there: start_flag is set.
download_ready(t) ==
    /\ t.at = "fetch"
    /\ Moves(t, "sync")
    /\ UNCHANGED <<nodeVars, assigned, regroups, faults, head, app, slot, containers, strays, runs>>

\* The download fails, or its hash does not match: the next head tries again.
download_fails(t) ==
    /\ t.at = "fetch"
    /\ download' = download \ {t}
    /\ app' = [app EXCEPT !.running = "Pending"]
    /\ UNCHANGED <<nodeVars, assigned, regroups, faults, head, slot, containers, strays, runs>>

\* The task returns early with an error, or panics because the process cannot be
\* started: running stays Downloading.
download_aborts(t) ==
    /\ Fault
    /\ download' = download \ {t}
    /\ \/ t.at = "fetch" /\ UNCHANGED <<slot, containers>>
       \/ t.at = "sync" /\ stopped_only
    /\ UNCHANGED <<nodeVars, assigned, regroups, head, app, strays, runs>>

\* The instance is started to synchronise.
sync_task(t) ==
    /\ t.at = "sync"
    /\ Moves(t, "done")
    /\ start_sync(t.app)
    /\ UNCHANGED <<nodeVars, assigned, regroups, faults, head, app, runs>>

\* process_run_task returns an error, which is only logged.
sync_task_fails(t) ==
    /\ t.at = "sync"
    /\ Fault
    /\ Moves(t, "done")
    /\ stopped_only \/ UNCHANGED <<slot, containers>>
    /\ UNCHANGED <<nodeVars, assigned, regroups, head, app, strays, runs>>

\* Mutant: only the status is stored, the application stays the old one.
downloaded_without_info(t) == [app EXCEPT !.running = "Downloaded"]

downloaded(t) ==
    [app EXCEPT !.app_info = t.app, !.group_id = t.app, !.running = "Downloaded"]

download_done(t) ==
    /\ t.at = "done"
    /\ download' = download \ {t}
    /\ app' = downloaded(t)
    /\ UNCHANGED <<nodeVars, assigned, regroups, faults, head, slot, containers, strays, runs>>

----------------------------------------------------------------------------
(* The node.                                                               *)

\* The slots that hold a process.
Children == {i \in 1 .. 2 : slot[i].child # NoInstance}

\* The node stops and starts again, with a fresh RunningApp. Nothing kills the
\* processes, and what supervises the node may let any of them live on;
\* containers belong to docker.
restart_node ==
    /\ restarts < MaxRestarts /\ restarts' = restarts + 1
    /\ \E left \in SUBSET (strays \cup {slot[i].child : i \in Children}) :
          orphans' = orphans \cup left
    /\ strays' = {}
    /\ head' = "next" /\ faults' = 0
    /\ app' = NewApp
    /\ slot' = [i \in 1 .. 2 |-> EmptySlot]
    /\ download' = {}
    /\ runs' = [a \in Apps |-> 0]
    /\ UNCHANGED <<assigned, regroups, containers>>

----------------------------------------------------------------------------
TaskNext ==
    \/ \E a \in Apps \cup {NoApp} : chain_regroups(a)
    \/ \E should_run \in BOOLEAN : new_head(should_run)
    \/ check_run
    \/ restart_node
    \/ \E a \in Apps : run_task(a) \/ run_task_fails(a)
    \/ \E t \in download :
          \/ download_ready(t) \/ download_fails(t) \/ download_aborts(t)
          \/ sync_task(t) \/ sync_task_fails(t) \/ download_done(t)

\* Heads keep coming, every round has a first block, a download that is tried
\* again and again succeeds, and the executor polls every spawned task.
TaskFairness ==
    /\ WF_taskVars(new_head(FALSE)) /\ SF_taskVars(new_head(TRUE)) /\ WF_taskVars(check_run)
    /\ \A a \in Apps : WF_taskVars(run_task(a))
    /\ \A a \in Apps : SF_taskVars(\E t \in download : t.app = a /\ download_ready(t))
    /\ WF_taskVars(\E t \in download : sync_task(t) \/ download_done(t))

TaskSpec == TaskInit /\ [][TaskNext]_taskVars /\ TaskFairness

----------------------------------------------------------------------------
(* What makes the task correct.                                            *)

\* There is never more than one download, although heads arrive while one is
\* going on, and it is the reason for the status Downloading.
OneDownload ==
    Cardinality(download) <= 1 /\ (download # {} => app.running = "Downloading")

\* When an application is about to be run, the arguments read from the offchain
\* storage under app_id, the instance's app_info and the group are those of one
\* application, although they are written at different times.
ArgsOfOwnApp ==
    app.running = "Downloaded" => app.app_info = app.app_id /\ app.group_id = app.app_id

\* At most one application runs at a time, in any order of the spawned tasks.
OneRunInstance ==
    LET running == {i \in Children : slot[i].child.mode = "run"}
        others  == {x \in strays \cup containers : x.mode = "run"}
    IN  Cardinality(running) + Cardinality(others) <= 1

\* Whatever was started can still be stopped: every process is held by a slot,
\* and every container is named by one, so that process_run_task finds it when it
\* stops the old instance.
NothingEscapes ==
    /\ strays = {}
    /\ \A x \in containers : \E i \in 1 .. 2 : slot[i].docker /\ slot[i].name = x.app

\* Once the sequencer stays in a group and the node in one life, the group's
\* application gets to run and stays, provided that in this life no step fails for
\* good and every run task gets the lock before the next round begins. The lives
\* before may have ended anywhere, with any fault.
AssignedAppRuns ==
    \A a \in Apps :
        <>[](assigned = a /\ faults = 0) =>
            <>[](\E i \in Children : slot[i].child = [app |-> a, mode |-> "run"])

----------------------------------------------------------------------------
(* What the repository says and the code does not do.                      *)

\* "stop old instance" (container_task.rs, process_run_task): no process that was
\* started is out of reach of the next one's start.
OldInstanceStopped == strays = {}
=============================================================================
