------------------------ MODULE ContainerTaskProofs ------------------------
(***************************************************************************)
(* For any number of applications, regroupings, faults, waiting run tasks  *)
(* and restarts: the container task downloads one application at a time,   *)
(* gives every start the arguments of one application and, as long as the  *)
(* applications are processes, runs one instance and loses none.           *)
(***************************************************************************)
EXTENDS ContainerTask, FiniteSetTheorems, TLAPS

----------------------------------------------------------------------------
(* Downloads.                                                              *)

Statuses == {"Pending", "Downloading", "Downloaded"}

AppTypeOK ==
    app \in [group_id : Apps \cup {NoApp}, app_id : Apps \cup {NoApp}, running : Statuses,
             app_info : Apps \cup {NoApp}, cur_ins : 1 .. 2]

DownloadTasks == [app : Apps, at : {"fetch", "sync", "done"}]

\* There is one download at most, it is for app_id, and it is why the status is
\* Downloading; a status of Downloaded belongs to the application that arrived.
\* OneDownload alone does not say which application the download is for.
DownloadsInv ==
    /\ AppTypeOK
    /\ assigned \in Apps \cup {NoApp}
    /\ \A t, u \in download : t = u
    /\ \A t \in download : t \in DownloadTasks /\ t.app = app.app_id
    /\ download # {} => app.running = "Downloading"
    /\ ArgsOfOwnApp

\* The node starts without a download.
LEMMA DownloadsInitInv == TaskInit => DownloadsInv
  BY DEF TaskInit, DownloadsInv, AppTypeOK, NewApp, Statuses, ArgsOfOwnApp

\* A step of process_run_task keeps what the record says of downloads.
LEMMA StartRunApp ==
  ASSUME AppTypeOK, NEW a, start_run(a)
  PROVE  /\ AppTypeOK'
         /\ \A k \in {"group_id", "app_id", "running", "app_info"} : app'[k] = app[k]
<1>1. app' = [app EXCEPT !.cur_ins = Other(app.cur_ins)]
  BY DEF start_run
<1>2. Other(app.cur_ins) \in 1 .. 2
  BY DEF AppTypeOK, Other
<1> QED
  BY <1>1, <1>2 DEF AppTypeOK

\* Every step of the loop, of the spawned tasks and of the node keeps it.
LEMMA DownloadsNextInv == DownloadsInv /\ [TaskNext]_taskVars => DownloadsInv'
<1> SUFFICES ASSUME DownloadsInv, [TaskNext]_taskVars PROVE DownloadsInv'
  OBVIOUS
<1>1. /\ AppTypeOK /\ assigned \in Apps \cup {NoApp}
      /\ \A t, u \in download : t = u
      /\ \A t \in download : t \in DownloadTasks /\ t.app = app.app_id
      /\ download # {} => app.running = "Downloading"
      /\ app.running = "Downloaded" => app.app_info = app.app_id /\ app.group_id = app.app_id
  BY DEF DownloadsInv, ArgsOfOwnApp
<1>same. ASSUME UNCHANGED <<assigned, app, download>>
         PROVE  DownloadsInv'
  BY <1>1, <1>same DEF DownloadsInv, AppTypeOK, ArgsOfOwnApp
<1>chain_regroups. ASSUME NEW a \in Apps \cup {NoApp}, chain_regroups(a)
                   PROVE  DownloadsInv'
  BY <1>1, <1>chain_regroups DEF chain_regroups, DownloadsInv, AppTypeOK, ArgsOfOwnApp
<1>new_head. ASSUME NEW should_run \in BOOLEAN, new_head(should_run)
             PROVE  DownloadsInv'
  <2>1. CASE ~ShouldDownload
    BY <1>new_head, <1>same, <2>1 DEF new_head
  <2>2. CASE ShouldDownload
    <3>1. download = {} /\ assigned \in Apps
      BY <1>1, <2>2 DEF ShouldDownload
    <3>2. /\ app' = [app EXCEPT !.running = "Downloading", !.app_id = assigned]
          /\ download' = {[app |-> assigned, at |-> "fetch"]}
          /\ assigned' = assigned
      BY <1>new_head, <2>2, <3>1 DEF new_head
    <3>3. AppTypeOK' /\ app'.running = "Downloading" /\ app'.app_id = assigned
      BY <1>1, <3>1, <3>2 DEF AppTypeOK, Statuses
    <3> QED
      BY <1>1, <3>1, <3>2, <3>3 DEF DownloadsInv, DownloadTasks, ArgsOfOwnApp
  <2> QED
    BY <2>1, <2>2
<1>check_run. CASE check_run
  <2>1. CASE UNCHANGED app
    BY <1>check_run, <1>same, <2>1 DEF check_run
  <2>2. CASE app' = [app EXCEPT !.running = "Pending"] /\ app.running = "Downloaded"
    <3>1. AppTypeOK' /\ app'.running = "Pending" /\ download' = {} /\ assigned' = assigned
      BY <1>1, <1>check_run, <2>2 DEF check_run, AppTypeOK, Statuses
    <3> QED
      BY <1>1, <3>1 DEF DownloadsInv, ArgsOfOwnApp
  <2> QED
    BY <1>check_run, <2>1, <2>2 DEF check_run
<1>restart_node. CASE restart_node
  <2>1. app' = NewApp /\ download' = {} /\ assigned' = assigned
    BY <1>restart_node DEF restart_node
  <2> QED
    BY <1>1, <2>1 DEF DownloadsInv, AppTypeOK, NewApp, Statuses, ArgsOfOwnApp
<1>run_task. ASSUME NEW a \in Apps, run_task(a)
             PROVE  DownloadsInv'
  <2>1. /\ AppTypeOK' /\ download' = download /\ assigned' = assigned
        /\ app'.group_id = app.group_id /\ app'.app_id = app.app_id
        /\ app'.running = app.running /\ app'.app_info = app.app_info
    BY <1>1, <1>run_task, StartRunApp DEF run_task
  <2> QED
    BY <1>1, <2>1 DEF DownloadsInv, ArgsOfOwnApp
<1>run_task_fails. ASSUME NEW a \in Apps, run_task_fails(a)
                   PROVE  DownloadsInv'
  BY <1>same, <1>run_task_fails DEF run_task_fails
<1>moves. ASSUME NEW t \in download, NEW at \in {"fetch", "sync", "done"}, Moves(t, at),
                 UNCHANGED <<assigned, app>>
          PROVE  DownloadsInv'
  <2> DEFINE u == [t EXCEPT !.at = at]
  <2>1. u \in DownloadTasks /\ u.app = app.app_id
    BY <1>1, <1>moves DEF DownloadTasks
  <2>2. download' = {u}
    BY <1>1, <1>moves DEF Moves
  <2> QED
    BY <1>1, <1>moves, <2>1, <2>2 DEF DownloadsInv, AppTypeOK, ArgsOfOwnApp
<1>ends. ASSUME NEW t \in download, download' = download \ {t}, assigned' = assigned,
                app' = app \/ app' = [app EXCEPT !.running = "Pending"] \/ app' = downloaded(t)
         PROVE  DownloadsInv'
  <2>1. download' = {}
    BY <1>1, <1>ends
  <2>2. AppTypeOK' /\ ArgsOfOwnApp'
    <3>1. CASE app' = app
      BY <1>1, <3>1 DEF AppTypeOK, ArgsOfOwnApp
    <3>2. CASE app' = [app EXCEPT !.running = "Pending"]
      BY <1>1, <3>2 DEF AppTypeOK, Statuses, ArgsOfOwnApp
    <3>3. CASE app' = downloaded(t)
      <4>1. t.app \in Apps /\ t.app = app.app_id
        BY <1>1 DEF DownloadTasks
      <4>2. /\ app'.app_info = t.app /\ app'.group_id = t.app /\ app'.app_id = app.app_id
            /\ AppTypeOK'
        BY <1>1, <3>3, <4>1 DEF downloaded, AppTypeOK, Statuses
      <4> QED
        BY <4>1, <4>2 DEF ArgsOfOwnApp
    <3> QED
      BY <1>ends, <3>1, <3>2, <3>3
  <2> QED
    BY <1>1, <1>ends, <2>1, <2>2 DEF DownloadsInv
<1>download. ASSUME NEW t \in download,
                    \/ download_ready(t) \/ download_fails(t) \/ download_aborts(t)
                    \/ sync_task(t) \/ sync_task_fails(t) \/ download_done(t)
             PROVE  DownloadsInv'
  <2>1. CASE download_ready(t) \/ sync_task(t) \/ sync_task_fails(t)
    BY <1>moves, <2>1 DEF download_ready, sync_task, sync_task_fails
  <2>2. CASE download_fails(t) \/ download_aborts(t) \/ download_done(t)
    BY <1>ends, <2>2 DEF download_fails, download_aborts, download_done
  <2> QED
    BY <1>download, <2>1, <2>2
<1>stutter. CASE UNCHANGED taskVars
  BY <1>same, <1>stutter DEF taskVars
<1> QED
  BY <1>chain_regroups, <1>new_head, <1>check_run, <1>restart_node, <1>run_task,
     <1>run_task_fails, <1>download, <1>stutter DEF TaskNext

\* So it holds throughout.
LEMMA DownloadsInvariance == TaskSpec => []DownloadsInv
  BY DownloadsInitInv, DownloadsNextInv, PTL DEF TaskSpec

\* For any applications and any order of heads and spawned tasks: there is one
\* download at most, and it is the reason for the status Downloading.
THEOREM DownloadsOnce == TaskSpec => []OneDownload
<1>1. DownloadsInv => OneDownload
  <2> SUFFICES ASSUME DownloadsInv PROVE Cardinality(download) <= 1
    BY DEF DownloadsInv, OneDownload
  <2>1. CASE download = {}
    <3>1. Cardinality(download) = 0
      BY <2>1, FS_EmptySet, Zenon
    <3> QED
      BY <3>1
  <2>2. CASE download # {}
    <3>1. PICK t : t \in download
      BY <2>2
    <3>2. download = {t}
      BY <3>1 DEF DownloadsInv
    <3>3. Cardinality(download) = 1
      BY <3>2, FS_Singleton, Zenon
    <3> QED
      BY <3>3
  <2> QED
    BY <2>1, <2>2
<1> QED
  BY <1>1, DownloadsInvariance, PTL

\* app_id is written at a head, app_info and group when the download ends: whenever
\* an application is about to run, they are those of one application.
THEOREM ArgsBelongTogether == TaskSpec => []ArgsOfOwnApp
<1>1. DownloadsInv => ArgsOfOwnApp
  BY DEF DownloadsInv
<1> QED
  BY <1>1, DownloadsInvariance, PTL

----------------------------------------------------------------------------
(* Processes.                                                              *)

\* Without docker images every slot is empty or holds a process, the one of the
\* current slot does not run but synchronise, and nothing is anywhere else.
ProcessesInv ==
    /\ app.cur_ins \in 1 .. 2
    /\ slot \in [1 .. 2 -> [child : Instance \cup {NoInstance}, docker : {FALSE}, name : {NoApp}]]
    /\ slot[app.cur_ins].child.mode = "sync"
    /\ containers = {} /\ strays = {}

\* With no docker image among the applications every step keeps it.
LEMMA ProcessesNextInv ==
  ASSUME DockerApps = {}
  PROVE  DownloadsInv /\ ProcessesInv /\ [TaskNext]_taskVars => ProcessesInv'
<1> SUFFICES ASSUME DownloadsInv, ProcessesInv, [TaskNext]_taskVars PROVE ProcessesInv'
  OBVIOUS
<1> DEFINE Slot == [child : Instance \cup {NoInstance}, docker : {FALSE}, name : {NoApp}]
           i == app.cur_ins
           j == Other(app.cur_ins)
<1>1. /\ i \in 1 .. 2 /\ slot \in [1 .. 2 -> Slot]
      /\ slot[i].child.mode = "sync" /\ containers = {} /\ strays = {}
  BY DEF ProcessesInv
<1>2. j \in 1 .. 2 /\ j # i /\ \A k \in 1 .. 2 : k = i \/ k = j
  BY <1>1 DEF Other
<1>3. \A k \in 1 .. 2 : slot[k] \in Slot /\ ~slot[k].docker /\ slot[k].name = NoApp
                       /\ slot[k].child \in Instance \cup {NoInstance}
  BY <1>1
<1>4. \A k \in 1 .. 2 : /\ stop_old(slot[k]) \in Slot
                        /\ stop_old(slot[k]).child = NoInstance
                        /\ WithoutContainer(slot[k]) = {}
                        /\ Overwritten(stop_old(slot[k])) = {}
  <2> SUFFICES ASSUME NEW k \in 1 .. 2
               PROVE  /\ stop_old(slot[k]) \in Slot
                      /\ stop_old(slot[k]).child = NoInstance
                      /\ WithoutContainer(slot[k]) = {}
                      /\ Overwritten(stop_old(slot[k])) = {}
    OBVIOUS
  <2>1. stop_old(slot[k]) = [slot[k] EXCEPT !.child = NoInstance]
    BY <1>3 DEF stop_old
  <2>2. stop_old(slot[k]) \in Slot /\ stop_old(slot[k]).child = NoInstance
    BY <1>3, <2>1
  <2> QED
    BY <1>1, <1>3, <2>2 DEF WithoutContainer, Overwritten
<1>quiet. ASSUME UNCHANGED <<slot, containers, strays>>, app'.cur_ins = app.cur_ins
          PROVE  ProcessesInv'
  BY <1>quiet DEF ProcessesInv
<1>keeps. ASSUME \/ app' = app
                 \/ \E x \in Apps : app' = [app EXCEPT !.running = "Downloading", !.app_id = x]
                 \/ app' = [app EXCEPT !.running = "Pending"]
                 \/ \E t : app' = downloaded(t)
          PROVE  app'.cur_ins = app.cur_ins
  BY <1>keeps DEF downloaded, DownloadsInv, AppTypeOK
<1>5. NoInstance.mode = "sync"
  BY DEF NoInstance
<1>stopped. ASSUME stopped_only, UNCHANGED <<app, strays>>
            PROVE  ProcessesInv'
  <2>1. slot' = [slot EXCEPT ![i] = stop_old(slot[i])] /\ containers' = {}
    BY <1>1, <1>4, <1>stopped DEF stopped_only
  <2>2. slot' \in [1 .. 2 -> Slot] /\ slot'[i].child = NoInstance
    BY <1>1, <1>4, <2>1
  <2> QED
    BY <1>1, <1>5, <1>stopped, <2>1, <2>2 DEF ProcessesInv
<1>sync. ASSUME NEW a \in Apps, start_sync(a), UNCHANGED app
         PROVE  ProcessesInv'
  <2> DEFINE s == [child |-> [app |-> a, mode |-> "sync"], docker |-> FALSE, name |-> NoApp]
  <2>1. slot' = [slot EXCEPT ![i] = s] /\ containers' = {} /\ strays' = {}
    BY <1>1, <1>4, <1>sync DEF start_sync
  <2>2. s \in Slot /\ s.child.mode = "sync"
    BY DEF Instance
  <2> HIDE DEF s
  <2>3. slot' \in [1 .. 2 -> Slot] /\ slot'[i] = s
    BY <1>1, <2>1, <2>2
  <2> QED
    BY <1>1, <1>sync, <2>1, <2>2, <2>3 DEF ProcessesInv
<1>run. ASSUME NEW a \in Apps, start_run(a)
        PROVE  ProcessesInv'
  <2> DEFINE p == [app |-> a, mode |-> "run"]
             si == [stop_old(slot[i]) EXCEPT !.child = p]
             sj == [stop_old(slot[j]) EXCEPT !.child = NoInstance]
  <2>1. si \in Slot /\ sj \in Slot /\ sj.child = NoInstance
    <3>1. p \in Instance
      BY DEF Instance
    <3>2. NoInstance \in {NoInstance} \cup Instance
      OBVIOUS
    <3> HIDE DEF p
    <3>3. si \in Slot
      <4>1. stop_old(slot[i]) \in Slot
        BY <1>1, <1>4
      <4> QED
        BY <3>1, <4>1
    <3>4. sj \in Slot /\ sj.child = NoInstance
      <4>1. stop_old(slot[j]) \in Slot
        BY <1>2, <1>4
      <4> QED
        BY <3>2, <4>1
    <3> QED
      BY <3>3, <3>4
  <2>2. /\ slot' = [slot EXCEPT ![i] = si, ![j] = [stop_old(@) EXCEPT !.child = NoInstance]]
        /\ containers' = {} /\ strays' = {}
        /\ app' = [app EXCEPT !.cur_ins = j]
    BY <1>1, <1>2, <1>3, <1>4, <1>run DEF start_run
  <2> HIDE DEF si
  <2>3. slot' \in [1 .. 2 -> Slot] /\ slot'[j] = sj
    <3> DEFINE t == [stop_old(slot[j]) EXCEPT !.child = NoInstance]
    <3>1. slot' = [slot EXCEPT ![i] = si, ![j] = t]
      BY <1>1, <1>2, <2>2, Zenon
    <3>2. t \in Slot /\ t = sj
      BY <2>1
    <3> HIDE DEF t, sj
    <3> QED
      BY <1>1, <1>2, <2>1, <3>1, <3>2
  <2> HIDE DEF sj
  <2>6. app'.cur_ins = j
    BY <2>2 DEF DownloadsInv, AppTypeOK
  <2> QED
    BY <1>2, <1>5, <2>1, <2>2, <2>3, <2>6 DEF ProcessesInv
<1>restart_node. CASE restart_node
  <2>1. /\ app' = NewApp /\ slot' = [k \in 1 .. 2 |-> EmptySlot] /\ strays' = {}
        /\ containers' = containers
    BY <1>restart_node DEF restart_node
  <2> QED
    BY <1>1, <2>1 DEF ProcessesInv, NewApp, EmptySlot, NoInstance
<1>chain_regroups. ASSUME NEW a \in Apps \cup {NoApp}, chain_regroups(a)
                   PROVE  ProcessesInv'
  BY <1>quiet, <1>chain_regroups DEF chain_regroups
<1>new_head. ASSUME NEW should_run \in BOOLEAN, new_head(should_run)
             PROVE  ProcessesInv'
  <2>1. UNCHANGED <<slot, containers, strays>>
    BY <1>new_head DEF new_head
  <2>2. \/ app' = app
        \/ assigned \in Apps /\ app' = [app EXCEPT !.running = "Downloading", !.app_id = assigned]
    BY <1>new_head DEF new_head, ShouldDownload, DownloadsInv
  <2> QED
    BY <1>quiet, <1>keeps, <2>1, <2>2
<1>check_run. CASE check_run
  BY <1>quiet, <1>keeps, <1>check_run DEF check_run
<1>run_tasks. ASSUME NEW a \in Apps, run_task(a) \/ run_task_fails(a)
              PROVE  ProcessesInv'
  BY <1>run_tasks, <1>run, <1>stopped, <1>quiet DEF run_task, run_task_fails
<1>download. ASSUME NEW t \in download,
                    \/ download_ready(t) \/ download_fails(t) \/ download_aborts(t)
                    \/ sync_task(t) \/ sync_task_fails(t) \/ download_done(t)
             PROVE  ProcessesInv'
  <2>1. CASE download_ready(t) \/ download_fails(t) \/ download_done(t)
    BY <1>quiet, <1>keeps, <2>1 DEF download_ready, download_fails, download_done
  <2>2. CASE download_aborts(t) \/ sync_task_fails(t)
    BY <1>quiet, <1>stopped, <2>2 DEF download_aborts, sync_task_fails
  <2>3. CASE sync_task(t)
    <3>1. t.app \in Apps
      BY DEF DownloadsInv, DownloadTasks
    <3> QED
      BY <1>sync, <2>3, <3>1 DEF sync_task
  <2> QED
    BY <1>download, <2>1, <2>2, <2>3
<1>stutter. CASE UNCHANGED taskVars
  BY <1>quiet, <1>stutter DEF taskVars
<1> QED
  BY <1>chain_regroups, <1>new_head, <1>check_run, <1>restart_node, <1>run_tasks,
     <1>download, <1>stutter DEF TaskNext

\* So it holds throughout, as long as no application is a docker image.
LEMMA ProcessesInvariance ==
  ASSUME DockerApps = {}
  PROVE  TaskSpec => []ProcessesInv
<1>1. TaskInit => ProcessesInv
  BY DEF TaskInit, ProcessesInv, NewApp, EmptySlot, NoInstance
<1> QED
  BY <1>1, ProcessesNextInv, DownloadsInvariance, PTL DEF TaskSpec

\* For any number of applications that are processes, however the run tasks of
\* different rounds, the downloads and the restarts interleave, and whichever of them
\* fail half-way: no process is started that the next start cannot stop.
THEOREM NothingIsLost ==
  ASSUME DockerApps = {}
  PROVE  TaskSpec => []NothingEscapes
<1>1. ProcessesInv => NothingEscapes
  BY DEF ProcessesInv, NothingEscapes
<1> QED
  BY <1>1, ProcessesInvariance, PTL

\* And at most one application runs at a time.
THEOREM RunsOnce ==
  ASSUME DockerApps = {}
  PROVE  TaskSpec => []OneRunInstance
<1>1. ProcessesInv => OneRunInstance
  <2> SUFFICES ASSUME ProcessesInv PROVE OneRunInstance
    OBVIOUS
  <2> DEFINE running == {i \in Children : slot[i].child.mode = "run"}
             others  == {x \in strays \cup containers : x.mode = "run"}
             j == Other(app.cur_ins)
  <2>1. others = {} /\ Cardinality(others) = 0
    BY FS_EmptySet DEF ProcessesInv
  <2>2. running \in SUBSET {j}
    BY DEF ProcessesInv, Children, Other
  <2>3. IsFiniteSet({j}) /\ Cardinality({j}) = 1
    BY FS_Singleton
  <2>4. IsFiniteSet(running) /\ Cardinality(running) <= 1
    BY <2>2, <2>3, FS_Subset
  <2>5. Cardinality(running) \in Nat
    BY <2>4, FS_CardinalityType
  <2>6. Cardinality(running) + Cardinality(others) <= 1
    BY <2>1, <2>4, <2>5
  <2> QED
    BY <2>6 DEF OneRunInstance
<1> QED
  BY <1>1, ProcessesInvariance, PTL
=============================================================================
