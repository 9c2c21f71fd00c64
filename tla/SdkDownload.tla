---------------------------- MODULE SdkDownload ----------------------------
(***************************************************************************)
(* How the node's container task gets an application onto its disk         *)
(* (process_download_task up to start_flag, download_sdk, need_download,   *)
(* PartialRangeIter and the docker image commands of                       *)
(* node/src/container_task.rs).                                            *)
(*                                                                         *)
(* A file is fetched in ranges from a web server and its hash is compared  *)
(* with the registered one; an image is pulled by docker. The attempt is   *)
(* repeated at a later head when it fails. The node may crash at any step  *)
(* and keeps what is on its disk.                                          *)
(*                                                                         *)
(* The published file is the sequence of its units 1, 2, ...; a unit the   *)
(* server never published is 0. A hash matches exactly the published file. *)
(***************************************************************************)
EXTENDS Naturals, Sequences

CONSTANTS
    Lengths,       \* lengths of the published file, in units
    ChunkSize,     \* CHUNK_SIZE, in units
    Word,          \* 2^64: positions and lengths are u64
    DiskSize,      \* units the disk has room for
    MaxFaults      \* bound on the wrong answers, errors and crashes explored

ASSUME DownloadAssumption ==
    /\ Word \in Nat /\ ChunkSize \in 1 .. Word - 1
    /\ DiskSize \in 0 .. Word - 1 /\ Lengths \subseteq 0 .. DiskSize
    /\ MaxFaults \in Nat

VARIABLES
    docker,        \* is_docker_image
    length,        \* the length of the published file
    ranged,        \* whether the server honours Range headers
    at,            \* where process_download_task is
    disk,          \* the file under sdk/: there, units, executable
    image,         \* whether docker has the image
    next, last,    \* PartialRangeIter: start and end
    clean,         \* history: this attempt got no wrong answer
    faults         \* how many faults there were

downloadVars == <<docker, length, ranged, at, disk, image, next, last, clean, faults>>

Published == [i \in 1 .. length |-> i]

NoFile == [there |-> FALSE, units |-> <<>>, executable |-> FALSE]

DownloadInit ==
    /\ docker \in BOOLEAN /\ length \in Lengths /\ ranged \in BOOLEAN
    /\ at = "idle"
    /\ disk = NoFile /\ image = FALSE
    /\ next = 0 /\ last = 0
    /\ clean = TRUE /\ faults = 0

Fault == faults < MaxFaults /\ faults' = faults + 1

Goes(from, to) == at = from /\ at' = to

----------------------------------------------------------------------------
(* Hashes.                                                                 *)

\* sha256_digest of what was opened equals app_hash
HashMatches == disk.there /\ disk.units = Published

\* Mutant: a file that is there is taken for the application.
need_download_by_name == ~disk.there

\* A file that cannot be opened, or has another hash.
need_download == ~HashMatches

----------------------------------------------------------------------------
(* PartialRangeIter.                                                       *)

Smaller(m, n) == IF m < n THEN m ELSE n

\* PartialRangeIter::new(0, length - 1): the subtraction wraps around.
partial_range(n) == next' = 0 /\ last' = (n + Word - 1) % Word

MoreRanges == next <= last

\* PartialRangeIter::next: where the range after this one begins.
after_range == (next + Smaller(ChunkSize, (last - next + 1) % Word)) % Word

\* Mutant: a range ends before its last position.
range_end_exclusive == after_range

\* The last position of the range that is asked for.
range_end == (after_range + Word - 1) % Word

----------------------------------------------------------------------------
(* The web server, as its answers reach the client.                        *)

\* The part of the published file a satisfiable range asks for.
Slice == SubSeq(Published, next + 1, Smaller(range_end + 1, length))

\* 206 and the range, or 200 and the whole file from a server without ranges.
Body == IF ranged THEN Slice ELSE Published

\* 416: no unit of the file is in the range.
Unsatisfiable == ranged /\ next >= length

----------------------------------------------------------------------------
(* The steps of an attempt.                                                *)

\* The download is spawned at a head.
begin ==
    /\ Goes("idle", "check")
    /\ clean' = TRUE
    /\ UNCHANGED <<docker, length, ranged, disk, image, next, last, faults>>

\* need_download, or the first check_docker_image_exist
check ==
    /\ at = "check"
    /\ at' = IF docker THEN (IF image THEN "ready" ELSE "pull")
                       ELSE (IF need_download THEN "head" ELSE "ready")
    /\ UNCHANGED <<docker, length, ranged, disk, image, next, last, clean, faults>>

\* The file is there but cannot be read: need_download returns an error and
\* nothing is started.
check_fails ==
    /\ Goes("check", "failed")
    /\ ~docker /\ disk.there
    /\ Fault
    /\ UNCHANGED <<docker, length, ranged, disk, image, next, last, clean>>

\* docker cannot be executed: the task returns the error and leaves its status.
docker_aborts ==
    /\ docker /\ at \in {"check", "pull", "recheck"} /\ at' = "aborted"
    /\ Fault
    /\ UNCHANGED <<docker, length, ranged, disk, image, next, last, clean>>

\* download_docker_image: whether the pull succeeded is seen only by looking again.
pull ==
    /\ Goes("pull", "recheck")
    /\ \/ image' = TRUE /\ UNCHANGED faults
       \/ Fault /\ UNCHANGED image
    /\ UNCHANGED <<docker, length, ranged, disk, next, last, clean>>

recheck ==
    /\ at = "recheck"
    /\ at' = IF image THEN "ready" ELSE "failed"
    /\ UNCHANGED <<docker, length, ranged, disk, image, next, last, clean, faults>>

\* Mutant: what is there is not emptied.
head_appending(n) ==
    /\ at = "head"
    /\ disk' = [disk EXCEPT !.there = TRUE]
    /\ partial_range(n)
    /\ at' = "get"
    /\ IF n = length THEN UNCHANGED <<clean, faults>> ELSE Fault /\ clean' = FALSE
    /\ UNCHANGED <<docker, length, ranged, image>>

\* HEAD tells the length n, File::create empties the file and keeps its mode.
head(n) ==
    /\ at = "head"
    /\ disk' = [disk EXCEPT !.there = TRUE, !.units = <<>>]
    /\ partial_range(n)
    /\ at' = "get"
    /\ IF n = length THEN UNCHANGED <<clean, faults>> ELSE Fault /\ clean' = FALSE
    /\ UNCHANGED <<docker, length, ranged, image>>

\* With overflow checks the subtraction for an empty file panics instead.
head_panics ==
    /\ Goes("head", "aborted")
    /\ length = 0
    /\ disk' = [disk EXCEPT !.there = TRUE, !.units = <<>>]
    /\ UNCHANGED <<docker, length, ranged, image, next, last, clean, faults>>

\* The request fails, there is no Content-Length, or the file cannot be created.
head_fails ==
    /\ Goes("head", "failed")
    /\ Fault
    /\ UNCHANGED <<docker, length, ranged, disk, image, next, last, clean>>

Fits(units) == Len(disk.units) + Len(units) <= DiskSize

\* A range was answered with 200 or 206 and these units.
Receive(units) ==
    /\ at = "get" /\ MoreRanges /\ Fits(units)
    /\ disk' = [disk EXCEPT !.units = @ \o units]
    /\ next' = after_range
    /\ UNCHANGED <<docker, length, ranged, at, image, last>>

get == ~Unsatisfiable /\ Receive(Body) /\ UNCHANGED <<clean, faults>>

\* 200 and something else, a page of the server for instance.
get_other == Receive(<<0>>) /\ Fault /\ clean' = FALSE

\* Another status ends the loop, not the attempt.
StopGetting ==
    /\ Goes("get", "written")
    /\ UNCHANGED <<docker, length, ranged, disk, image, next, last>>

get_unsatisfiable == MoreRanges /\ Unsatisfiable /\ StopGetting /\ UNCHANGED <<clean, faults>>

get_bad_status == MoreRanges /\ StopGetting /\ Fault /\ clean' = FALSE

\* The disk takes what it has room for, then io::copy returns an error.
disk_full ==
    /\ Goes("get", "failed")
    /\ MoreRanges /\ ~Unsatisfiable /\ ~Fits(Body)
    /\ disk' = [disk EXCEPT !.units = SubSeq(@ \o Body, 1, DiskSize)]
    /\ UNCHANGED <<docker, length, ranged, image, next, last, clean, faults>>

\* The connection breaks, after a part of the answer perhaps.
get_fails ==
    /\ Goes("get", "failed")
    /\ MoreRanges
    /\ Fault
    /\ \E part \in {SubSeq(Body, 1, n) : n \in 0 .. Len(Body)} :
          Fits(part) /\ disk' = [disk EXCEPT !.units = @ \o part]
    /\ UNCHANGED <<docker, length, ranged, image, next, last, clean>>

get_done == ~MoreRanges /\ StopGetting /\ UNCHANGED <<clean, faults>>

\* set_permissions
set_permissions ==
    /\ Goes("written", "verify")
    /\ disk' = [disk EXCEPT !.executable = TRUE]
    /\ UNCHANGED <<docker, length, ranged, image, next, last, clean, faults>>

\* "check file hash"
verify ==
    /\ at = "verify"
    /\ at' = IF HashMatches THEN "ready" ELSE "failed"
    /\ UNCHANGED <<docker, length, ranged, disk, image, next, last, clean, faults>>

\* The rest of the answer, the permissions or the file cannot be read or set.
verify_fails ==
    /\ at \in {"written", "verify"} /\ at' = "failed"
    /\ Fault
    /\ UNCHANGED <<docker, length, ranged, disk, image, next, last, clean>>

\* The outcome is known: ready starts the application, failed waits for a head.
return ==
    /\ at \in {"ready", "failed"} /\ at' = "idle"
    /\ UNCHANGED <<docker, length, ranged, disk, image, next, last, clean, faults>>

\* The node stops, at whatever step, and starts again. After a task that ended
\* early this is the operator's remedy, not a fault.
crash ==
    /\ at # "idle" /\ at' = "idle"
    /\ IF at = "aborted" THEN UNCHANGED faults ELSE Fault
    /\ UNCHANGED <<docker, length, ranged, disk, image, next, last, clean>>

DownloadStep ==
    \/ begin \/ check \/ pull \/ recheck \/ head(length)
    \/ get \/ get_unsatisfiable \/ disk_full \/ get_done \/ set_permissions \/ verify \/ return

DownloadNext ==
    \/ DownloadStep
    \/ \E n \in Lengths \ {length} : head(n)
    \/ check_fails \/ docker_aborts \/ head_panics \/ head_fails
    \/ get_other \/ get_bad_status \/ get_fails \/ verify_fails \/ crash

\* Heads keep coming and the executor runs the task.
DownloadSpec == DownloadInit /\ [][DownloadNext]_downloadVars /\ WF_downloadVars(DownloadStep)

----------------------------------------------------------------------------
(* What makes the download correct.                                        *)

\* The ranges, computed with wrapping arithmetic from the length, are the file in
\* order, each unit once: when every answer was the one asked for, what is on the
\* disk is what was published. A server without ranges sends the whole file for
\* each range, so for it the file must fit one range.
RangesCoverFile ==
    at = "written" /\ clean /\ (ranged \/ length \in 1 .. ChunkSize) =>
        disk.units = Published

Copy == IF docker THEN image ELSE HashMatches /\ at # "get"

Task ==
    CASE at = "idle" -> "none"
      [] at \in {"ready", "failed", "aborted"} -> at
      [] OTHER -> "trying"

Abstract == INSTANCE VerifiedDownload WITH task <- Task, copy <- Copy

\* Whatever the server answers and wherever the node crashes, an application is
\* started from a file with the registered hash only, and such a file is not
\* downloaded, emptied or overwritten again.
ImplementsVerifiedDownload == Abstract!Spec

\* From whatever a crash or a wrong answer left behind, the download gets through
\* again and again once the faults end, unless the task ended without resetting
\* its status. The server must serve ranges or the file fit one; the ranges of an
\* empty file never end without a server that refuses them.
DownloadRecovers ==
    length # 0 /\ (ranged \/ length <= ChunkSize) => []<>(at = "ready") \/ <>[](at = "aborted")

----------------------------------------------------------------------------
(* What the repository says and the code does not do.                      *)

\* expect("failed to execute process"): the file that is going to be started can
\* be executed. The permissions are set after the file is complete, and nobody
\* sets them when its hash already matches.
ReadyIsExecutable == at = "ready" /\ ~docker => disk.executable
=============================================================================
