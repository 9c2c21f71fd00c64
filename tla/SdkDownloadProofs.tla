-------------------------- MODULE SdkDownloadProofs --------------------------
(***************************************************************************)
(* For files of any length, ranges of any size, any number of wrong        *)
(* answers, errors and crashes: a download does what the container task    *)
(* takes it to do (VerifiedDownload), and the ranges it asks for are the   *)
(* file.                                                                   *)
(***************************************************************************)
EXTENDS SdkDownload, SequenceTheorems, TLAPS

FileSteps == {"head", "get", "written", "verify"}
ImageSteps == {"pull", "recheck"}

DownloadTypeOK ==
    /\ docker \in BOOLEAN /\ ranged \in BOOLEAN /\ image \in BOOLEAN /\ clean \in BOOLEAN
    /\ length \in Lengths
    /\ at \in FileSteps \cup ImageSteps \cup {"idle", "check", "ready", "failed", "aborted"}
    /\ disk \in [there : BOOLEAN, units : Seq(Nat), executable : BOOLEAN]
    /\ next \in Nat /\ last \in Nat

\* What the refinement rests on: an attempt for an image never touches the file,
\* the file is emptied only when its hash does not match, and what is started has
\* been verified since it was last written.
DownloadInv ==
    /\ DownloadTypeOK
    /\ docker => at \notin FileSteps
    /\ ~docker => at \notin ImageSteps
    /\ at = "head" => ~HashMatches
    /\ at = "ready" => Copy

----------------------------------------------------------------------------
(* Types.                                                                  *)

\* Lengths and positions fit the width of a word.
LEMMA Bounds ==
  /\ Word \in Nat /\ ChunkSize \in Nat /\ 0 < ChunkSize /\ ChunkSize < Word
  /\ \A n \in Lengths : n \in Nat /\ n < Word
  BY DownloadAssumption

\* What the arithmetic on positions yields: a remainder below the modulus, the
\* number itself when it is small, and what wrapped around once.
LEMMA ModFacts ==
  /\ \A m \in Nat, n \in Nat \ {0} : m % n \in 0 .. n - 1
  /\ \A m, n \in Nat : m < n => m % n = m
  /\ \A m, n \in Nat : m < n => (m + n) % n = m
  OBVIOUS

\* The published file is a sequence of its units.
LEMMA PublishedType ==
  ASSUME length \in Lengths
  PROVE  Published \in Seq(Nat) /\ Len(Published) = length
  BY Bounds DEF Published

\* PartialRangeIter::next moves to a position of the width of a word.
LEMMA AfterRangeType ==
  ASSUME next \in Nat, last \in Nat, MoreRanges
  PROVE  after_range \in 0 .. Word - 1
<1>1. (last - next + 1) % Word \in Nat
  BY Bounds, ModFacts DEF MoreRanges
<1>2. Smaller(ChunkSize, (last - next + 1) % Word) \in Nat
  BY <1>1, Bounds DEF Smaller
<1>3. next + Smaller(ChunkSize, (last - next + 1) % Word) \in Nat /\ Word \in Nat \ {0}
  BY <1>2, Bounds
<1> QED
  BY <1>3, ModFacts DEF after_range

\* What the server sends for a range is a sequence of units.
LEMMA BodyType ==
  ASSUME length \in Lengths, next \in Nat, last \in Nat, MoreRanges
  PROVE  Body \in Seq(Nat)
<1>1. Published \in Seq(Nat) /\ Len(Published) = length /\ length \in Nat
  BY PublishedType, Bounds
<1>2. after_range + Word - 1 \in Nat /\ Word \in Nat \ {0}
  BY AfterRangeType, Bounds
<1>3. range_end \in Nat
  BY <1>2, ModFacts DEF range_end
<1> DEFINE n == Smaller(range_end + 1, length)
<1>4. n \in Nat /\ n <= length
  BY <1>1, <1>3 DEF Smaller
<1> HIDE DEF n
<1>5. \A i \in next + 1 .. n : Published[i] \in Nat
  BY <1>1, <1>4
<1>6. SubSeq(Published, next + 1, n) \in Seq(Nat)
  BY <1>4, <1>5, SubSeqProperties
<1> QED
  BY <1>1, <1>6 DEF Body, Slice, n

\* So is a part of it.
LEMMA PartType ==
  ASSUME NEW s \in Seq(Nat), NEW n \in 0 .. Len(s)
  PROVE  SubSeq(s, 1, n) \in Seq(Nat)
<1>1. \A i \in 1 .. n : s[i] \in Nat
  BY LenProperties
<1> QED
  BY <1>1, SubSeqProperties

\* What arrives is appended to the file.
LEMMA AppendedType ==
  ASSUME DownloadTypeOK, NEW s \in Seq(Nat)
  PROVE  [disk EXCEPT !.units = @ \o s] \in [there : BOOLEAN, units : Seq(Nat), executable : BOOLEAN]
<1>1. disk.units \o s \in Seq(Nat)
  BY ConcatProperties DEF DownloadTypeOK
<1> QED
  BY <1>1 DEF DownloadTypeOK

\* File::create leaves an empty file.
LEMMA EmptiedType ==
  ASSUME DownloadTypeOK
  PROVE  [disk EXCEPT !.there = TRUE, !.units = <<>>]
            \in [there : BOOLEAN, units : Seq(Nat), executable : BOOLEAN]
<1> DEFINE d == [disk EXCEPT !.there = TRUE]
<1>1. d \in [there : BOOLEAN, units : Seq(Nat), executable : BOOLEAN]
  BY DEF DownloadTypeOK
<1> DEFINE e == <<>>
<1>2. e \in Seq(Nat)
  OBVIOUS
<1> HIDE DEF d, e
<1>3. [d EXCEPT !.units = e] \in [there : BOOLEAN, units : Seq(Nat), executable : BOOLEAN]
  BY <1>1, <1>2
<1> QED
  BY <1>3 DEF d, e

\* A range that was received leaves a state of the right type.
LEMMA ReceiveType ==
  ASSUME DownloadTypeOK, NEW s \in Seq(Nat), Receive(s), clean' \in BOOLEAN
  PROVE  DownloadTypeOK'
<1>1. disk' \in [there : BOOLEAN, units : Seq(Nat), executable : BOOLEAN]
  BY AppendedType DEF Receive
<1>2. next' \in Nat
  BY AfterRangeType, Bounds DEF Receive, DownloadTypeOK
<1> QED
  BY <1>1, <1>2 DEF Receive, DownloadTypeOK

----------------------------------------------------------------------------
(* The invariant.                                                          *)

\* A step that leaves the file and the image alone, and does not begin to empty
\* the file or claim it to be ready, keeps the invariant.
LEMMA QuietDownload ==
  ASSUME DownloadInv, UNCHANGED <<docker, length, ranged, disk, image>>,
         clean' \in BOOLEAN, next' \in Nat, last' \in Nat,
         at' \in {"idle", "check", "failed", "aborted", "written", "get"} \cup ImageSteps,
         docker => at' \notin FileSteps, ~docker => at' \notin ImageSteps
  PROVE  DownloadInv'
<1>1. DownloadTypeOK'
  BY DEF DownloadInv, DownloadTypeOK, FileSteps, ImageSteps
<1>2. at' # "head" /\ at' # "ready"
  BY DEF ImageSteps
<1> QED
  BY <1>1, <1>2 DEF DownloadInv

\* So does a step of the attempt that writes the file.
LEMMA WritingDownload ==
  ASSUME DownloadInv, ~docker, UNCHANGED <<docker, length, ranged, image>>,
         disk' \in [there : BOOLEAN, units : Seq(Nat), executable : BOOLEAN],
         clean' \in BOOLEAN, next' \in Nat, last' \in Nat,
         at' \in {"get", "verify", "failed", "aborted"}
  PROVE  DownloadInv'
<1>1. DownloadTypeOK'
  BY DEF DownloadInv, DownloadTypeOK, FileSteps, ImageSteps
<1>2. at' # "head" /\ at' # "ready" /\ at' \notin ImageSteps
  BY DEF ImageSteps
<1> QED
  BY <1>1, <1>2 DEF DownloadInv

\* What the container task starts from.
LEMMA DownloadInitInv == DownloadInit => DownloadInv
<1> SUFFICES ASSUME DownloadInit PROVE DownloadInv
  OBVIOUS
<1>1. NoFile \in [there : BOOLEAN, units : Seq(Nat), executable : BOOLEAN]
  BY DEF NoFile
<1>2. DownloadTypeOK
  BY <1>1 DEF DownloadInit, DownloadTypeOK
<1> QED
  BY <1>2 DEF DownloadInit, DownloadInv, FileSteps, ImageSteps

\* Every step of the task, and every fault, keeps the invariant.
LEMMA DownloadNextInv == DownloadInv /\ [DownloadNext]_downloadVars => DownloadInv'
<1> SUFFICES ASSUME DownloadInv, [DownloadNext]_downloadVars
             PROVE  DownloadInv'
  OBVIOUS
<1>1. /\ DownloadTypeOK
      /\ docker => at \notin FileSteps
      /\ ~docker => at \notin ImageSteps
      /\ at = "head" => ~HashMatches
      /\ at = "ready" => Copy
  BY DEF DownloadInv
<1> USE DEF FileSteps, ImageSteps
<1>2. next \in Nat /\ last \in Nat /\ clean \in BOOLEAN /\ length \in Lengths
  BY <1>1 DEF DownloadTypeOK
<1>3. at \in {"head", "get", "written", "verify"} => ~docker
  BY <1>1
<1>begin. CASE begin
  BY <1>1, <1>2, <1>begin, QuietDownload DEF begin, Goes
<1>check. CASE check
  <2>1. DownloadTypeOK'
    BY <1>1, <1>check DEF check, DownloadTypeOK
  <2>2. HashMatches' <=> HashMatches
    BY <1>check DEF check, HashMatches, Published
  <2>3. Copy' <=> IF docker THEN image ELSE HashMatches /\ at' # "get"
    BY <1>check, <2>2 DEF check, Copy
  <2> QED
    BY <1>1, <1>check, <2>1, <2>2, <2>3 DEF check, DownloadInv, need_download
<1>pull. CASE pull
  <2>1. DownloadTypeOK'
    BY <1>1, <1>pull DEF pull, Goes, DownloadTypeOK
  <2> QED
    BY <1>1, <1>pull, <2>1 DEF pull, Goes, DownloadInv
<1>recheck. CASE recheck
  <2>1. DownloadTypeOK'
    BY <1>1, <1>recheck DEF recheck, DownloadTypeOK
  <2>2. docker
    BY <1>1, <1>recheck DEF recheck
  <2> QED
    BY <1>1, <1>recheck, <2>1, <2>2 DEF recheck, DownloadInv, Copy
<1>head. ASSUME NEW n \in Lengths, head(n)
         PROVE  DownloadInv'
  <2>1. disk' \in [there : BOOLEAN, units : Seq(Nat), executable : BOOLEAN]
    BY <1>1, <1>head, EmptiedType DEF head
  <2>2. n + Word - 1 \in Nat /\ Word \in Nat \ {0}
    BY <1>head, Bounds
  <2>3. next' \in Nat /\ last' \in Nat
    BY <1>head, <2>2, ModFacts DEF head, partial_range
  <2> QED
    BY <1>2, <1>3, <1>head, <2>1, <2>3, WritingDownload DEF head
<1>receive. ASSUME NEW s \in Seq(Nat), Receive(s), clean' \in BOOLEAN
            PROVE  DownloadInv'
  <2>1. DownloadTypeOK'
    BY <1>1, <1>receive, ReceiveType
  <2> QED
    BY <1>1, <1>3, <1>receive, <2>1 DEF Receive, DownloadInv
<1>get. CASE get
  <2>1. Body \in Seq(Nat)
    BY <1>2, <1>get, BodyType DEF get, Receive
  <2> QED
    BY <1>2, <1>get, <1>receive, <2>1 DEF get
<1>get_other. CASE get_other
  <2>1. <<0>> \in Seq(Nat)
    OBVIOUS
  <2> QED
    BY <1>get_other, <1>receive, <2>1 DEF get_other
<1>stop. CASE get_unsatisfiable \/ get_bad_status \/ get_done
  BY <1>1, <1>2, <1>3, <1>stop, QuietDownload
     DEF get_unsatisfiable, get_bad_status, get_done, StopGetting, Goes
<1>disk_full. CASE disk_full
  <2>1. Body \in Seq(Nat)
    BY <1>2, <1>disk_full, BodyType DEF disk_full
  <2>2. disk.units \o Body \in Seq(Nat) /\ Len(disk.units \o Body) = Len(disk.units) + Len(Body)
    BY <1>1, <2>1, ConcatProperties DEF DownloadTypeOK
  <2>3. DiskSize \in 0 .. Len(disk.units \o Body)
    <3>1. DiskSize \in Nat /\ Len(disk.units) \in Nat /\ Len(Body) \in Nat
      BY <1>1, <2>1, LenProperties, DownloadAssumption DEF DownloadTypeOK
    <3> QED
      BY <1>disk_full, <2>2, <3>1 DEF disk_full, Fits
  <2>4. SubSeq(disk.units \o Body, 1, DiskSize) \in Seq(Nat)
    BY <2>2, <2>3, PartType
  <2>5. disk' \in [there : BOOLEAN, units : Seq(Nat), executable : BOOLEAN]
    BY <1>1, <1>disk_full, <2>4 DEF disk_full, DownloadTypeOK
  <2> QED
    BY <1>2, <1>3, <1>disk_full, <2>5, WritingDownload DEF disk_full, Goes
<1>get_fails. CASE get_fails
  <2>1. Body \in Seq(Nat)
    BY <1>2, <1>get_fails, BodyType DEF get_fails
  <2>2. PICK n \in 0 .. Len(Body) : disk' = [disk EXCEPT !.units = @ \o SubSeq(Body, 1, n)]
    BY <1>get_fails DEF get_fails
  <2>3. disk' \in [there : BOOLEAN, units : Seq(Nat), executable : BOOLEAN]
    BY <1>1, <2>1, <2>2, PartType, AppendedType
  <2> QED
    BY <1>2, <1>3, <1>get_fails, <2>3, WritingDownload DEF get_fails, Goes
<1>set_permissions. CASE set_permissions
  <2>1. disk' \in [there : BOOLEAN, units : Seq(Nat), executable : BOOLEAN]
    BY <1>1, <1>set_permissions DEF set_permissions, DownloadTypeOK
  <2> QED
    BY <1>2, <1>3, <1>set_permissions, <2>1, WritingDownload DEF set_permissions, Goes
<1>verify. CASE verify
  <2>1. DownloadTypeOK'
    BY <1>1, <1>verify DEF verify, DownloadTypeOK
  <2>2. HashMatches' <=> HashMatches
    BY <1>verify DEF verify, HashMatches, Published
  <2> QED
    BY <1>1, <1>3, <1>verify, <2>1, <2>2 DEF verify, DownloadInv, Copy
<1>quiet. CASE check_fails \/ docker_aborts \/ head_fails \/ verify_fails \/ return \/ crash
  BY <1>1, <1>2, <1>quiet, QuietDownload
     DEF check_fails, docker_aborts, head_fails, verify_fails, return, crash, Goes
<1>head_panics. CASE head_panics
  <2>1. disk' \in [there : BOOLEAN, units : Seq(Nat), executable : BOOLEAN]
    BY <1>1, <1>head_panics, EmptiedType DEF head_panics
  <2> QED
    BY <1>2, <1>3, <1>head_panics, <2>1, WritingDownload DEF head_panics, Goes
<1>stutter. CASE UNCHANGED downloadVars
  BY <1>1, <1>stutter
     DEF downloadVars, DownloadInv, DownloadTypeOK, HashMatches, Published, Copy
<1> QED
  BY <1>begin, <1>check, <1>pull, <1>recheck, <1>head, <1>get, <1>get_other, <1>stop,
     <1>disk_full, <1>get_fails, <1>set_permissions, <1>verify, <1>quiet, <1>head_panics,
     <1>stutter, <1>2 DEF DownloadNext, DownloadStep

\* So it holds throughout, with any number of faults.
LEMMA DownloadInvariance == DownloadSpec => []DownloadInv
  BY DownloadInitInv, DownloadNextInv, PTL DEF DownloadSpec

----------------------------------------------------------------------------
(* The refinement.                                                         *)

\* Nothing is there before the first attempt.
LEMMA DownloadInitAbstract == DownloadInit => Abstract!Init
  BY DEF DownloadInit, Abstract!Init, Task, Copy, HashMatches, NoFile

\* Every step of the task is a step of the abstract download, or none of it.
LEMMA DownloadNextAbstract ==
  DownloadInv /\ [DownloadNext]_downloadVars => [Abstract!Next]_<<Task, Copy>>
<1> SUFFICES ASSUME DownloadInv, [DownloadNext]_downloadVars
             PROVE  [Abstract!Next]_<<Task, Copy>>
  OBVIOUS
<1>1. /\ docker => at \notin FileSteps
      /\ ~docker => at \notin ImageSteps
      /\ at = "head" => ~HashMatches
      /\ at = "ready" => Copy
      /\ image \in BOOLEAN /\ docker \in BOOLEAN
  BY DEF DownloadInv, DownloadTypeOK
<1> USE DEF FileSteps, ImageSteps
<1>same. ASSUME UNCHANGED <<length, disk>>
         PROVE  HashMatches' <=> HashMatches
  BY <1>same DEF HashMatches, Published
<1>begin. CASE begin
  BY <1>1, <1>begin, <1>same DEF begin, Goes, Abstract!Next, Abstract!Begin, Task, Copy
<1>check. CASE check
  BY <1>1, <1>check, <1>same
     DEF check, Abstract!Next, Abstract!Obtain, Abstract!Deliver, Abstract!Kept, Task, Copy, need_download
<1>pull. CASE pull
  BY <1>1, <1>pull DEF pull, Goes, Abstract!Next, Abstract!Obtain, Abstract!Kept, Task, Copy
<1>recheck. CASE recheck
  BY <1>1, <1>recheck, <1>same
     DEF recheck, Abstract!Next, Abstract!Deliver, Abstract!GiveUp, Abstract!Kept, Task, Copy
<1>head. ASSUME NEW n \in Lengths, head(n)
         PROVE  Abstract!Next
  BY <1>1, <1>head DEF head, Abstract!Next, Abstract!Obtain, Abstract!Kept, Task, Copy
<1>receive. ASSUME NEW s, Receive(s)
            PROVE  Abstract!Next
  BY <1>1, <1>receive DEF Receive, Abstract!Next, Abstract!Obtain, Abstract!Kept, Task, Copy
<1>get. CASE get \/ get_other
  BY <1>get, <1>receive DEF get, get_other
<1>stop. CASE get_unsatisfiable \/ get_bad_status \/ get_done
  BY <1>1, <1>stop DEF get_unsatisfiable, get_bad_status, get_done, StopGetting, Goes,
     Abstract!Next, Abstract!Obtain, Abstract!Kept, Task, Copy
<1>fails. CASE disk_full \/ get_fails
  BY <1>1, <1>fails DEF disk_full, get_fails, Goes,
     Abstract!Next, Abstract!GiveUp, Abstract!Kept, Task, Copy
<1>set_permissions. CASE set_permissions
  <2>1. HashMatches => HashMatches'
    BY <1>set_permissions DEF set_permissions, HashMatches, Published
  <2> QED
    BY <1>1, <1>set_permissions, <2>1 DEF set_permissions, Goes,
       Abstract!Next, Abstract!Obtain, Abstract!Kept, Task, Copy
<1>verify. CASE verify
  BY <1>1, <1>verify, <1>same
     DEF verify, Abstract!Next, Abstract!Deliver, Abstract!GiveUp, Abstract!Kept, Task, Copy
<1>gives_up. CASE check_fails \/ docker_aborts \/ head_fails \/ verify_fails
  BY <1>1, <1>gives_up, <1>same DEF check_fails, docker_aborts, head_fails, verify_fails, Goes,
     Abstract!Next, Abstract!GiveUp, Abstract!Kept, Task, Copy
<1>head_panics. CASE head_panics
  BY <1>1, <1>head_panics DEF head_panics, Goes,
     Abstract!Next, Abstract!GiveUp, Abstract!Kept, Task, Copy
<1>return. CASE return
  BY <1>1, <1>return, <1>same DEF return, Abstract!Next, Abstract!Return, Task, Copy
<1>crash. CASE crash
  BY <1>1, <1>crash, <1>same DEF crash, Abstract!Next, Abstract!Crash, Abstract!Kept, Task, Copy
<1>stutter. CASE UNCHANGED downloadVars
  BY <1>stutter DEF downloadVars, Task, Copy, HashMatches, Published
<1> QED
  BY <1>begin, <1>check, <1>pull, <1>recheck, <1>head, <1>get, <1>stop, <1>fails,
     <1>set_permissions, <1>verify, <1>gives_up, <1>head_panics, <1>return, <1>crash,
     <1>stutter DEF DownloadNext, DownloadStep, DownloadInv, DownloadTypeOK

\* For every file, every server and every sequence of faults: a download that is
\* ready has left a copy with the registered hash, and such a copy is never
\* emptied or overwritten by a later attempt (process_download_task, download_sdk).
THEOREM DownloadVerified == DownloadSpec => ImplementsVerifiedDownload
<1>1. DownloadSpec => []DownloadInv
  BY DownloadInvariance
<1>2. DownloadSpec => Abstract!Init
  BY DownloadInitAbstract, PTL DEF DownloadSpec
<1>3. DownloadSpec => [][Abstract!Next]_<<Task, Copy>>
  BY <1>1, DownloadNextAbstract, PTL DEF DownloadSpec
<1> QED
  BY <1>2, <1>3, PTL DEF ImplementsVerifiedDownload, Abstract!Spec
----------------------------------------------------------------------------
(* The ranges.                                                             *)

\* The first n units of the published file.
Units(n) == [i \in 1 .. n |-> i]

\* The server and the file are such that every range is answered with what it
\* asks for.
Answered == ranged \/ length \in 1 .. ChunkSize

\* While ranges are fetched and every answer was the one asked for, the first
\* `next' units are on the disk and the rest of the file is still to be asked for.
\* A server without ranges has sent nothing or everything.
FetchInv ==
    at = "get" /\ clean /\ Answered =>
        /\ disk.units = Units(next)
        /\ next \in 0 .. length
        /\ length # 0 => last = length - 1
        /\ ranged \/ next \in {0, length}

RangesInv == DownloadInv /\ FetchInv /\ RangesCoverFile

\* They are as many as they say.
LEMMA UnitsType == \A n \in Nat : Units(n) \in Seq(Nat) /\ Len(Units(n)) = n
  BY DEF Units

\* Appending the units from m + 1 to n to the first m gives the first n.
LEMMA UnitsAppend ==
  ASSUME NEW L \in Nat, NEW m \in 0 .. L, NEW n \in m .. L
  PROVE  Units(m) \o SubSeq(Units(L), m + 1, n) = Units(n)
<1>1. /\ Units(m) \in Seq(Nat) /\ Len(Units(m)) = m
      /\ Units(n) \in Seq(Nat) /\ Len(Units(n)) = n
      /\ Units(L) \in Seq(Nat) /\ Len(Units(L)) = L
  BY UnitsType
<1> DEFINE z == SubSeq(Units(L), m + 1, n)
<1>2. \A i \in m + 1 .. n : Units(L)[i] \in Nat
  BY DEF Units
<1>3. z \in Seq(Nat) /\ Len(z) = n - m /\ \A i \in 1 .. n - m : z[i] = Units(L)[m + i]
  BY <1>2, SubSeqProperties
<1>4. \A i \in 1 .. n - m : z[i] = m + i
  BY <1>3 DEF Units
<1> HIDE DEF z
<1>5. /\ Units(m) \o z \in Seq(Nat) /\ Len(Units(m) \o z) = n
      /\ \A i \in 1 .. n : (Units(m) \o z)[i] = IF i <= m THEN Units(m)[i] ELSE z[i - m]
  <2> DEFINE u == Units(m)
  <2>1. u \in Seq(Nat) /\ Len(u) = m /\ z \in Seq(Nat) /\ Len(z) = n - m
    BY <1>1, <1>3
  <2> HIDE DEF u
  <2>2. /\ u \o z \in Seq(Nat) /\ Len(u \o z) = Len(u) + Len(z)
        /\ \A i \in 1 .. Len(u) + Len(z) :
              (u \o z)[i] = IF i <= Len(u) THEN u[i] ELSE z[i - Len(u)]
    BY <2>1, ConcatProperties
  <2>3. Len(u) + Len(z) = n
    BY <2>1
  <2>4. /\ u \o z \in Seq(Nat) /\ Len(u \o z) = n
        /\ \A i \in 1 .. n : (u \o z)[i] = IF i <= m THEN u[i] ELSE z[i - m]
    BY <2>1, <2>2, <2>3
  <2> QED
    BY <2>4 DEF u
<1>6. \A i \in 1 .. n : (Units(m) \o z)[i] = i
  BY <1>4, <1>5 DEF Units
<1>7. \A i \in 1 .. n : Units(n)[i] = i
  BY DEF Units
<1>8. Units(m) \o z = Units(n)
  BY <1>1, <1>5, <1>6, <1>7, SeqEqual
<1> QED
  BY <1>8 DEF z

\* The range at `next' and the position after it, when the last one is length - 1.
LEMMA NextRange ==
  ASSUME length \in Lengths, length # 0, last = length - 1, next \in 0 .. length, MoreRanges
  PROVE  /\ after_range = next + Smaller(ChunkSize, length - next)
         /\ after_range \in next + 1 .. length
         /\ range_end = after_range - 1
<1>1. length \in Nat /\ length < Word /\ next < length
  BY Bounds DEF MoreRanges
<1>2. (last - next + 1) % Word = length - next
  <2>1. last - next + 1 = length - next /\ length - next \in Nat /\ length - next < Word
    BY <1>1, Bounds
  <2> QED
    BY <2>1, Bounds, ModFacts
<1> DEFINE k == Smaller(ChunkSize, length - next)
<1>3. k \in 1 .. length - next
  BY <1>1, Bounds DEF Smaller
<1>4. after_range = (next + k) % Word
  BY <1>2 DEF after_range
<1> HIDE DEF k
<1>5. next + k \in Nat /\ next + k < Word /\ Word \in Nat
  BY <1>1, <1>3, Bounds
<1>6. after_range = next + k
  BY <1>4, <1>5, ModFacts
<1>7. after_range \in next + 1 .. length
  BY <1>1, <1>3, <1>6
<1>8. range_end = after_range - 1
  <2>1. after_range - 1 \in Nat /\ after_range - 1 < Word
    BY <1>1, <1>7, Bounds
  <2>2. after_range + Word - 1 = (after_range - 1) + Word
    BY <1>1, <1>7, Bounds
  <2> QED
    BY <2>1, <2>2, Bounds, ModFacts DEF range_end
<1> QED
  BY <1>6, <1>7, <1>8 DEF k

\* The file that is published is its units.
LEMMA PublishedUnits == Published = Units(length)
  BY DEF Published, Units

\* A range that was answered with what it asked for takes the file from its first
\* `next' units to its first after_range units.
LEMMA GetKeepsFetch ==
  ASSUME DownloadInv, FetchInv, get
  PROVE  FetchInv'
<1> SUFFICES ASSUME at' = "get", clean', Answered'
             PROVE  /\ disk'.units = Units(next')
                    /\ next' \in 0 .. length
                    /\ length # 0 => last' = length - 1
                    /\ ranged \/ next' \in {0, length}
  BY DEF FetchInv, get, Receive
<1>1. /\ at = "get" /\ clean /\ Answered /\ MoreRanges /\ ~Unsatisfiable
      /\ disk' = [disk EXCEPT !.units = @ \o Body]
      /\ next' = after_range /\ last' = last
  BY DEF get, Receive, Answered
<1>2. /\ disk.units = Units(next)
      /\ next \in 0 .. length
      /\ length # 0 => last = length - 1
      /\ ranged \/ next \in {0, length}
  BY <1>1 DEF FetchInv
<1>3. length \in Lengths /\ length \in Nat /\ disk.units \in Seq(Nat)
      /\ disk \in [there : BOOLEAN, units : Seq(Nat), executable : BOOLEAN]
  BY Bounds DEF DownloadInv, DownloadTypeOK
<1>4. length # 0 /\ last = length - 1 /\ next < length
  <2>1. length # 0
    BY <1>1, <1>2, <1>3 DEF Answered, Unsatisfiable
  <2> QED
    BY <2>1, <1>1, <1>2, <1>3 DEF MoreRanges
<1>5. /\ after_range = next + Smaller(ChunkSize, length - next)
      /\ after_range \in next + 1 .. length
      /\ range_end = after_range - 1
  BY <1>1, <1>2, <1>3, <1>4, NextRange
<1>6. disk'.units = disk.units \o Body
  BY <1>1, <1>3
<1>7. CASE ranged
  <2>1. Smaller(range_end + 1, length) = after_range
    BY <1>3, <1>5, <1>2 DEF Smaller
  <2>2. Body = SubSeq(Units(length), next + 1, after_range)
    BY <1>7, <2>1, PublishedUnits DEF Body, Slice
  <2>3. next \in 0 .. length /\ after_range \in next .. length
    BY <1>2, <1>3, <1>5
  <2>4. disk'.units = Units(after_range)
    BY <1>2, <1>3, <1>6, <2>2, <2>3, UnitsAppend
  <2>5. next' \in 0 .. length
    BY <1>1, <2>3, <1>3
  <2> QED
    BY <1>1, <1>4, <1>7, <2>4, <2>5
<1>8. CASE ~ranged
  <2>1. next = 0 /\ length \in 1 .. ChunkSize
    BY <1>1, <1>2, <1>4, <1>8 DEF Answered
  <2>2. after_range = length
    BY <1>3, <1>5, <2>1, Bounds DEF Smaller
  <2>3. disk'.units = Units(0) \o Units(length)
    BY <1>2, <1>6, <1>8, <2>1, PublishedUnits DEF Body
  <2>4. Units(0) = << >>
    <3>1. Units(0) \in Seq(Nat) /\ Len(Units(0)) = 0
      BY UnitsType
    <3> QED
      BY <3>1, EmptySeq
  <2>5. disk'.units = Units(length)
    BY <1>3, <2>3, <2>4, UnitsType, ConcatEmptySeq
  <2> QED
    BY <1>1, <1>3, <1>4, <2>2, <2>5
<1> QED
  BY <1>7, <1>8

\* A file that was emptied has its first 0 units.
LEMMA HeadStartsFetch ==
  ASSUME DownloadInv, NEW n \in Lengths, head(n)
  PROVE  FetchInv'
<1> SUFFICES ASSUME clean'
             PROVE  /\ disk'.units = Units(0)
                    /\ next' = 0
                    /\ length # 0 => last' = length - 1
  <2>1. length' = length /\ length \in Nat
    BY Bounds DEF head, DownloadInv, DownloadTypeOK
  <2> QED
    BY <2>1 DEF FetchInv
<1>1. n = length /\ next' = 0 /\ last' = (length + Word - 1) % Word
  BY DEF head, partial_range
<1>2. disk'.units = << >>
  <2> DEFINE e == << >>
             d == [disk EXCEPT !.there = TRUE]
  <2>1. d \in [there : BOOLEAN, units : Seq(Nat), executable : BOOLEAN]
    BY DEF DownloadInv, DownloadTypeOK
  <2>2. disk' = [d EXCEPT !.units = e]
    BY DEF head
  <2> HIDE DEF d, e
  <2>3. disk'.units = e
    BY <2>1, <2>2
  <2> QED
    BY <2>3 DEF e
<1>3. Units(0) = << >>
  <2>1. Units(0) \in Seq(Nat) /\ Len(Units(0)) = 0
    BY UnitsType
  <2> QED
    BY <2>1, EmptySeq
<1>4. length # 0 => last' = length - 1
  <2> SUFFICES ASSUME length # 0 PROVE last' = length - 1
    OBVIOUS
  <2>1. length \in Nat /\ length < Word /\ Word \in Nat
    BY Bounds DEF DownloadInv, DownloadTypeOK
  <2>2. length + Word - 1 = (length - 1) + Word /\ length - 1 \in Nat /\ length - 1 < Word
    BY <2>1
  <2> QED
    BY <1>1, <2>1, <2>2, ModFacts
<1> QED
  BY <1>1, <1>2, <1>3, <1>4

\* Nothing is fetched at the start.
LEMMA RangesInitInv == DownloadInit => RangesInv
<1> SUFFICES ASSUME DownloadInit PROVE RangesInv
  OBVIOUS
<1>1. DownloadInv
  BY DownloadInitInv
<1> QED
  BY <1>1 DEF RangesInv, FetchInv, RangesCoverFile, DownloadInit

\* Every step keeps what is fetched in order.
LEMMA RangesNextInv == RangesInv /\ [DownloadNext]_downloadVars => RangesInv'
<1> SUFFICES ASSUME RangesInv, [DownloadNext]_downloadVars
             PROVE  RangesInv'
  OBVIOUS
<1>1. DownloadInv /\ FetchInv /\ RangesCoverFile
  BY DEF RangesInv
<1>2. DownloadInv'
  BY <1>1, DownloadNextInv
<1>3. next \in Nat /\ last \in Nat /\ length \in Lengths /\ length \in Nat
  BY <1>1, Bounds DEF DownloadInv, DownloadTypeOK
<1>away. ASSUME at' \notin {"get", "written"}
         PROVE  RangesInv'
  BY <1>2, <1>away DEF RangesInv, FetchInv, RangesCoverFile
<1>unclean. ASSUME clean' = FALSE
            PROVE  RangesInv'
  BY <1>2, <1>unclean DEF RangesInv, FetchInv, RangesCoverFile
<1>quiet. CASE begin \/ check \/ pull \/ recheck \/ disk_full \/ set_permissions \/ verify
               \/ return \/ check_fails \/ docker_aborts \/ head_panics \/ head_fails
               \/ get_fails \/ verify_fails \/ crash
  <2>1. at' \notin {"get", "written"}
    BY <1>quiet DEF begin, check, pull, recheck, disk_full, set_permissions, verify, return,
       check_fails, docker_aborts, head_panics, head_fails, get_fails, verify_fails, crash, Goes
  <2> QED
    BY <2>1, <1>away
<1>head. ASSUME NEW n \in Lengths, head(n)
         PROVE  RangesInv'
  <2>1. FetchInv' /\ at' # "written"
    BY <1>1, <1>head, HeadStartsFetch DEF head
  <2> QED
    BY <1>2, <2>1 DEF RangesInv, RangesCoverFile
<1>get. CASE get
  <2>1. FetchInv' /\ at' # "written"
    BY <1>1, <1>get, GetKeepsFetch DEF get, Receive
  <2> QED
    BY <1>2, <2>1 DEF RangesInv, RangesCoverFile
<1>bad. CASE get_other \/ get_bad_status
  BY <1>bad, <1>unclean DEF get_other, get_bad_status
<1>stops. ASSUME StopGetting, UNCHANGED clean,
                 clean /\ Answered => disk.units = Published
          PROVE  RangesInv'
  <2>1. at' = "written" /\ UNCHANGED <<length, ranged, disk, clean>>
    BY <1>stops DEF StopGetting, Goes
  <2> QED
    BY <1>2, <1>stops, <2>1 DEF RangesInv, FetchInv, RangesCoverFile, Published, Answered
<1>get_unsatisfiable. CASE get_unsatisfiable
  <2>1. ASSUME clean, Answered
        PROVE  disk.units = Published
    <3>1. at = "get" /\ next <= last /\ next >= length /\ ranged
      BY <1>get_unsatisfiable DEF get_unsatisfiable, StopGetting, Goes, MoreRanges, Unsatisfiable
    <3>2. disk.units = Units(next) /\ next \in 0 .. length
      BY <1>1, <2>1, <3>1 DEF FetchInv
    <3>3. next = length
      BY <1>3, <3>1, <3>2
    <3> QED
      BY <3>2, <3>3, PublishedUnits
  <2> QED
    BY <1>stops, <1>get_unsatisfiable, <2>1 DEF get_unsatisfiable
<1>get_done. CASE get_done
  <2>1. ASSUME clean, Answered
        PROVE  disk.units = Published
    <3>1. at = "get" /\ ~(next <= last)
      BY <1>get_done DEF get_done, StopGetting, Goes, MoreRanges
    <3>2. /\ disk.units = Units(next) /\ next \in 0 .. length
          /\ length # 0 => last = length - 1
      BY <1>1, <2>1, <3>1 DEF FetchInv
    <3>3. next = length
      BY <1>3, <3>1, <3>2
    <3> QED
      BY <3>2, <3>3, PublishedUnits
  <2> QED
    BY <1>stops, <1>get_done, <2>1 DEF get_done
<1>stutter. CASE UNCHANGED downloadVars
  BY <1>1, <1>2, <1>stutter
     DEF downloadVars, RangesInv, FetchInv, RangesCoverFile, Answered, Published, Units
<1> QED
  BY <1>quiet, <1>head, <1>get, <1>bad, <1>get_unsatisfiable, <1>get_done, <1>stutter, <1>3
     DEF DownloadNext, DownloadStep

\* For a file of any length and ranges of any size: the ranges PartialRangeIter asks
\* for with its wrapping arithmetic are the file in order, each unit once.
THEOREM RangesAreTheFile == DownloadSpec => []RangesCoverFile
<1>1. DownloadSpec => []RangesInv
  BY RangesInitInv, RangesNextInv, PTL DEF DownloadSpec
<1>2. RangesInv => RangesCoverFile
  BY DEF RangesInv
<1> QED
  BY <1>1, <1>2, PTL
=============================================================================
