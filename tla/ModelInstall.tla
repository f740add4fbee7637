---------------------------- MODULE ModelInstall ----------------------------
(***************************************************************************)
(* model_install() and download_model(): several requests, on any replica  *)
(* of the gateway, to install one file on the shared models volume.  Each  *)
(* checks that the file is missing and that no live download is recorded,  *)
(* claims the status hash, and starts a thread that writes .<file>.part    *)
(* and renames it into place.                                              *)
(***************************************************************************)
EXTENDS Naturals, FiniteSets

CONSTANTS
  Installs,  \* the requests, each with the thread it may start
  Chunks,    \* how many reads the source's file takes
  None       \* no file

ASSUME ChunksAssumption == Chunks \in Nat \ {0}
ASSUME NoneAssumption == None \notin Installs

\* A file on the volume is an inode, named after the install that created it.
Inodes == Installs
Whole == 1 .. Chunks

VARIABLES
  place,    \* per install, where it is
  opened,   \* per install, the inode its thread writes
  received, \* per install, the chunks its thread has read
  status,   \* the status hash's status
  recent,   \* its updated_at is less than MODEL_INSTALL_STALE_SECONDS old
  part,     \* the inode under .<file>.part
  final,    \* the inode under the real name
  content,  \* per inode, the chunks of the file it holds
  cut,      \* history: the installs whose source closed early without an error
  met,      \* history: two threads of this file were alive at once
  died      \* history: the installs whose replica died under them

thread == <<place, opened, received>>
hash == <<status, recent>>
volume == <<part, final, content>>
past == <<cut, met, died>>
vars == <<thread, hash, volume, past>>

Places == {"idle", "missing", "claiming", "connecting", "reading", "renaming",
           "reporting", "failing", "over"}

TypeOK ==
  /\ place \in [Installs -> Places]
  /\ opened \in [Installs -> Inodes \cup {None}]
  /\ received \in [Installs -> 0 .. Chunks]
  /\ status \in {"none", "downloading", "done", "error"}
  /\ recent \in BOOLEAN
  /\ {part, final} \subseteq Inodes \cup {None}
  /\ content \in [Inodes -> SUBSET Whole]
  /\ cut \subseteq Installs
  /\ met \in BOOLEAN
  /\ died \subseteq Installs

Init ==
  /\ place = [i \in Installs |-> "idle"]
  /\ opened = [i \in Installs |-> None]
  /\ received = [i \in Installs |-> 0]
  /\ status = "none"
  /\ recent = FALSE
  /\ part = None
  /\ final = None
  /\ content = [n \in Inodes |-> {}]
  /\ cut = {}
  /\ met = FALSE
  /\ died = {}

Goto(i, there) == place' = [place EXCEPT ![i] = there]

-----------------------------------------------------------------------------
(* model_install() *)

CheckPresent(i) ==
  /\ place[i] = "idle"
  /\ Goto(i, IF final # None THEN "over" ELSE "missing")
  /\ UNCHANGED <<opened, received, hash, volume, past>>

\* A recent hash is a live download; an old one is a dead replica's leftover.
ReadStatus(i) ==
  /\ place[i] = "missing"
  /\ Goto(i, IF status = "downloading" /\ recent THEN "over" ELSE "claiming")
  /\ UNCHANGED <<opened, received, hash, volume, past>>

WriteStatus(s) == status' = s /\ recent' = TRUE

\* The thread of an install runs.
Alive(i) ==
  place[i] \in {"connecting", "reading", "renaming", "reporting", "failing"}

\* The claim is a write of its own: two requests may both have read the hash.
ClaimStatus(i) ==
  /\ place[i] = "claiming"
  /\ WriteStatus("downloading")
  /\ Goto(i, "connecting")
  /\ met' = (met \/ \E k \in Installs : Alive(k))
  /\ UNCHANGED <<opened, received, volume, cut, died>>

Tick ==
  /\ recent
  /\ recent' = FALSE
  /\ UNCHANGED <<thread, status, volume, past>>

-----------------------------------------------------------------------------
(* download_model() *)

\* open(part_path, "wb"): creates .part, or truncates the one that is there.
OpenPart(i) ==
  LET n == IF part = None THEN i ELSE part
  IN  /\ opened' = [opened EXCEPT ![i] = n]
      /\ part' = n
      /\ content' = [content EXCEPT ![n] = {}]

\* The source answers, and the first status write goes through.
Connect(i) ==
  /\ place[i] = "connecting"
  /\ WriteStatus("downloading")
  /\ OpenPart(i)
  /\ Goto(i, "reading")
  /\ UNCHANGED <<received, final, past>>

\* A progress report renews updated_at and leaves the status as it is.
Progress == recent' = TRUE /\ UNCHANGED status

\* Fault: the loop does not stop at the end of the file.
ReadPastEnd(i) ==
  /\ place[i] = "reading"
  /\ received' = [received EXCEPT ![i] = @ + 1]
  /\ content' = [content EXCEPT ![opened[i]] = @ \cup {received'[i]}]
  /\ Progress
  /\ UNCHANGED <<place, opened, part, final, past>>

\* A megabyte, written at this thread's own offset of the inode it opened.
ReadChunk(i) ==
  /\ place[i] = "reading"
  /\ received[i] < Chunks
  /\ received' = [received EXCEPT ![i] = @ + 1]
  /\ content' = [content EXCEPT ![opened[i]] = @ \cup {received'[i]}]
  /\ Progress
  /\ UNCHANGED <<place, opened, part, final, past>>

GotSomething(i) == received[i] > 0

\* An empty read is the end of the file, or of a connection that was cut: the
\* two look the same, and Content-Length is not compared with what came.
ReadEnd(i) ==
  /\ place[i] = "reading"
  /\ Goto(i, IF GotSomething(i) THEN "renaming" ELSE "failing")
  /\ cut' = IF received[i] < Chunks THEN cut \cup {i} ELSE cut
  /\ UNCHANGED <<opened, received, hash, volume, met, died>>

\* Fault: the file is published before its last chunk is in.
ReadFailsQuietly(i) ==
  /\ place[i] \in {"connecting", "reading"}
  /\ Goto(i, IF place[i] = "reading" THEN "renaming" ELSE "failing")
  /\ UNCHANGED <<opened, received, hash, volume, past>>

\* Refused, timed out, reset, not a safetensors file, over a limit, no space,
\* or a status write that Redis did not take.
DownloadFails(i) ==
  /\ place[i] \in {"connecting", "reading"}
  /\ Goto(i, "failing")
  /\ UNCHANGED <<opened, received, hash, volume, past>>

\* Fault: a .part that is not there any more is taken for one moved before.
RenameIfThere(i) ==
  /\ place[i] = "renaming"
  /\ final' = IF part # None THEN part ELSE final
  /\ part' = None
  /\ Goto(i, "reporting")
  /\ UNCHANGED <<opened, received, hash, content, past>>

\* rename() moves whatever inode .part names by now.
Rename(i) ==
  /\ place[i] = "renaming"
  /\ IF part # None
       THEN /\ final' = part
            /\ part' = None
            /\ Goto(i, "reporting")
       ELSE Goto(i, "failing") /\ UNCHANGED <<part, final>>
  /\ UNCHANGED <<opened, received, hash, content, past>>

\* The last status write, or the exception it raises.
ReportDone(i) ==
  /\ place[i] = "reporting"
  /\ \/ WriteStatus("done") /\ Goto(i, "over")
     \/ Goto(i, "failing") /\ UNCHANGED hash
  /\ UNCHANGED <<opened, received, volume, past>>

\* Fault: the handler only reports.
KeepPart == UNCHANGED part

UnlinkPart == part' = None

\* The one convergence point: .part unlinked, the error written, or not when
\* it is Redis that failed.
Fail(i) ==
  /\ place[i] = "failing"
  /\ UnlinkPart
  /\ WriteStatus("error") \/ UNCHANGED hash
  /\ Goto(i, "over")
  /\ UNCHANGED <<opened, received, final, content, past>>

\* The replica dies, and its daemon threads with it.
Die(i) ==
  /\ place[i] \notin {"idle", "over"}
  /\ Goto(i, "over")
  /\ died' = died \cup {i}
  /\ UNCHANGED <<opened, received, hash, volume, cut, met>>

Download(i) ==
  \/ Connect(i) \/ ReadChunk(i) \/ ReadEnd(i) \/ DownloadFails(i)
  \/ Rename(i) \/ ReportDone(i) \/ Fail(i)

Next ==
  \/ Tick
  \/ \E i \in Installs :
       CheckPresent(i) \/ ReadStatus(i) \/ ClaimStatus(i) \/ Download(i) \/ Die(i)

Spec == Init /\ [][Next]_vars

-----------------------------------------------------------------------------

Published == final # None

\* A checkpoint under the real name is torn only by what the code does not
\* look for: downloads of one file that overlapped, or a source that stopped
\* early without an error.  An error, an empty answer, a death, a retry or an
\* outage of Redis at any step never publishes a part of a file.
TornOnlyUnseen ==
  Published /\ content[final] # Whole => met \/ cut # {}

\* A status of "done" is never a lie about the file being there, whichever of
\* several downloads wrote it last.
DoneMeansPresent == status = "done" => Published

\* Downloads that ended leave no .part on the volume, except a dead replica's,
\* which the next download of the file truncates.
PartCleanedUp ==
  (\A i \in Installs : place[i] \in {"idle", "over"}) /\ part # None
    => died # {}

\* The scan ComfyUI runs never sees a half-written checkpoint under the real
\* name.
NeverHalfWritten == Published => content[final] = Whole
=============================================================================
