------------------------- MODULE ModelInstallProofs -------------------------
(***************************************************************************)
(* What several downloads of one file leave on the models volume, for any  *)
(* number of requests and any size of the file.                            *)
(***************************************************************************)
EXTENDS ModelInstall, TLAPS

-----------------------------------------------------------------------------
(* Types *)

LEMMA TypeInit == Init => TypeOK
<1> SUFFICES ASSUME Init PROVE TypeOK
  OBVIOUS
<1>1. 0 \in 0 .. Chunks
  BY ChunksAssumption
<1>2. received \in [Installs -> 0 .. Chunks]
  BY <1>1 DEF Init
<1>3. content \in [Inodes -> SUBSET Whole]
  BY DEF Init
<1> QED
  BY <1>2, <1>3 DEF Init, TypeOK, Places

LEMMA TypeDownload ==
  ASSUME TypeOK, NEW i \in Installs, Download(i)
  PROVE  TypeOK'
<1> USE DEF TypeOK, Places, Inodes, Goto
<1>1. CASE Connect(i)
  BY <1>1 DEF Connect, WriteStatus, OpenPart, past
<1>2. CASE ReadChunk(i)
  <2>1. /\ received' = [received EXCEPT ![i] = @ + 1]
        /\ content' = [content EXCEPT ![opened[i]] = @ \cup {received'[i]}]
        /\ recent' = TRUE
        /\ UNCHANGED <<place, opened, status, part, final, cut, met, died>>
    BY <1>2 DEF ReadChunk, Progress, past
  <2>2. received[i] + 1 \in 0 .. Chunks /\ received[i] + 1 \in Whole
    BY <1>2, ChunksAssumption DEF ReadChunk, Whole
  <2>3. received' \in [Installs -> 0 .. Chunks] /\ received'[i] \in Whole
    BY <2>1, <2>2
  <2>4. content' \in [Inodes -> SUBSET Whole]
    BY <2>1, <2>3
  <2> QED
    BY <2>1, <2>3, <2>4
<1>3. CASE ReadEnd(i)
  BY <1>3 DEF ReadEnd, hash, volume
<1>4. CASE DownloadFails(i)
  BY <1>4 DEF DownloadFails, hash, volume, past
<1>5. CASE Rename(i)
  BY <1>5 DEF Rename, hash, past
<1>6. CASE ReportDone(i)
  BY <1>6 DEF ReportDone, WriteStatus, hash, volume, past
<1>7. CASE Fail(i)
  BY <1>7 DEF Fail, UnlinkPart, WriteStatus, hash, past
<1> QED
  BY <1>1, <1>2, <1>3, <1>4, <1>5, <1>6, <1>7 DEF Download

LEMMA TypeStep == TypeOK /\ [Next]_vars => TypeOK'
<1> SUFFICES ASSUME TypeOK, [Next]_vars PROVE TypeOK'
  OBVIOUS
<1>1. CASE Tick
  BY <1>1 DEF TypeOK, Tick, thread, volume, past
<1>2. ASSUME NEW i \in Installs, CheckPresent(i) PROVE TypeOK'
  BY <1>2 DEF TypeOK, CheckPresent, Goto, Places, hash, volume, past
<1>3. ASSUME NEW i \in Installs, ReadStatus(i) PROVE TypeOK'
  BY <1>3 DEF TypeOK, ReadStatus, Goto, Places, hash, volume, past
<1>4. ASSUME NEW i \in Installs, ClaimStatus(i) PROVE TypeOK'
  BY <1>4 DEF TypeOK, ClaimStatus, WriteStatus, Goto, Places, volume
<1>5. ASSUME NEW i \in Installs, Download(i) PROVE TypeOK'
  BY <1>5, TypeDownload
<1>6. ASSUME NEW i \in Installs, Die(i) PROVE TypeOK'
  BY <1>6 DEF TypeOK, Die, Goto, Places, hash, volume
<1>7. CASE UNCHANGED vars
  BY <1>7 DEF TypeOK, vars, thread, hash, volume, past
<1> QED
  BY <1>1, <1>2, <1>3, <1>4, <1>5, <1>6, <1>7 DEF Next

\* Every variable of the installs, the status hash and the volume keeps its
\* type; no thread reads past the end of its source.
THEOREM TypeCorrect == Spec => []TypeOK
<1>1. TypeOK /\ [Next]_vars => TypeOK'
  BY TypeStep
<1> QED
  BY TypeInit, <1>1, PTL DEF Spec

-----------------------------------------------------------------------------
(* The status hash and the file *)

\* A thread that is about to report has moved a file into place, and nothing
\* removes it.
DoneInv ==
  status = "done" \/ (\E i \in Installs : place[i] = "reporting") => Published

LEMMA DoneStep == TypeOK /\ DoneInv /\ [Next]_vars => DoneInv'
<1> SUFFICES ASSUME TypeOK, DoneInv, [Next]_vars PROVE DoneInv'
  OBVIOUS
<1> USE DEF DoneInv, Published, TypeOK, Goto, WriteStatus
<1>1. CASE Tick
  BY <1>1 DEF Tick, thread, volume
<1>2. ASSUME NEW i \in Installs,
             CheckPresent(i) \/ ReadStatus(i) \/ ClaimStatus(i) \/ Die(i)
      PROVE  DoneInv'
  BY <1>2 DEF CheckPresent, ReadStatus, ClaimStatus, Die, hash, volume
<1>3. ASSUME NEW i \in Installs, Connect(i) \/ ReadChunk(i) \/ ReadEnd(i) \/ DownloadFails(i)
      PROVE  DoneInv'
  BY <1>3 DEF Connect, ReadChunk, ReadEnd, DownloadFails, Progress, hash, volume
<1>4. ASSUME NEW i \in Installs, Rename(i) PROVE DoneInv'
  BY <1>4 DEF Rename, hash
<1>5. ASSUME NEW i \in Installs, ReportDone(i) PROVE DoneInv'
  BY <1>5 DEF ReportDone, hash, volume
<1>6. ASSUME NEW i \in Installs, Fail(i) PROVE DoneInv'
  BY <1>6 DEF Fail, hash
<1>7. CASE UNCHANGED vars
  BY <1>7 DEF vars, thread, hash, volume
<1> QED
  BY <1>1, <1>2, <1>3, <1>4, <1>5, <1>6, <1>7 DEF Next, Download

\* A status of "done" is about a file that is there, whichever of several
\* downloads wrote it last and whatever failed or died between.
THEOREM DoneIsTrue == Spec => []DoneMeansPresent
<1>1. Init => TypeOK /\ DoneInv
  BY TypeInit DEF Init, DoneInv
<1>2. TypeOK /\ DoneInv /\ [Next]_vars => TypeOK' /\ DoneInv'
  BY TypeStep, DoneStep
<1>3. DoneInv => DoneMeansPresent
  BY DEF DoneInv, DoneMeansPresent
<1> QED
  BY <1>1, <1>2, <1>3, PTL DEF Spec

-----------------------------------------------------------------------------
(* The .part file *)

Holds(i) == place[i] \in {"reading", "renaming", "failing"}

\* While nobody died, a .part that exists has a thread that will move it or
\* unlink it.
PartInv == part # None /\ died = {} => \E i \in Installs : Holds(i)

LEMMA PartStep == TypeOK /\ PartInv /\ [Next]_vars => PartInv'
<1> SUFFICES ASSUME TypeOK, PartInv, [Next]_vars, part' # None, died' = {}
             PROVE  \E i \in Installs : Holds(i)'
  BY DEF PartInv
<1> USE DEF Goto, TypeOK
\* A step of an install that holds nothing leaves the one that does alone.
<1>h. ASSUME NEW i \in Installs, NEW there, Goto(i, there), ~ Holds(i),
             part' = part, died' = died
      PROVE  \E k \in Installs : Holds(k)'
  BY <1>h DEF PartInv, Holds
<1>1. CASE Tick
  BY <1>1 DEF Tick, thread, volume, past, PartInv, Holds
<1>2. ASSUME NEW i \in Installs,
             CheckPresent(i) \/ ReadStatus(i) \/ ClaimStatus(i) \/ ReportDone(i)
      PROVE  \E k \in Installs : Holds(k)'
  BY <1>2, <1>h DEF CheckPresent, ReadStatus, ClaimStatus, ReportDone, Holds,
                    volume, past
<1>3. ASSUME NEW i \in Installs, Connect(i) \/ ReadEnd(i) \/ DownloadFails(i)
      PROVE  Holds(i)'
  BY <1>3 DEF Connect, ReadEnd, DownloadFails, Holds
<1>4. ASSUME NEW i \in Installs, ReadChunk(i) PROVE Holds(i)'
  BY <1>4 DEF ReadChunk, Holds
<1>5. ASSUME NEW i \in Installs, Rename(i) \/ Fail(i) PROVE FALSE
  BY <1>5 DEF Rename, Fail, UnlinkPart
<1>6. ASSUME NEW i \in Installs, Die(i) PROVE FALSE
  BY <1>6 DEF Die
<1>7. CASE UNCHANGED vars
  BY <1>7 DEF vars, thread, volume, past, PartInv, Holds
<1> QED
  BY <1>1, <1>2, <1>3, <1>4, <1>5, <1>6, <1>7 DEF Next, Download

\* Downloads that all ended, on whatever path, leave no .part on the volume
\* unless a replica died under one.
THEOREM PartIsCleanedUp == Spec => []PartCleanedUp
<1>1. Init => TypeOK /\ PartInv
  BY TypeInit DEF Init, PartInv
<1>2. TypeOK /\ PartInv /\ [Next]_vars => TypeOK' /\ PartInv'
  BY TypeStep, PartStep
<1>3. PartInv => PartCleanedUp
  BY DEF PartInv, PartCleanedUp, Holds
<1> QED
  BY <1>1, <1>2, <1>3, PTL DEF Spec

-----------------------------------------------------------------------------
(* What is published *)

\* An install that has opened nothing yet has its own inode to create.
Unused(i) ==
  place[i] \in {"idle", "missing", "claiming", "connecting"}
    => received[i] = 0 /\ part # i /\ final # i

\* What is being written is never the file that is published.
Apart == part # None => part # final

\* No two downloads overlapped, and no source stopped early.
Undisturbed == ~ met /\ cut = {}

Alone == \A i, k \in Installs : Alive(i) /\ Alive(k) => i = k

\* The one thread has its .part to itself, and in it what it has read.
Filling(i) ==
  /\ place[i] = "reading" =>
       part # None /\ opened[i] = part /\ content[part] = 1 .. received[i]
  /\ place[i] = "renaming" => part # None /\ content[part] = Whole

AllWhole ==
  /\ Alone
  /\ \A i \in Installs : Filling(i)
  /\ Published => content[final] = Whole

Inodewise == Apart /\ \A i \in Installs : Unused(i)

TornInv == TypeOK /\ Inodewise /\ (Undisturbed => AllWhole)

LEMMA TornInit == Init => TornInv
<1> SUFFICES ASSUME Init PROVE TornInv
  OBVIOUS
<1>1. TypeOK
  BY TypeInit
<1>2. Inodewise
  BY NoneAssumption DEF Init, Inodewise, Apart, Unused
<1>3. AllWhole
  BY DEF Init, AllWhole, Alone, Alive, Filling, Published
<1> QED
  BY <1>1, <1>2, <1>3 DEF TornInv

\* The file a connecting thread opens, whoever created it.
LEMMA OpenedPart ==
  ASSUME TornInv, NEW i \in Installs, Connect(i)
  PROVE  /\ part' \in Installs /\ part' # None /\ part' # final
         /\ part' = part \/ part' = i
         /\ opened'[i] = part' /\ content'[part'] = {}
         /\ \A n \in Inodes : n # part' => content'[n] = content[n]
         /\ place' = [place EXCEPT ![i] = "reading"]
         /\ UNCHANGED <<received, final, cut, met, died>>
         /\ received[i] = 0
<1> DEFINE n == IF part = None THEN i ELSE part
<1>1. n \in Installs /\ n # None /\ n # final
  BY NoneAssumption DEF TornInv, Inodewise, Apart, Unused, Connect, TypeOK, Inodes
<1>2. /\ opened' = [opened EXCEPT ![i] = n]
      /\ part' = n
      /\ content' = [content EXCEPT ![n] = {}]
  BY DEF Connect, OpenPart
<1>3. /\ place' = [place EXCEPT ![i] = "reading"]
      /\ UNCHANGED <<received, final, cut, met, died>>
      /\ received[i] = 0
  BY DEF Connect, Goto, past, TornInv, Inodewise, Unused
<1> QED
  BY <1>1, <1>2, <1>3 DEF TornInv, TypeOK, Inodes

LEMMA InodesStep == TornInv /\ [Next]_vars => Inodewise'
<1> SUFFICES ASSUME TornInv, [Next]_vars PROVE Inodewise'
  OBVIOUS
<1>t. TypeOK /\ Inodewise
  BY DEF TornInv
<1> USE DEF Goto
<1>1. ASSUME UNCHANGED <<place, received, part, final>> PROVE Inodewise'
  BY <1>1, <1>t DEF Inodewise, Apart, Unused
<1>2. ASSUME NEW i \in Installs, NEW there, Goto(i, there),
             there = "claiming" => place[i] = "missing",
             there = "missing" => place[i] = "idle",
             there = "connecting" => place[i] = "claiming",
             there # "idle", UNCHANGED <<received, part, final>>
      PROVE  Inodewise'
  BY <1>2, <1>t DEF Inodewise, Apart, Unused, TypeOK
<1>3. ASSUME NEW i \in Installs, CheckPresent(i) \/ ReadStatus(i) \/ ClaimStatus(i)
      PROVE  Inodewise'
  BY <1>2, <1>3 DEF CheckPresent, ReadStatus, ClaimStatus, volume
<1>4. ASSUME NEW i \in Installs, Connect(i) PROVE Inodewise'
  BY <1>4, <1>t, OpenedPart DEF Inodewise, Apart, Unused, TypeOK
<1>5. ASSUME NEW i \in Installs, ReadChunk(i) PROVE Inodewise'
  BY <1>5, <1>t DEF ReadChunk, Inodewise, Apart, Unused, TypeOK
<1>6. ASSUME NEW i \in Installs, ReadEnd(i) \/ DownloadFails(i) \/ ReportDone(i) \/ Die(i)
      PROVE  Inodewise'
  BY <1>2, <1>6 DEF ReadEnd, DownloadFails, ReportDone, Die, volume
<1>7. ASSUME NEW i \in Installs, Rename(i) PROVE Inodewise'
  BY <1>7, <1>t, NoneAssumption DEF Rename, Inodewise, Apart, Unused, TypeOK
<1>8. ASSUME NEW i \in Installs, Fail(i) PROVE Inodewise'
  BY <1>8, <1>t, NoneAssumption
     DEF Fail, UnlinkPart, Inodewise, Apart, Unused, TypeOK
<1>9. CASE Tick \/ UNCHANGED vars
  BY <1>1, <1>9 DEF Tick, vars, thread, volume
<1> QED
  BY <1>3, <1>4, <1>5, <1>6, <1>7, <1>8, <1>9 DEF Next, Download

\* The step of the one live thread.
LEMMA DownloadWhole ==
  ASSUME TornInv, AllWhole, NEW i \in Installs, Download(i), cut' = {}
  PROVE  AllWhole'
<1>t. TypeOK
  BY DEF TornInv
<1> USE DEF Goto
<1>a. \A k \in Installs : k # i => ~ Alive(k) /\ place'[k] = place[k]
  BY <1>t DEF AllWhole, Alone, Alive, Download, Connect, ReadChunk, ReadEnd,
              DownloadFails, Rename, ReportDone, Fail, TypeOK
<1>1. Alone'
  BY <1>a DEF Alone, Alive
<1>2. \A k \in Installs : k # i => Filling(k)'
  BY <1>a DEF Alive, Filling
<1>3. ASSUME Filling(i)', Published' => content'[final'] = Whole PROVE AllWhole'
  BY <1>1, <1>2, <1>3 DEF AllWhole
<1>4. CASE Connect(i)
  <2>1. content'[part'] = 1 .. received'[i]
    <3>1. content'[part'] = {} /\ received'[i] = 0
      BY <1>4, OpenedPart
    <3>2. 1 .. 0 = {}
      OBVIOUS
    <3> QED
      BY <3>1, <3>2
  <2>2. Filling(i)'
    BY <1>4, <1>t, <2>1, OpenedPart DEF Filling, TypeOK
  <2>3. Published' => content'[final'] = Whole
    BY <1>4, <1>t, OpenedPart DEF AllWhole, Published, TypeOK
  <2> QED
    BY <1>3, <2>2, <2>3
<1>5. CASE ReadChunk(i)
  <2>1. /\ place[i] = "reading" /\ place' = place /\ part' = part /\ final' = final
        /\ opened' = opened
        /\ received'[i] = received[i] + 1
        /\ content' = [content EXCEPT ![opened[i]] = @ \cup {received'[i]}]
    BY <1>5, <1>t DEF ReadChunk, TypeOK
  <2>2. part # None /\ opened[i] = part /\ content[part] = 1 .. received[i]
    BY <2>1 DEF AllWhole, Filling
  <2>3. part \in Inodes /\ part # final /\ received[i] \in Nat
    BY <1>t, <2>2 DEF TypeOK, TornInv, Inodewise, Apart
  <2>4. content'[part] = 1 .. received'[i]
    BY <1>t, <2>1, <2>2, <2>3 DEF TypeOK
  <2>5. content'[final] = content[final]
    BY <1>t, <2>1, <2>2, <2>3 DEF TypeOK
  <2> QED
    BY <1>3, <2>1, <2>2, <2>4, <2>5 DEF Filling, AllWhole, Published
<1>6. CASE ReadEnd(i)
  <2>1. /\ place[i] = "reading" /\ UNCHANGED <<part, final, content>>
        /\ place'[i] \in {"renaming", "failing"}
        /\ received[i] = Chunks
    BY <1>6, <1>t, ChunksAssumption DEF ReadEnd, TypeOK, volume
  <2>2. Filling(i)'
    BY <2>1 DEF AllWhole, Filling, Whole
  <2> QED
    BY <1>3, <2>1, <2>2 DEF AllWhole, Published
<1>7. CASE DownloadFails(i) \/ ReportDone(i)
  <2>1. place'[i] \in {"failing", "over"} /\ UNCHANGED <<final, content>>
    BY <1>7, <1>t DEF DownloadFails, ReportDone, TypeOK, volume
  <2> QED
    BY <1>3, <2>1 DEF AllWhole, Filling, Published
<1>8. CASE Rename(i)
  <2>1. /\ part # None /\ content[part] = Whole
        /\ final' = part /\ content' = content /\ place'[i] = "reporting"
    BY <1>8, <1>t DEF Rename, TypeOK, AllWhole, Filling
  <2> QED
    BY <1>3, <2>1 DEF Filling
<1>9. CASE Fail(i)
  <2>1. place'[i] = "over" /\ UNCHANGED <<final, content>>
    BY <1>9, <1>t DEF Fail, TypeOK
  <2> QED
    BY <1>3, <2>1 DEF AllWhole, Filling, Published
<1> QED
  BY <1>4, <1>5, <1>6, <1>7, <1>8, <1>9 DEF Download

LEMMA WholeStep == TornInv /\ [Next]_vars => (Undisturbed' => AllWhole')
<1> SUFFICES ASSUME TornInv, [Next]_vars, Undisturbed' PROVE AllWhole'
  OBVIOUS
<1>t. TypeOK
  BY DEF TornInv
<1> USE DEF Goto
<1>1. ASSUME UNCHANGED <<place, opened, received, volume, met, cut>> PROVE AllWhole'
  BY <1>1 DEF TornInv, Undisturbed, AllWhole, Alone, Alive, Filling, Published, volume
\* A step that starts no thread and changes no file.
<1>2. ASSUME NEW i \in Installs, NEW there, Goto(i, there),
             there \in {"missing", "claiming", "over"},
             UNCHANGED <<opened, received, volume, met, cut>>
      PROVE  AllWhole'
  <2>1. AllWhole
    BY <1>2 DEF TornInv, Undisturbed
  <2>2. \A k \in Installs : Alive(k)' => Alive(k)
    BY <1>2, <1>t DEF Alive, TypeOK
  <2>3. \A k \in Installs : Filling(k)'
    BY <1>2, <1>t, <2>1 DEF Filling, AllWhole, TypeOK, volume
  <2> QED
    BY <1>2, <2>1, <2>2, <2>3 DEF AllWhole, Alone, Published, volume
<1>3. ASSUME NEW i \in Installs, CheckPresent(i) \/ ReadStatus(i) \/ Die(i)
      PROVE  AllWhole'
  BY <1>2, <1>3 DEF CheckPresent, ReadStatus, Die, past
<1>4. ASSUME NEW i \in Installs, ClaimStatus(i) PROVE AllWhole'
  <2>1. /\ place' = [place EXCEPT ![i] = "connecting"]
        /\ UNCHANGED <<opened, received, volume, cut>>
        /\ ~ met /\ \A k \in Installs : ~ Alive(k)
    BY <1>4 DEF ClaimStatus, Undisturbed
  <2>2. AllWhole
    BY <2>1 DEF TornInv, Undisturbed
  <2>3. \A k \in Installs : Alive(k)' => k = i
    BY <1>t, <2>1 DEF Alive, TypeOK
  <2>4. \A k \in Installs : Filling(k)'
    BY <1>t, <2>1, <2>2 DEF Filling, AllWhole, TypeOK, volume
  <2> QED
    BY <2>1, <2>2, <2>3, <2>4 DEF AllWhole, Alone, Published, volume
<1>5. ASSUME NEW i \in Installs, Download(i) PROVE AllWhole'
  <2>1. met' = met /\ cut \subseteq cut'
    BY <1>5 DEF Download, Connect, ReadChunk, ReadEnd, DownloadFails, Rename,
                ReportDone, Fail, past
  <2>2. AllWhole
    BY <2>1 DEF TornInv, Undisturbed
  <2> QED
    BY <1>5, <2>2, DownloadWhole DEF Undisturbed
<1>6. CASE Tick \/ UNCHANGED vars
  BY <1>1, <1>6 DEF Tick, vars, thread, past
<1> QED
  BY <1>3, <1>4, <1>5, <1>6 DEF Next

\* A published file holds all of the source's, for any size of it and any
\* number of requests, as long as no two downloads overlapped and no source
\* stopped early: a failure, a death or an outage of Redis at any step is not
\* enough to publish a part.
THEOREM TornIsUnseen == Spec => []TornOnlyUnseen
<1>1. TornInv /\ [Next]_vars => TornInv'
  BY TypeStep, InodesStep, WholeStep DEF TornInv
<1>2. TornInv => TornOnlyUnseen
  BY DEF TornInv, Undisturbed, AllWhole, TornOnlyUnseen
<1> QED
  BY TornInit, <1>1, <1>2, PTL DEF Spec
=============================================================================
