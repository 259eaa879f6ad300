------------------------ MODULE TargetSessionProofs ------------------------
(***************************************************************************)
(* Proofs about TargetSession, for any devices, paths, images, fingerprints*)
(* and sizes.  The argument: what a phase of the worker has open is the    *)
(* vetted device as long as its path has not been re-plugged (Identity);   *)
(* a write only reaches what is open (Reach); the blocks that verification *)
(* has passed hold the image as long as no other writer touches the device *)
(* (Progress); and the step into verification is the last point at which a *)
(* cancel can still be seen, where it is looked for (CancelSeen).  And a   *)
(* session only goes forward (SessionIsFinite).                            *)
(***************************************************************************)
EXTENDS TargetSession, TLAPS

Busy == job.pc \in {"revalidate", "unmount", "open", "write", "reopen", "verify", "eject"}

(* How the window and the worker's record go together. *)
Shape ==
  /\ gui = "busy" => job.pc # "none"
  /\ gui \in {"idle", "confirm"} => job.pc = "none"
  /\ gui = "closed" => job.pc \in {"none", "done"}
  /\ job.pc # "none" \/ gui = "confirm" => job.drive \in Drives /\ job.image \in Images
  /\ job.pc \in {"write", "verify"} => job.at <= Length[job.image]
  /\ job.pc \in {"reopen", "revalidate", "unmount", "open", "none"} => job.at = 0
  /\ job.pc \notin {"write", "verify"} => job.handle = None
  /\ job.pc # "done" => job.result = "none"

(* The vetted device and what has happened to it. *)
Identity ==
  /\ job.pc \in {"none", "revalidate"} => vetted = None
  /\ vetted = None => since = {} /\ touched = {}
  /\ Busy /\ job.pc # "revalidate" => vetted # None
  /\ vetted # None => Fingerprint[vetted] = job.drive.print
  /\ vetted # None /\ "plug" \notin since => port[job.drive.path] = vetted
  /\ vetted # None /\ "lock" \notin since => vetted \notin locked
  /\ job.handle # None /\ "plug" \notin since => job.handle = vetted

(* What has been written to is the vetted device. *)
Reach == "plug" \notin since => touched \subseteq {vetted}

(* Neither the user nor an abandoned writer has interfered. *)
Quiet == "plug" \notin since /\ vetted \notin strayed

(* What verification has passed holds the image. *)
Progress ==
  /\ job.result = "ok" => vetted # None
  /\ Quiet =>
       /\ job.pc = "verify" => \A k \in 1..job.at : media[vetted][k] = job.image
       /\ job.pc = "eject" \/ job.result = "ok" => Holds(vetted, job.image)

CancelSeen ==
  cancel = "early" /\ LooksFirst => job.pc \notin {"verify", "eject"} /\ job.result # "ok"

IInv == TypeOK /\ Shape /\ Identity /\ Reach /\ Progress /\ CancelSeen

(* The same without the assumption about the path, for the platforms that    *)
(* never create a file: one device at most is written, and the one that      *)
(* verification reads holds what it has passed, or an abandoned writer has   *)
(* changed it meanwhile.                                                     *)
NoFile ==
  /\ \A p \in Paths : port[p] # File
  /\ orphan # None => orphan.handle \in Devices \cup {None}
OneTarget ==
  /\ job.pc \in {"none", "revalidate", "unmount", "open"} => touched = {}
  /\ job.handle \in Devices \cup {None} /\ touched \subseteq Devices
  /\ \A s, t \in touched : s = t
  /\ job.pc = "write" /\ job.handle # None => touched \subseteq {job.handle}
Verified ==
  /\ job.pc = "verify" =>
       \E d \in Devices :
         /\ job.handle \in {d, None}
         /\ d \in strayed \/ \A k \in 1..job.at : media[d][k] = job.image
  /\ job.pc = "eject" => \E d \in Devices : d \in strayed \/ Holds(d, job.image)

PInv == TypeOK /\ Shape /\ NoFile /\ OneTarget /\ Verified

-----------------------------------------------------------------------------
(* What the constants and the types say about a block that is in range.      *)
LEMMA BlockRange ==
  /\ \A i \in Images : Length[i] \in 1..Blocks
  /\ \A k \in Nat, i \in Images : k < Length[i] => k + 1 \in 1..Blocks
  /\ 0 \in 0..Blocks
  /\ None \notin Devices /\ None # File /\ File \notin Devices
  BY TargetAssumption DEF Targets

(* A drive that discovery lists is one, and names its device.                *)
LEMMA DiscoveredType ==
  ASSUME TypeOK, NEW r \in Discovered
  PROVE  /\ r \in Drives /\ r.path \in Paths /\ port[r.path] \in Devices
         /\ r.print = Fingerprint[port[r.path]]
         /\ r.safe = (port[r.path] \notin locked)
<1>1. PICK p \in Paths : port[p] \in Devices /\ r = Drive(p)
  BY DEF Discovered
<1>2. Fingerprint[port[p]] \in Fingerprints
  BY <1>1, TargetAssumption
<1> QED BY <1>1, <1>2 DEF Drive, Drives

(* A rebuilt list is one of drives, and its selection is in it or none.      *)
LEMMA RebuildType ==
  ASSUME TypeOK, Rebuild
  PROVE  listing' \subseteq Drives /\ chosen' \in listing' \cup {None}
  BY DiscoveredType DEF Rebuild

(* A worker that has not started has a well-typed record.                    *)
LEMMA NoJobType == NoJob \in Jobs
  BY TargetAssumption DEF NoJob, Jobs

(* The initial states have the types and the invariant.                      *)
LEMMA InitInv == Init => IInv /\ PInv
<1> SUFFICES ASSUME Init PROVE IInv /\ PInv
  OBVIOUS
<1>1. TypeOK
  BY NoJobType DEF Init, TypeOK
<1>2. Shape /\ Identity /\ Reach /\ Progress /\ CancelSeen
  BY DEF Init, NoJob, Shape, Identity, Reach, Progress, CancelSeen, Quiet, Busy
<1>3. NoFile /\ OneTarget /\ Verified
  BY BlockRange DEF Init, NoJob, NoFile, OneTarget, Verified
<1> QED BY <1>1, <1>2, <1>3 DEF Init, IInv, PInv

(* Every action keeps the types.                                             *)
LEMMA TypeEnvironment == TypeOK /\ Environment => TypeOK'
<1> SUFFICES ASSUME TypeOK, Environment PROVE TypeOK'
  OBVIOUS
<1>1. ASSUME NEW d \in Devices, NEW p \in Paths, Plug(d, p) PROVE TypeOK'
  BY <1>1 DEF TypeOK, Plug, Replugged, Since, window, Targets
<1>2. ASSUME NEW p \in Paths, Unplug(p) PROVE TypeOK'
  BY <1>2 DEF TypeOK, Unplug, Lost, Replugged, Since, window, Targets, Jobs, Orphans
<1>3. ASSUME NEW d \in Devices, ToggleLock(d) PROVE TypeOK'
  BY <1>3 DEF TypeOK, ToggleLock, Since, window
<1> QED BY <1>1, <1>2, <1>3 DEF Environment

LEMMA TypeWindow == TypeOK /\ Window => TypeOK'
<1> SUFFICES ASSUME TypeOK, Window PROVE TypeOK'
  OBVIOUS
<1>1. CASE RefreshDrives
  BY <1>1, RebuildType DEF TypeOK, RefreshDrives, history
<1>2. ASSUME NEW r \in listing, Select(r) PROVE TypeOK'
  BY <1>2 DEF TypeOK, Select, history
<1>3. ASSUME NEW i \in Images, StartWrite(i) PROVE TypeOK'
  BY <1>3, NoJobType DEF TypeOK, StartWrite, Jobs, history
<1>4. CASE Decline
  BY <1>4, NoJobType DEF TypeOK, Decline, history
<1>5. CASE Confirm
  BY <1>5 DEF TypeOK, Confirm, Jobs, history
<1>6. CASE CancelWrite
  BY <1>6 DEF TypeOK, CancelWrite, window, history
<1>7. CASE WriteFinished
  BY <1>7, NoJobType, RebuildType DEF TypeOK, WriteFinished
<1>8. CASE CloseEvent
  BY <1>8 DEF TypeOK, CloseEvent, history
<1> QED BY <1>1, <1>2, <1>3, <1>4, <1>5, <1>6, <1>7, <1>8 DEF Window

(* The worker's record after a step to the next phase, or to the end.        *)
LEMMA FinishType ==
  ASSUME TypeOK, NEW r \in {"ok", "failed", "cancelled"}, Finish(r)
  PROVE  job' \in Jobs
  BY DEF TypeOK, Finish, Jobs

LEMMA TypeWorker == TypeOK /\ Shape /\ (Worker \/ OrphanBlock) => TypeOK'
<1> SUFFICES ASSUME TypeOK, Shape, Worker \/ OrphanBlock PROVE TypeOK'
  OBVIOUS
<1>1. CASE Revalidate
  <2>1. job.drive.path \in Paths
    BY <1>1 DEF Revalidate, Shape, Drives
  <2>2. job' \in Jobs
    BY <1>1, FinishType DEF TypeOK, Revalidate, Jobs
  <2>3. vetted' \in Devices \cup {None}
    BY <1>1, DiscoveredType DEF TypeOK, Revalidate
  <2> QED BY <1>1, <2>2, <2>3 DEF TypeOK, Revalidate, world, window
<1>2. CASE Unmount
  <2>1. job' \in Jobs
    BY <1>2, FinishType DEF TypeOK, Unmount, Jobs
  <2> QED BY <1>2, <2>1 DEF TypeOK, Unmount, world, window, history
<1>3. CASE Open
  <2> DEFINE p == job.drive.path
  <2>1. p \in Paths
    BY <1>3 DEF Open, Shape, Drives
  <2>2. job' \in Jobs /\ port' \in [Paths -> Targets \cup {None}]
    BY <1>3, <2>1, FinishType DEF TypeOK, Open, Jobs, Targets
  <2>3. media' \in [Targets -> [1..Blocks -> Images \cup {Old}]]
    <3>1. CASE media' = media
      BY <3>1 DEF TypeOK
    <3>2. CASE media' = [media EXCEPT ![File] = [k \in 1..Blocks |-> Old]]
      <4>1. [k \in 1..Blocks |-> Old] \in [1..Blocks -> Images \cup {Old}]
        OBVIOUS
      <4> QED BY <3>2, <4>1 DEF TypeOK
    <3> QED BY <1>3, <3>1, <3>2 DEF Open
  <2> QED BY <1>3, <2>2, <2>3 DEF TypeOK, Open, window, history
<1>4. CASE WriteBlock
  <2>1. job.at + 1 \in 1..Blocks /\ job.image \in Images /\ job.handle \in Targets
    BY <1>4, BlockRange DEF TypeOK, WriteBlock, Shape, Jobs, Room, Targets
  <2>2. media' \in [Targets -> [1..Blocks -> Images \cup {Old}]]
    <3>1. CASE media' = media
      BY <3>1 DEF TypeOK
    <3>2. CASE media' = [media EXCEPT ![job.handle][job.at + 1] = job.image]
      BY <2>1, <3>2 DEF TypeOK
    <3> QED BY <1>4, <3>1, <3>2 DEF WriteBlock
  <2> QED BY <1>4, <2>1, <2>2 DEF TypeOK, WriteBlock, Jobs, world, window
<1>5. CASE EndWrite
  BY <1>5, BlockRange DEF TypeOK, EndWrite, AfterWrite, Jobs, world, window, history
<1>6. CASE VerifyOpen
  <2>1. job.drive.path \in Paths
    BY <1>6 DEF VerifyOpen, Shape, Drives
  <2>2. job' \in Jobs
    BY <1>6, <2>1, FinishType DEF TypeOK, VerifyOpen, Jobs
  <2> QED BY <1>6, <2>2 DEF TypeOK, VerifyOpen, world, window, history
<1>7. CASE VerifyBlock
  <2>1. job.at + 1 \in 1..Blocks
    BY <1>7, BlockRange DEF TypeOK, VerifyBlock, Shape, Jobs
  <2>2. job' \in Jobs
    BY <1>7, <2>1, FinishType DEF TypeOK, VerifyBlock, Jobs
  <2> QED BY <1>7, <2>2 DEF TypeOK, VerifyBlock, world, window, history
<1>8. CASE EndVerify
  <2>1. job' \in Jobs
    BY <1>8, FinishType DEF TypeOK, EndVerify, Jobs
  <2> QED BY <1>8, <2>1 DEF TypeOK, EndVerify, world, window, history
<1>9. CASE Eject
  BY <1>9, FinishType DEF TypeOK, Eject, world, window, history
<1>10. CASE Interrupt
  <2>1. job' \in Jobs
    BY <1>10, FinishType DEF TypeOK, Interrupt, Unstoppable
  <2>2. orphan' \in Orphans \cup {None}
    BY <1>10 DEF TypeOK, Interrupt, Abandon, Orphans, Jobs, Shape
  <2> QED BY <1>10, <2>1, <2>2 DEF TypeOK, Interrupt, world, window, history
<1>11. CASE DeviceError
  BY <1>11, FinishType DEF TypeOK, DeviceError, world, window, history
<1>12. CASE OrphanBlock
  <2>1. orphan # None => orphan \in Orphans
    BY DEF TypeOK
  <2>2. CASE orphan' = None /\ UNCHANGED <<media, strayed>>
    BY <1>12, <2>2 DEF TypeOK, OrphanBlock, world, window
  <2>3. CASE /\ orphan.at < Length[orphan.image] /\ Room(orphan.handle, orphan.at + 1)
             /\ media' = [media EXCEPT ![orphan.handle][orphan.at + 1] = orphan.image]
             /\ orphan' = [orphan EXCEPT !.at = @ + 1]
             /\ strayed' \in {strayed, strayed \cup {orphan.handle}}
    <3>2. /\ orphan.at + 1 \in 1..Blocks /\ orphan.image \in Images
          /\ orphan.handle \in Targets
      BY <1>12, <2>1, <2>3, BlockRange DEF OrphanBlock, Orphans, Room, Targets
    <3>3. orphan' \in Orphans
      BY <1>12, <2>1, <2>3, <3>2 DEF OrphanBlock, Orphans
    <3>4. media' \in [Targets -> [1..Blocks -> Images \cup {Old}]]
      BY <2>3, <3>2 DEF TypeOK
    <3>5. strayed' \subseteq Targets
      BY <2>3, <3>2 DEF TypeOK
    <3> QED BY <1>12, <3>3, <3>4, <3>5 DEF TypeOK, OrphanBlock, world, window
  <2> QED BY <1>12, <2>2, <2>3 DEF OrphanBlock
<1> QED
  BY <1>1, <1>2, <1>3, <1>4, <1>5, <1>6, <1>7, <1>8, <1>9, <1>10, <1>11, <1>12 DEF Worker

(* The window and the worker agree on whether a session is going on, and the *)
(* record is empty where it should be.                                       *)
LEMMA ShapeNext == TypeOK /\ Shape /\ Next => Shape'
<1> SUFFICES ASSUME TypeOK, Shape, Next PROVE Shape'
  OBVIOUS
<1>1. CASE Environment
  <2>1. ASSUME NEW d \in Devices, NEW p \in Paths, Plug(d, p) PROVE Shape'
    BY <2>1 DEF Shape, Plug, window
  <2>2. ASSUME NEW p \in Paths, Unplug(p) PROVE Shape'
    BY <2>2 DEF TypeOK, Shape, Unplug, Lost, window, Jobs
  <2>3. ASSUME NEW d \in Devices, ToggleLock(d) PROVE Shape'
    BY <2>3 DEF Shape, ToggleLock, window
  <2> QED BY <1>1, <2>1, <2>2, <2>3 DEF Environment
<1>2. CASE Window
  <2>1. CASE RefreshDrives
    BY <2>1 DEF Shape, RefreshDrives
  <2>2. ASSUME NEW r \in listing, Select(r) PROVE Shape'
    BY <2>2 DEF Shape, Select
  <2>3. ASSUME NEW i \in Images, StartWrite(i) PROVE Shape'
    BY <2>3 DEF TypeOK, Shape, StartWrite, NoJob
  <2>4. CASE Decline
    BY <2>4 DEF Shape, Decline, NoJob
  <2>5. CASE Confirm
    BY <2>5 DEF TypeOK, Shape, Confirm, Jobs
  <2>6. CASE CancelWrite
    BY <2>6 DEF Shape, CancelWrite, window
  <2>7. CASE WriteFinished
    BY <2>7 DEF Shape, WriteFinished, NoJob
  <2>8. CASE CloseEvent
    BY <2>8 DEF Shape, CloseEvent
  <2> QED BY <1>2, <2>1, <2>2, <2>3, <2>4, <2>5, <2>6, <2>7, <2>8 DEF Window
<1>3. CASE Worker
  <2>0. job.pc \notin {"none", "done"} /\ UNCHANGED gui
    BY <1>3 DEF Worker, Revalidate, Unmount, Open, WriteBlock, EndWrite, VerifyOpen,
                VerifyBlock, EndVerify, Eject, Interrupt, DeviceError, world, window
  <2>00. ASSUME NEW r \in {"ok", "failed", "cancelled"}, Finish(r) PROVE Shape'
    BY <2>0, <2>00 DEF TypeOK, Shape, Finish, Jobs
  <2>1. CASE Revalidate
    BY <2>0, <2>00, <2>1 DEF TypeOK, Shape, Jobs, Revalidate
  <2>2. CASE Unmount
    BY <2>0, <2>00, <2>2 DEF TypeOK, Shape, Jobs, Unmount
  <2>3. CASE Open
    <3>1. Length[job.image] \in Nat /\ job.at = 0
      BY <2>3, BlockRange DEF Open, Shape
    <3>2. CASE job' = [job EXCEPT !.pc = "write", !.handle = port[job.drive.path]]
      BY <2>0, <2>3, <3>1, <3>2 DEF TypeOK, Shape, Jobs, Open
    <3>3. CASE job' = [job EXCEPT !.pc = "write", !.handle = File]
      BY <2>0, <2>3, <3>1, <3>3 DEF TypeOK, Shape, Jobs, Open
    <3> QED BY <2>00, <2>3, <3>2, <3>3 DEF Open
  <2>4. CASE WriteBlock
    <3>1. Length[job.image] \in Nat /\ job.at \in Nat
      BY <2>0, BlockRange DEF TypeOK, Shape, Jobs
    <3> QED BY <2>0, <2>4, <3>1 DEF TypeOK, Shape, Jobs, WriteBlock
  <2>5. CASE EndWrite
    BY <2>0, <2>5 DEF TypeOK, Shape, Jobs, EndWrite, AfterWrite
  <2>6. CASE VerifyOpen
    <3>1. Length[job.image] \in Nat /\ job.at = 0
      BY <2>6, BlockRange DEF VerifyOpen, Shape
    <3>2. CASE job' = [job EXCEPT !.pc = "verify", !.handle = port[job.drive.path]]
      BY <2>0, <2>6, <3>1, <3>2 DEF TypeOK, Shape, Jobs, VerifyOpen
    <3> QED BY <2>00, <2>6, <3>2 DEF VerifyOpen
  <2>7. CASE VerifyBlock
    <3>1. Length[job.image] \in Nat /\ job.at \in Nat
      BY <2>0, BlockRange DEF TypeOK, Shape, Jobs
    <3>2. CASE job' = [job EXCEPT !.at = job.at + 1]
      BY <2>0, <2>7, <3>1, <3>2 DEF TypeOK, Shape, Jobs, VerifyBlock
    <3> QED BY <2>00, <2>7, <3>2 DEF VerifyBlock
  <2>8. CASE EndVerify
    BY <2>0, <2>00, <2>8 DEF TypeOK, Shape, Jobs, EndVerify
  <2>9. CASE Eject
    BY <2>00, <2>9 DEF Eject
  <2>10. CASE Interrupt
    BY <2>00, <2>10 DEF Interrupt, Unstoppable
  <2>11. CASE DeviceError
    BY <2>00, <2>11 DEF DeviceError
  <2> QED
    BY <1>3, <2>1, <2>2, <2>3, <2>4, <2>5, <2>6, <2>7, <2>8, <2>9, <2>10, <2>11 DEF Worker
<1>4. CASE OrphanBlock
  BY <1>4 DEF Shape, OrphanBlock, world, window
<1> QED BY <1>1, <1>2, <1>3, <1>4 DEF Next

(* Type correctness: the window, the devices and the worker keep their types *)
(* for any devices, paths and images (TypeOK of the run target).             *)
LEMMA TypeNext == TypeOK /\ Shape /\ [Next]_vars => (TypeOK /\ Shape)'
<1>1. TypeOK /\ Shape /\ Next => TypeOK' /\ Shape'
  BY TypeEnvironment, TypeWindow, TypeWorker, ShapeNext DEF Next
<1>2. TypeOK /\ UNCHANGED vars => TypeOK'
  BY DEF TypeOK, vars, window, history
<1>3. Shape /\ UNCHANGED vars => Shape'
  BY DEF Shape, vars, window
<1> QED BY <1>1, <1>2, <1>3

THEOREM TypeCorrect == Spec => []TypeOK
<1>1. Init => TypeOK /\ Shape
  BY InitInv DEF IInv
<1> QED BY <1>1, TypeNext, PTL DEF Spec

-----------------------------------------------------------------------------
(* While the path has not been re-plugged it leads to the vetted device, and *)
(* so does what the worker has open.                                         *)
LEMMA IdentityNext == TypeOK /\ Shape /\ Identity /\ Next => Identity'
<1> SUFFICES ASSUME TypeOK, Shape, Identity, Next PROVE Identity'
  OBVIOUS
<1>0. vetted # None => vetted \in Devices
  BY DEF TypeOK
<1>1. CASE Environment
  <2>1. ASSUME NEW d \in Devices, NEW p \in Paths, Plug(d, p) PROVE Identity'
    <3>1. UNCHANGED <<job, vetted, touched, locked>> /\ Replugged(p)
      BY <2>1 DEF Plug
    <3>2. port'[job.drive.path] = port[job.drive.path] \/ p = job.drive.path
      BY <2>1 DEF TypeOK, Plug
    <3> QED BY <3>1, <3>2 DEF Identity, Replugged, Since, Busy
  <2>2. ASSUME NEW p \in Paths, Unplug(p) PROVE Identity'
    <3>1. UNCHANGED <<vetted, touched, locked>> /\ Replugged(p)
      BY <2>2 DEF Unplug
    <3>2. port'[job.drive.path] = port[job.drive.path] \/ p = job.drive.path
      BY <2>2 DEF TypeOK, Unplug
    <3>3. /\ job'.pc = job.pc /\ job'.drive = job.drive
          /\ job'.handle \in {job.handle, None}
      BY <2>2 DEF TypeOK, Unplug, Lost, Jobs
    <3> QED BY <3>1, <3>2, <3>3 DEF Identity, Replugged, Since, Busy
  <2>3. ASSUME NEW d \in Devices, ToggleLock(d) PROVE Identity'
    BY <1>0, <2>3, BlockRange DEF ToggleLock, Identity, Since, Busy
  <2> QED BY <1>1, <2>1, <2>2, <2>3 DEF Environment
<1>2. CASE Window
  <2>1. CASE RefreshDrives
    BY <2>1 DEF Identity, RefreshDrives, history, Busy
  <2>2. ASSUME NEW r \in listing, Select(r) PROVE Identity'
    BY <2>2 DEF Identity, Select, history, Busy
  <2>3. ASSUME NEW i \in Images, StartWrite(i) PROVE Identity'
    BY <2>3 DEF Shape, Identity, StartWrite, NoJob, history, Busy
  <2>4. CASE Decline
    BY <2>4 DEF Shape, Identity, Decline, NoJob, history, Busy
  <2>5. CASE Confirm
    BY <2>5 DEF TypeOK, Jobs, Shape, Identity, Confirm, history, Busy
  <2>6. CASE CancelWrite
    BY <2>6 DEF Identity, CancelWrite, history, Busy
  <2>7. CASE WriteFinished
    BY <2>7 DEF Identity, WriteFinished, NoJob, Busy
  <2>8. CASE CloseEvent
    BY <2>8 DEF Identity, CloseEvent, history, Busy
  <2> QED BY <1>2, <2>1, <2>2, <2>3, <2>4, <2>5, <2>6, <2>7, <2>8 DEF Window
<1>3. CASE Worker
  <2>1. CASE Revalidate
    <3>1. ASSUME NEW r \in Discovered, r.path = job.drive.path, Revalidated(r)
          PROVE  /\ Fingerprint[port[job.drive.path]] = job.drive.print
                 /\ port[job.drive.path] \in Devices \ locked
      BY <3>1, DiscoveredType DEF Revalidated, DriveId
    <3>2. CASE ~\E r \in Discovered : r.path = job.drive.path /\ Revalidated(r)
      <4>1. /\ UNCHANGED <<vetted, port, locked, since, touched>> /\ vetted = None
            /\ job'.pc = "done" /\ job'.handle = None
        BY <2>1, <3>2 DEF TypeOK, Jobs, Identity, Revalidate, Finish, world
      <4> QED BY <4>1 DEF Identity, Busy
    <3>3. CASE \E r \in Discovered : r.path = job.drive.path /\ Revalidated(r)
      <4>1. /\ vetted' = port[job.drive.path] /\ UNCHANGED <<port, locked, since, touched>>
            /\ job'.drive = job.drive /\ job'.handle = None
            /\ job'.pc \in {"unmount", "done"}
        BY <2>1, <3>3 DEF TypeOK, Jobs, Shape, Revalidate, Finish, world
      <4> QED BY <2>1, <3>1, <3>3, <4>1, BlockRange DEF Identity, Revalidate, Busy
    <3> QED BY <2>1, <3>2, <3>3 DEF Revalidate
  <2>2. CASE Open
    <3>1. /\ vetted # None /\ UNCHANGED <<vetted, since, touched, locked>>
          /\ job'.drive = job.drive /\ job'.pc \in {"write", "done"}
      BY <2>2 DEF TypeOK, Jobs, Identity, Open, Finish, history, Busy
    <3>2. job.drive.path \in Paths
      BY <2>2 DEF Open, Shape, Drives
    <3>3. "plug" \in since \/ port[job.drive.path] = vetted
      BY <3>1 DEF Identity
    <3>4. "plug" \in since \/ (port' = port /\ job'.handle \in {vetted, None})
      BY <2>2, <3>1, <3>3 DEF TypeOK, Jobs, Open, Finish
    <3> QED BY <3>1, <3>3, <3>4 DEF Identity, Busy
  <2>3. CASE VerifyOpen
    <3>1. vetted # None /\ UNCHANGED <<vetted, since, touched, locked, port>>
      BY <2>3 DEF Identity, VerifyOpen, world, history, Busy
    <3>2. /\ job'.drive = job.drive
          /\ \/ job'.pc = "done" /\ job'.handle = None
             \/ job'.pc = "verify" /\ job'.handle = port[job.drive.path]
      BY <2>3 DEF TypeOK, Jobs, VerifyOpen, Finish
    <3> QED BY <3>1, <3>2 DEF Identity, Busy
  <2>4. CASE WriteBlock
    <3>1. vetted # None /\ job'.drive = job.drive /\ job'.handle = job.handle
          /\ job'.pc = job.pc
      BY <2>4 DEF TypeOK, Jobs, Identity, WriteBlock, Busy
    <3> QED BY <2>4, <3>1 DEF Identity, WriteBlock, world, Busy
  <2>5. CASE Unmount \/ EndWrite \/ VerifyBlock \/ EndVerify \/ Eject \/ Interrupt
              \/ DeviceError
    <3>1. UNCHANGED <<vetted, since, touched, locked, port>> /\ vetted # None
      BY <2>5 DEF Identity, Unmount, EndWrite, VerifyBlock, EndVerify, Eject, Interrupt,
                  DeviceError, world, history, Busy
    <3>2. /\ job'.drive = job.drive /\ job'.handle \in {job.handle, None}
          /\ job'.pc \notin {"none", "revalidate"}
      BY <2>5 DEF TypeOK, Jobs, Unmount, EndWrite, AfterWrite, VerifyBlock,
                  EndVerify, Eject, Interrupt, Unstoppable, DeviceError, Finish
    <3> QED BY <3>1, <3>2 DEF Identity, Busy
  <2> QED BY <1>3, <2>1, <2>2, <2>3, <2>4, <2>5 DEF Worker
<1>4. CASE OrphanBlock
  <2>1. UNCHANGED <<job, vetted, touched, port, locked, since>>
    BY <1>4 DEF OrphanBlock, world
  <2> QED BY <2>1 DEF Identity, Busy
<1> QED BY <1>1, <1>2, <1>3, <1>4 DEF Next

(* What every step but three leaves alone.                                   *)
LEMMA HistoryStep ==
  ASSUME Next
  PROVE  Revalidate \/ WriteBlock \/ WriteFinished
         \/ (UNCHANGED <<vetted, touched>> /\ since \subseteq since')
<1>1. Environment => UNCHANGED <<vetted, touched>> /\ since \subseteq since'
  BY DEF Environment, Plug, Unplug, ToggleLock, Replugged, Since
<1>2. Window => WriteFinished \/ UNCHANGED history
  BY DEF Window, RefreshDrives, Select, StartWrite, Decline, Confirm, CancelWrite, CloseEvent
<1>3. Worker => Revalidate \/ WriteBlock \/ UNCHANGED history
  BY DEF Worker, Unmount, Open, EndWrite, VerifyOpen, VerifyBlock, EndVerify, Eject,
         Interrupt, DeviceError
<1>4. OrphanBlock => UNCHANGED <<vetted, touched>> /\ since \subseteq since'
  BY DEF OrphanBlock
<1> QED BY <1>1, <1>2, <1>3, <1>4 DEF Next, history

(* Only what is open is written to.                                          *)
LEMMA ReachNext == TypeOK /\ Shape /\ Identity /\ Reach /\ Next => Reach'
<1> SUFFICES ASSUME TypeOK, Shape, Identity, Reach, Next PROVE Reach'
  OBVIOUS
<1>1. CASE Revalidate
  BY <1>1 DEF Identity, Reach, Revalidate
<1>2. CASE WriteBlock
  BY <1>2, BlockRange DEF Identity, Reach, WriteBlock, Room
<1>3. CASE WriteFinished
  BY <1>3 DEF Reach, WriteFinished
<1> QED BY <1>1, <1>2, <1>3, HistoryStep DEF Reach

(* An abandoned writer that changes a device behind the verification's back  *)
(* is recorded.                                                              *)
LEMMA OrphanStep ==
  ASSUME TypeOK, OrphanBlock, job.pc \in {"verify", "eject", "done"}, NEW d \in Devices
  PROVE  d \in strayed' \/ media'[d] = media[d]
<1>1. CASE /\ media' = [media EXCEPT ![orphan.handle][orphan.at + 1] = orphan.image]
           /\ strayed' = strayed \cup {orphan.handle}
  BY <1>1 DEF TypeOK, Targets
<1> QED BY <1>1 DEF OrphanBlock

(* Where the blocks of the media change.                                     *)
LEMMA MediaStep ==
  ASSUME TypeOK, Next
  PROVE  \/ UNCHANGED media
         \/ WriteBlock
         \/ /\ Open /\ "Linux" \in Platforms /\ \A d \in Devices : media'[d] = media[d]
         \/ OrphanBlock /\ orphan # None
<1>1. Environment => UNCHANGED media
  BY DEF Environment, Plug, Unplug, ToggleLock
<1>2. Window => UNCHANGED media
  BY DEF Window, RefreshDrives, Select, StartWrite, Decline, Confirm, CancelWrite,
         WriteFinished, CloseEvent
<1>3. Worker => UNCHANGED media \/ WriteBlock \/ Open
  BY DEF Worker, Revalidate, Unmount, EndWrite, VerifyOpen, VerifyBlock, EndVerify, Eject,
         Interrupt, DeviceError
<1>4. CASE Open
  <2>1. CASE media' = [media EXCEPT ![File] = [k \in 1..Blocks |-> Old]]
    BY <1>4, <2>1, BlockRange DEF TypeOK, Open, Targets
  <2> QED BY <1>4, <2>1 DEF TypeOK, Open
<1>5. OrphanBlock => orphan # None
  BY DEF OrphanBlock
<1> QED BY <1>1, <1>2, <1>3, <1>4, <1>5 DEF Next

(* What verification has passed stays on the vetted device.                  *)
LEMMA ProgressNext == TypeOK /\ Shape /\ Identity /\ Progress /\ Next => Progress'
<1> SUFFICES ASSUME TypeOK, Shape, Identity, Progress, Next PROVE Progress'
  OBVIOUS
<1>1. CASE Environment
  <2>1. UNCHANGED <<media, vetted, strayed>> /\ since \subseteq since'
    BY <1>1 DEF Environment, Plug, Unplug, ToggleLock, Replugged, Since
  <2>2. /\ job'.pc = job.pc /\ job'.at = job.at /\ job'.image = job.image
        /\ job'.result = job.result
    BY <1>1 DEF TypeOK, Jobs, Environment, Plug, Unplug, ToggleLock, Lost
  <2> QED BY <2>1, <2>2 DEF Progress, Holds, Quiet
<1>2. CASE Window
  <2>1. CASE UNCHANGED <<job, media, history>>
    BY <2>1 DEF Progress, Holds, Quiet, history
  <2>2. CASE job'.pc \in {"none", "revalidate"} /\ job'.result = "none"
    BY <2>2 DEF Progress
  <2>3. UNCHANGED <<job, media, history>>
        \/ (job'.pc \in {"none", "revalidate"} /\ job'.result = "none")
    <3>1. CASE RefreshDrives \/ CancelWrite \/ CloseEvent \/ \E r \in listing : Select(r)
      BY <3>1 DEF RefreshDrives, Select, CancelWrite, CloseEvent
    <3>2. CASE Decline \/ WriteFinished
      BY <3>2 DEF NoJob, Decline, WriteFinished
    <3>4. ASSUME NEW i \in Images, StartWrite(i)
          PROVE  job'.pc = "none" /\ job'.result = "none"
      BY <3>4 DEF NoJob, StartWrite
    <3>3. CASE Confirm
      BY <3>3 DEF TypeOK, Jobs, Shape, Confirm
    <3> QED BY <1>2, <3>1, <3>2, <3>3, <3>4 DEF Window
  <2> QED BY <2>1, <2>2, <2>3
<1>3. CASE Worker
  <2>1. CASE Revalidate \/ Unmount \/ Open \/ WriteBlock \/ EndWrite \/ Interrupt
              \/ DeviceError
    <3>1. job'.pc \notin {"verify", "eject"} /\ job'.result # "ok"
      BY <2>1 DEF TypeOK, Jobs, Shape, Revalidate, Unmount, Open, WriteBlock, EndWrite,
                  AfterWrite, Interrupt, Unstoppable, DeviceError, Finish
    <3> QED BY <3>1 DEF Progress
  <2>2. CASE VerifyOpen
    <3>1. /\ job'.pc # "eject" /\ job'.result # "ok"
          /\ job'.pc = "verify" => job'.at = 0
      BY <2>2 DEF TypeOK, Jobs, Shape, VerifyOpen, Finish
    <3> QED BY <3>1 DEF Progress
  <2>3. CASE VerifyBlock
    <3>1. CASE Finish("failed")
      BY <3>1 DEF TypeOK, Jobs, Progress, Finish
    <3>2. CASE /\ media[job.handle][job.at + 1] = job.image
               /\ job' = [job EXCEPT !.at = job.at + 1]
      <4>1. /\ job'.pc = "verify" /\ job'.at = job.at + 1 /\ job'.image = job.image
            /\ job'.result = job.result /\ job.at \in Nat
        BY <2>3, <3>2, TargetAssumption DEF TypeOK, Jobs, VerifyBlock
      <4>2. UNCHANGED <<media, vetted, since, strayed>>
        BY <2>3 DEF VerifyBlock, history
      <4>3. Quiet => job.handle = vetted
        BY <2>3 DEF Identity, VerifyBlock, Quiet
      <4>4. ASSUME Quiet, NEW k \in 1..(job.at + 1)
            PROVE  media[vetted][k] = job.image
        <5>1. k \in 1..job.at \/ k = job.at + 1
          BY <4>1
        <5> QED BY <2>3, <3>2, <4>3, <4>4, <5>1 DEF Progress, VerifyBlock
      <4> QED BY <2>3, <4>1, <4>2, <4>4 DEF Progress, Quiet, Shape, VerifyBlock
    <3> QED BY <2>3, <3>1, <3>2 DEF VerifyBlock
  <2>4. CASE EndVerify
    <3>1. UNCHANGED <<media, vetted, since, strayed>> /\ vetted # None
      BY <2>4 DEF Identity, EndVerify, history, Busy
    <3>2. job'.image = job.image /\ job'.pc \in {"eject", "done"}
      BY <2>4 DEF TypeOK, Jobs, EndVerify, Finish
    <3>3. Quiet => Holds(vetted, job.image)
      BY <2>4 DEF Progress, EndVerify, Holds
    <3> QED BY <3>1, <3>2, <3>3 DEF Progress, Holds, Quiet
  <2>5. CASE Eject
    <3>1. UNCHANGED <<media, vetted, since, strayed>> /\ vetted # None
      BY <2>5 DEF Identity, Eject, history, Busy
    <3>2. job'.image = job.image /\ job'.pc = "done"
      BY <2>5 DEF TypeOK, Jobs, Eject, Finish
    <3> QED BY <2>5, <3>1, <3>2 DEF Progress, Eject, Holds, Quiet
  <2> QED BY <1>3, <2>1, <2>2, <2>3, <2>4, <2>5 DEF Worker
<1>4. CASE OrphanBlock
  <2>1. UNCHANGED <<job, vetted, since>> /\ strayed \subseteq strayed'
    BY <1>4 DEF OrphanBlock
  <2>2. job.pc \in {"verify", "eject"} \/ job.result = "ok" =>
          vetted \in Devices /\ job.pc \in {"verify", "eject", "done"}
    BY DEF TypeOK, Shape, Identity, Progress, Busy
  <2>3. vetted \in Devices /\ job.pc \in {"verify", "eject", "done"} =>
          vetted \in strayed' \/ media'[vetted] = media[vetted]
    BY <1>4, OrphanStep
  <2> QED BY <2>1, <2>2, <2>3 DEF Progress, Holds, Quiet
<1> QED BY <1>1, <1>2, <1>3, <1>4 DEF Next

(* Verification is not entered, and success not reported, once a cancel that *)
(* came before it is set: where the verifier looks before it compares.       *)
LEMMA CancelNext == TypeOK /\ Shape /\ CancelSeen /\ Next => CancelSeen'
<1> SUFFICES ASSUME TypeOK, Shape, CancelSeen, Next PROVE CancelSeen'
  OBVIOUS
<1>0. ASSUME UNCHANGED platform, job'.sealed = job.sealed PROVE LooksFirst' = LooksFirst
  BY <1>0 DEF LooksFirst
<1>1. CASE Environment
  <2>1. UNCHANGED <<platform, cancel>> /\ UNCHANGED <<job.sealed, job.pc, job.result>>
    BY <1>1 DEF TypeOK, Jobs, Environment, Plug, Unplug, Lost, ToggleLock
  <2> QED BY <1>0, <2>1 DEF CancelSeen
<1>2. CASE Window
  <2>1. CASE RefreshDrives \/ CloseEvent \/ \E r \in listing : Select(r)
    <3>1. UNCHANGED <<platform, job, cancel>>
      BY <2>1 DEF RefreshDrives, Select, CloseEvent
    <3> QED BY <1>0, <3>1 DEF CancelSeen
  <2>2. CASE Decline \/ WriteFinished
    BY <2>2 DEF NoJob, CancelSeen, Decline, WriteFinished
  <2>5. ASSUME NEW i \in Images, StartWrite(i)
        PROVE  job'.pc = "none" /\ job'.result = "none" /\ UNCHANGED cancel
    BY <2>5 DEF NoJob, StartWrite
  <2>3. CASE Confirm
    <3>1. job'.pc = "revalidate" /\ job'.result = "none"
      BY <2>3 DEF TypeOK, Jobs, Shape, Confirm
    <3> QED BY <3>1 DEF CancelSeen
  <2>4. CASE CancelWrite
    BY <2>4 DEF Shape, CancelSeen, CancelWrite, window
  <2> QED BY <1>2, <2>1, <2>2, <2>3, <2>4, <2>5 DEF Window, CancelSeen
<1>3. CASE Worker
  <2>1. UNCHANGED <<cancel, platform>>
    BY <1>3 DEF Worker, Revalidate, Unmount, Open, WriteBlock, EndWrite, VerifyOpen,
                VerifyBlock, EndVerify, Eject, Interrupt, DeviceError, world
  <2>2. job'.sealed = job.sealed
    BY <1>3 DEF TypeOK, Jobs, Worker, Revalidate, Unmount, Open, WriteBlock, EndWrite,
                AfterWrite, VerifyOpen, VerifyBlock, EndVerify, Eject, Interrupt,
                Unstoppable, DeviceError, Finish
  <2>3. ASSUME cancel = "early", LooksFirst
        PROVE  job'.pc \notin {"verify", "eject"} /\ job'.result # "ok"
    <3>1. job.pc \notin {"verify", "eject"} /\ CancelBeforeVerify
      BY <2>3 DEF CancelSeen, CancelBeforeVerify, Cancelled
    <3> QED
      BY <1>3, <3>1 DEF TypeOK, Jobs, Shape, Worker, Revalidate, Unmount, Open, WriteBlock,
             EndWrite, AfterWrite, VerifyOpen, VerifyBlock, EndVerify, Eject, Interrupt,
             Unstoppable, DeviceError, Finish
  <2> QED BY <1>0, <2>1, <2>2, <2>3 DEF CancelSeen
<1>4. CASE OrphanBlock
  <2>1. UNCHANGED <<platform, job, cancel>>
    BY <1>4 DEF OrphanBlock, world
  <2> QED BY <1>0, <2>1 DEF CancelSeen
<1> QED BY <1>1, <1>2, <1>3, <1>4 DEF Next

(* The invariant holds in every reachable state.                             *)
LEMMA Invariance == Spec => []IInv
<1>1. IInv /\ Next => IInv'
  BY TypeNext, IdentityNext, ReachNext, ProgressNext, CancelNext, ShapeNext DEF IInv
<1>2. IInv /\ UNCHANGED vars => IInv'
  BY DEF IInv, TypeOK, Shape, Identity, Reach, Progress, CancelSeen, LooksFirst, Quiet, Holds,
         Busy, vars, window, history
<1> QED BY <1>1, <1>2, InitInv, PTL DEF Spec

(* Unless its path is re-plugged after the revalidation, a write reaches     *)
(* only the device that was vetted, which has the fingerprint the user       *)
(* confirmed and was not locked then (ConfirmedUnlessSwapped of the run      *)
(* target).                                                                  *)
THEOREM ConfirmedTarget == Spec => []ConfirmedUnlessSwapped
<1>1. IInv => ConfirmedUnlessSwapped
  BY DEF IInv, Identity, Reach, ConfirmedUnlessSwapped
<1> QED BY <1>1, Invariance, PTL

(* A reported success means that the vetted device holds the whole image,    *)
(* unless its path was re-plugged, or an abandoned writer wrote to it once   *)
(* verification had begun (SuccessOnTarget of the run target).               *)
THEOREM SuccessIsOnTarget == Spec => []SuccessOnTarget
<1>1. IInv => SuccessOnTarget
  BY DEF IInv, TypeOK, Progress, Quiet, SuccessOnTarget
<1> QED BY <1>1, Invariance, PTL

(* A cancel that comes before verification never ends as a success, but for  *)
(* an unsealed write on Linux (EarlyCancelNeverOk of the run target).        *)
THEOREM EarlyCancelIsNoSuccess == Spec => []EarlyCancelNeverOk
<1>1. IInv => EarlyCancelNeverOk
  BY DEF IInv, CancelSeen, EarlyCancelNeverOk
<1> QED BY <1>1, Invariance, PTL

-----------------------------------------------------------------------------
(* The half of SessionEnds that does not need fairness.                      *)

(* The phases of the worker, by what is still to come. *)
Remaining(p) ==
  CASE p = "revalidate" -> 7 [] p = "unmount" -> 6 [] p = "open" -> 5 [] p = "write" -> 4
    [] p = "reopen" -> 3 [] p = "verify" -> 2 [] p = "eject" -> 1 [] OTHER -> 0

Resting == UNCHANGED <<job.pc, job.at, job.drive, job.image>>
OneBlock ==
  /\ job.pc \in {"write", "verify"} /\ job'.pc = job.pc
  /\ job'.at = job.at + 1 /\ job'.at <= Length[job.image]

(* A session never goes back: its drive and its image stay those that were   *)
(* confirmed, no phase is entered twice and no block is written or compared  *)
(* twice, whatever is plugged, unplugged or locked meanwhile.                *)
SessionDescends ==
  [][Busy => /\ UNCHANGED <<job.drive, job.image>>
             /\ Resting \/ OneBlock \/ Remaining(job'.pc) < Remaining(job.pc)]_vars

THEOREM SessionIsFinite == Spec => SessionDescends
<1> DEFINE Nearer ==
      Busy => /\ UNCHANGED <<job.drive, job.image>>
              /\ Resting \/ OneBlock \/ Remaining(job'.pc) < Remaining(job.pc)
<1>1. ASSUME TypeOK, Shape, Next, Busy
      PROVE  /\ UNCHANGED <<job.drive, job.image>>
             /\ Resting \/ OneBlock \/ Remaining(job'.pc) < Remaining(job.pc)
  <2>0. job \in Jobs /\ gui = "busy"
    BY <1>1 DEF TypeOK, Shape, Busy
  <2>1. CASE Environment \/ OrphanBlock \/ Window
    <3>1. job' = job \/ \E t \in Targets \cup {None} : job' = Lost(t, job)
      BY <1>1, <2>0, <2>1
      DEF Environment, Plug, Unplug, ToggleLock, OrphanBlock, Window, RefreshDrives, Select,
          StartWrite, Decline, Confirm, CancelWrite, WriteFinished, CloseEvent, Busy, TypeOK, Targets
    <3> QED BY <2>0, <3>1 DEF Lost, Resting, Jobs
  <2>2. ASSUME NEW r, Finish(r)
        PROVE  /\ UNCHANGED <<job.drive, job.image>>
               /\ Remaining(job'.pc) < Remaining(job.pc)
    BY <1>1, <2>0, <2>2 DEF Finish, Remaining, Jobs, Busy
  <2>3. ASSUME NEW p, job.pc = p, NEW q, job'.pc = q, <<p, q>> \in
                 {<<"revalidate", "unmount">>, <<"unmount", "open">>, <<"open", "write">>,
                  <<"write", "reopen">>, <<"reopen", "verify">>, <<"verify", "eject">>}
        PROVE  Remaining(job'.pc) < Remaining(job.pc)
    BY <2>3 DEF Remaining
  <2>4. CASE Revalidate \/ Unmount \/ Eject \/ Interrupt \/ DeviceError
    <3>1. \/ \E r \in {"ok", "failed", "cancelled"} : Finish(r)
          \/ job.pc = "revalidate" /\ job' = [job EXCEPT !.pc = "unmount"]
          \/ job.pc = "unmount" /\ job' = [job EXCEPT !.pc = "open"]
      BY <2>4 DEF Revalidate, Unmount, Eject, Interrupt, Unstoppable, DeviceError
    <3>2. \/ \E r \in {"ok", "failed", "cancelled"} : Finish(r)
          \/ /\ UNCHANGED <<job.drive, job.image>>
             /\ <<job.pc, job'.pc>> \in {<<"revalidate", "unmount">>, <<"unmount", "open">>}
      BY <2>0, <3>1 DEF Jobs
    <3> QED BY <2>2, <2>3, <3>2
  <2>5. CASE Open \/ EndWrite \/ VerifyOpen \/ EndVerify
    <3>1. \/ \E r \in {"ok", "failed", "cancelled"} : Finish(r)
          \/ /\ UNCHANGED <<job.drive, job.image>>
             /\ <<job.pc, job'.pc>> \in {<<"open", "write">>, <<"write", "reopen">>,
                                         <<"reopen", "verify">>, <<"verify", "eject">>}
      BY <2>0, <2>5 DEF Open, EndWrite, AfterWrite, VerifyOpen, EndVerify, Jobs
    <3> QED BY <2>2, <2>3, <3>1
  <2>6. CASE WriteBlock \/ VerifyBlock
    <3>1. job.at \in Nat /\ job.image \in Images /\ Length[job.image] \in Nat
      BY <1>1, <2>0, TargetAssumption DEF Jobs, Shape, Busy
    <3>2. \/ Finish("failed")
          \/ /\ job.pc \in {"write", "verify"} /\ job.at < Length[job.image]
             /\ job' = [job EXCEPT !.at = job.at + 1]
      BY <2>6 DEF WriteBlock, VerifyBlock
    <3>3. CASE /\ job.pc \in {"write", "verify"} /\ job.at < Length[job.image]
               /\ job' = [job EXCEPT !.at = job.at + 1]
      BY <2>0, <3>1, <3>3 DEF OneBlock, Jobs
    <3> QED BY <2>2, <3>2, <3>3
  <2> QED BY <1>1, <2>1, <2>4, <2>5, <2>6 DEF Next, Worker
<1>2. IInv /\ [Next]_vars => [Nearer]_vars
  BY <1>1 DEF IInv
<1> QED BY <1>2, Invariance, PTL DEF Spec, SessionDescends

-----------------------------------------------------------------------------
(* Where no file is created, what is abandoned has a device open or nothing. *)
LEMMA NoFileNext ==
  ASSUME "Linux" \notin Platforms, TypeOK, Shape, NoFile, OneTarget, Next
  PROVE  NoFile'
<1>1. platform # "Linux"
  BY DEF TypeOK
<1>2. CASE Environment
  <2>1. ASSUME NEW d \in Devices, NEW p \in Paths, Plug(d, p) PROVE NoFile'
    BY <2>1, BlockRange DEF TypeOK, NoFile, Plug
  <2>2. ASSUME NEW p \in Paths, Unplug(p) PROVE NoFile'
    <3>1. \A q \in Paths : port'[q] # File
      BY <2>2, BlockRange DEF TypeOK, NoFile, Unplug
    <3>2. orphan' # None => orphan # None /\ orphan'.handle \in {orphan.handle, None}
      BY <2>2 DEF TypeOK, Orphans, Unplug, Lost
    <3> QED BY <3>1, <3>2 DEF NoFile
  <2>3. ASSUME NEW d \in Devices, ToggleLock(d) PROVE NoFile'
    BY <2>3 DEF NoFile, ToggleLock
  <2> QED BY <1>2, <2>1, <2>2, <2>3 DEF Environment
<1>3. CASE Window
  BY <1>3 DEF NoFile, Window, RefreshDrives, Select, StartWrite, Decline, Confirm, CancelWrite,
              WriteFinished, CloseEvent
<1>4. CASE Worker
  <2>1. UNCHANGED port
    BY <1>1, <1>4 DEF Worker, Revalidate, Unmount, Open, WriteBlock, EndWrite, VerifyOpen,
                      VerifyBlock, EndVerify, Eject, Interrupt, DeviceError, world
  <2>2. UNCHANGED orphan \/ orphan'.handle = job.handle
    BY <1>4 DEF Worker, Revalidate, Unmount, Open, WriteBlock, EndWrite, VerifyOpen,
                VerifyBlock, EndVerify, Eject, Interrupt, Abandon, DeviceError
  <2> QED BY <2>1, <2>2 DEF NoFile, OneTarget
<1>5. CASE OrphanBlock
  <2>1. UNCHANGED port /\ (orphan' # None => orphan # None /\ orphan'.handle = orphan.handle)
    BY <1>5 DEF TypeOK, Orphans, OrphanBlock, world
  <2> QED BY <2>1 DEF NoFile
<1> QED BY <1>2, <1>3, <1>4, <1>5 DEF Next

(* The steps that change which device is open or has been written to.        *)
LEMMA OneTargetNext ==
  ASSUME "Linux" \notin Platforms, TypeOK, Shape, NoFile, OneTarget, Next
  PROVE  OneTarget'
<1>1. platform # "Linux"
  BY DEF TypeOK
<1>2. CASE Environment
  <2>1. UNCHANGED touched
    BY <1>2 DEF Environment, Plug, Unplug, ToggleLock
  <2>2. job'.pc = job.pc /\ job'.handle \in {job.handle, None}
    BY <1>2 DEF TypeOK, Jobs, Environment, Plug, Unplug, ToggleLock, Lost
  <2> QED BY <2>1, <2>2 DEF OneTarget
<1>3. CASE Window
  <2>1. CASE RefreshDrives \/ CancelWrite \/ CloseEvent \/ \E r \in listing : Select(r)
    BY <2>1 DEF OneTarget, RefreshDrives, Select, CancelWrite, CloseEvent, history
  <2>2. CASE Decline \/ WriteFinished
    BY <2>2 DEF Shape, OneTarget, NoJob, Decline, WriteFinished, history
  <2>3. CASE Confirm
    BY <2>3 DEF TypeOK, Jobs, Shape, OneTarget, Confirm, history
  <2>4. ASSUME NEW i \in Images, StartWrite(i) PROVE OneTarget'
    BY <2>4 DEF Shape, OneTarget, NoJob, StartWrite, history
  <2> QED BY <1>3, <2>1, <2>2, <2>3, <2>4 DEF Window
<1>4. CASE Worker
  <2>1. CASE WriteBlock
    <3>1. job'.handle = job.handle /\ job'.pc = "write"
      BY <2>1 DEF TypeOK, Jobs, WriteBlock
    <3>2. job.handle \in Devices /\ touched' = {job.handle}
      BY <2>1, BlockRange DEF OneTarget, WriteBlock, Room
    <3> QED BY <3>1, <3>2 DEF OneTarget
  <2>2. CASE Open
    <3>1. job.drive.path \in Paths
      BY <2>2 DEF Open, Shape, Drives
    <3>2. port[job.drive.path] \in Devices \cup {None}
      BY <3>1 DEF TypeOK, NoFile, Targets
    <3>3. UNCHANGED touched /\ touched = {}
      BY <2>2 DEF OneTarget, Open, history
    <3>4. job'.handle \in Devices \cup {None}
      BY <1>1, <2>2, <3>2 DEF TypeOK, Jobs, Open, Finish
    <3> QED BY <3>3, <3>4 DEF OneTarget
  <2>3. CASE VerifyOpen
    <3>1. job.drive.path \in Paths
      BY <2>3 DEF VerifyOpen, Shape, Drives
    <3>2. port[job.drive.path] \in Devices \cup {None}
      BY <3>1 DEF TypeOK, NoFile, Targets
    <3>3. job'.handle \in Devices \cup {None} /\ job'.pc \in {"done", "verify"}
      BY <2>3, <3>2 DEF TypeOK, Jobs, VerifyOpen, Finish
    <3> QED BY <2>3, <3>3 DEF OneTarget, VerifyOpen, history
  <2>4. CASE Revalidate \/ Unmount
    <3>1. job'.handle \in {None, job.handle}
      BY <2>4 DEF TypeOK, Jobs, Revalidate, Unmount, Finish
    <3>2. UNCHANGED touched /\ touched = {}
      BY <2>4 DEF OneTarget, Revalidate, Unmount, history
    <3> QED BY <3>1, <3>2 DEF OneTarget
  <2>5. CASE EndWrite \/ VerifyBlock \/ EndVerify \/ Eject \/ Interrupt \/ DeviceError
    <3>1. job'.handle \in {None, job.handle} /\ job'.pc \in {"reopen", "verify", "eject", "done"}
      BY <2>5 DEF TypeOK, Jobs, EndWrite, AfterWrite, VerifyBlock, EndVerify, Eject,
                  Interrupt, Unstoppable, DeviceError, Finish
    <3>2. UNCHANGED touched
      BY <2>5 DEF EndWrite, VerifyBlock, EndVerify, Eject, Interrupt, DeviceError, history
    <3> QED BY <3>1, <3>2 DEF OneTarget
  <2> QED BY <1>4, <2>1, <2>2, <2>3, <2>4, <2>5 DEF Worker
<1>5. CASE OrphanBlock
  BY <1>5 DEF OneTarget, OrphanBlock
<1> QED BY <1>2, <1>3, <1>4, <1>5 DEF Next

(* What verification has passed stays on the device that it reads, or read   *)
(* before that was unplugged, or an abandoned writer is known to have been   *)
(* there.                                                                    *)
LEMMA VerifiedNext ==
  ASSUME "Linux" \notin Platforms, TypeOK, Shape, NoFile, OneTarget, Verified, Next
  PROVE  Verified'
<1>0. CASE OrphanBlock
  <2>1. UNCHANGED job /\ strayed \subseteq strayed'
    BY <1>0 DEF OrphanBlock
  <2>2. job.pc \in {"verify", "eject"} =>
          \A d \in Devices : d \in strayed' \/ media'[d] = media[d]
    BY <1>0, OrphanStep
  <2> QED BY <2>1, <2>2 DEF Verified, Holds
<1>1. CASE Environment
  <2>1. UNCHANGED <<media, strayed>>
    BY <1>1 DEF Environment, Plug, Unplug, ToggleLock
  <2>2. /\ job'.pc = job.pc /\ job'.at = job.at /\ job'.image = job.image
        /\ job'.handle \in {job.handle, None}
    BY <1>1 DEF TypeOK, Jobs, Environment, Plug, Unplug, ToggleLock, Lost
  <2> QED BY <2>1, <2>2 DEF Verified, Holds
<1>2. CASE Window
  <2>1. CASE UNCHANGED <<job, media, strayed>>
    BY <2>1 DEF Verified, Holds
  <2>2. CASE job'.pc \in {"none", "revalidate"}
    BY <2>2 DEF Verified
  <2>3. UNCHANGED <<job, media, strayed>> \/ job'.pc \in {"none", "revalidate"}
    <3>1. CASE RefreshDrives \/ CancelWrite \/ CloseEvent \/ \E r \in listing : Select(r)
      BY <3>1 DEF RefreshDrives, Select, CancelWrite, CloseEvent, history
    <3>2. CASE Decline \/ WriteFinished
      BY <3>2 DEF NoJob, Decline, WriteFinished
    <3>3. CASE Confirm
      BY <3>3 DEF TypeOK, Jobs, Confirm
    <3>4. ASSUME NEW i \in Images, StartWrite(i) PROVE job'.pc = "none"
      BY <3>4 DEF NoJob, StartWrite
    <3> QED BY <1>2, <3>1, <3>2, <3>3, <3>4 DEF Window
  <2> QED BY <2>1, <2>2, <2>3
<1>3. CASE Worker
  <2>1. CASE Revalidate \/ Unmount \/ Open \/ WriteBlock \/ EndWrite \/ Eject \/ Interrupt
              \/ DeviceError
    <3>1. job'.pc \notin {"verify", "eject"}
      BY <2>1 DEF TypeOK, Jobs, Revalidate, Unmount, Open, WriteBlock, EndWrite, AfterWrite,
                  Eject, Interrupt, Unstoppable, DeviceError, Finish
    <3> QED BY <3>1 DEF Verified
  <2>2. CASE VerifyOpen
    <3>1. job.drive.path \in Paths
      BY <2>2 DEF VerifyOpen, Shape, Drives
    <3>2. port[job.drive.path] \in Devices \cup {None}
      BY <3>1 DEF TypeOK, NoFile, Targets
    <3>3. \/ job'.pc = "done"
          \/ job'.pc = "verify" /\ job'.at = 0 /\ job'.handle \in Devices
      BY <2>2, <3>2 DEF TypeOK, Jobs, Shape, VerifyOpen, Finish
    <3>4. job'.at = 0 => 1..job'.at = {}
      OBVIOUS
    <3> QED BY <3>3, <3>4 DEF Verified
  <2>3. CASE VerifyBlock
    <3>1. CASE Finish("failed")
      BY <3>1 DEF TypeOK, Jobs, Verified, Finish
    <3>2. CASE /\ media[job.handle][job.at + 1] = job.image
               /\ job' = [job EXCEPT !.at = job.at + 1]
      <4>1. /\ job'.pc = "verify" /\ job'.at = job.at + 1 /\ job'.image = job.image
            /\ job'.handle = job.handle /\ job.at \in Nat
        BY <2>3, <3>2, TargetAssumption DEF TypeOK, Jobs, VerifyBlock
      <4>2. /\ job.handle \in Devices /\ UNCHANGED <<media, strayed>>
            /\ \/ job.handle \in strayed
               \/ \A k \in 1..job.at : media[job.handle][k] = job.image
        BY <2>3, BlockRange DEF Verified, VerifyBlock, history
      <4>3. \A k \in 1..(job.at + 1) : k \in 1..job.at \/ k = job.at + 1
        BY <4>1
      <4>4. \/ job.handle \in strayed
            \/ \A k \in 1..(job.at + 1) : media[job.handle][k] = job.image
        BY <3>2, <4>2, <4>3
      <4> QED BY <4>1, <4>2, <4>4 DEF Verified
    <3> QED BY <2>3, <3>1, <3>2 DEF VerifyBlock
  <2>4. CASE EndVerify
    <3>1. /\ UNCHANGED <<media, strayed>>
          /\ job'.image = job.image /\ job'.pc \in {"eject", "done"}
      BY <2>4 DEF TypeOK, Jobs, EndVerify, Finish, history
    <3>2. \E d \in Devices : d \in strayed \/ Holds(d, job.image)
      BY <2>4 DEF Verified, EndVerify, Holds
    <3> QED BY <3>1, <3>2 DEF Verified, Holds
  <2> QED BY <1>3, <2>1, <2>2, <2>3, <2>4 DEF Worker
<1> QED BY <1>0, <1>1, <1>2, <1>3 DEF Next

LEMMA PromiseInvariance == ASSUME "Linux" \notin Platforms PROVE Spec => []PInv
<1>1. PInv /\ Next => PInv'
  BY TypeNext, ShapeNext, NoFileNext, OneTargetNext, VerifiedNext DEF PInv
<1>2. PInv /\ UNCHANGED vars => PInv'
  BY DEF PInv, TypeOK, Shape, NoFile, OneTarget, Verified, Holds, vars, window, history
<1> QED BY <1>1, <1>2, InitInv, PTL DEF Spec

-----------------------------------------------------------------------------
(* The abandoned writer, as the promise sees it. *)
Strays == IF orphan = None THEN {}
          ELSE IF orphan.handle = None THEN {}
          ELSE {[device |-> orphan.handle, image |-> orphan.image]}

(* A step that changes neither the devices nor what the session has reached. *)
LEMMA Stutter ==
  ASSUME UNCHANGED <<media, touched, strayed, Strays>>,
         job'.image = job.image \/ job'.pc = "none",
         \/ job'.pc = job.pc /\ job'.result = job.result
         \/ job.pc \notin {"none", "done"} /\ job'.pc \notin {"none", "done"}
  PROVE  UNCHANGED Promise!vars
  BY DEF Promise!vars, Phase, Strays

(* A step of the worker that ends the session without success.               *)
LEMMA Failure ==
  ASSUME TypeOK, job.pc \notin {"none", "done"}, NEW r \in {"failed", "cancelled"}, Finish(r),
         UNCHANGED <<media, touched, strayed, orphan>>
  PROVE  Promise!Fail
<1>1. job'.pc = "done" /\ job'.result = r /\ job'.image = job.image
  BY DEF TypeOK, Jobs, Finish
<1> QED BY <1>1 DEF Promise!Fail, Phase

(* The same, when it leaves its writer behind.                               *)
LEMMA Abandoned ==
  ASSUME TypeOK, Shape, OneTarget, job.pc = "write", NEW r \in {"failed", "cancelled"}, Finish(r),
         UNCHANGED <<media, touched, strayed>>, Abandon
  PROVE  Promise!Next
<1>1. job'.pc = "done" /\ job'.result = r /\ job'.image = job.image
  BY DEF TypeOK, Jobs, Finish
<1>2. /\ orphan = None /\ orphan'.handle = job.handle /\ orphan'.image = job.image
      /\ job.image \in Images /\ job.handle \in Targets \cup {None} /\ job.at \in 0..Blocks
  BY TargetAssumption DEF Abandon, TypeOK, Shape, Jobs
<1>3. orphan' # None
  BY <1>2, TargetAssumption DEF Abandon, Orphans
<1>4. CASE job.handle = None
  <2>1. Strays = {} /\ Strays' = {}
    BY <1>2, <1>4 DEF Strays
  <2>2. Promise!Fail
    BY <1>1, <2>1 DEF Promise!Fail, Phase, Strays
  <2> QED BY <2>2 DEF Promise!Next
<1>5. CASE job.handle # None
  <2>1. job.handle \in Devices /\ touched \subseteq {job.handle}
    BY <1>5 DEF OneTarget
  <2>2. Strays = {} /\ Strays' = {[device |-> job.handle, image |-> job.image]}
    BY <1>2, <1>3, <1>5 DEF Strays
  <2>3. ASSUME NEW d \in Devices, d = job.handle PROVE Promise!Abandon(d)
    BY <1>1, <2>1, <2>2, <2>3 DEF Promise!Abandon, Phase, Strays
  <2> QED BY <2>1, <2>3 DEF Promise!Next
<1> QED BY <1>4, <1>5

(* A step of the worker that ends it with success.                           *)
LEMMA Success ==
  ASSUME TypeOK, job.pc \notin {"none", "done"}, Finish("ok"),
         UNCHANGED <<media, touched, strayed, orphan>>,
         NEW d \in Devices, d \in strayed \/ Holds(d, job.image)
  PROVE  Promise!Succeed
<1>1. job'.pc = "done" /\ job'.result = "ok" /\ job'.image = job.image
  BY DEF TypeOK, Jobs, Finish
<1>2. d \in strayed \/ Promise!Holds(d, job.image)
  BY DEF Holds, Promise!Holds
<1> QED BY <1>1, <1>2 DEF Promise!Succeed, Phase

(* A step of the writer that was left behind.                                *)
LEMMA StrayStep ==
  ASSUME TypeOK, NoFile, OrphanBlock
  PROVE  [Promise!Next]_(Promise!vars)
<1>0. orphan \in Orphans /\ orphan # None /\ UNCHANGED <<job, touched>>
  BY DEF TypeOK, OrphanBlock
<1>1. CASE orphan' = None /\ UNCHANGED <<media, strayed>>
  <2>1. CASE orphan.handle = None
    <3>1. Strays = {} /\ Strays' = {}
      BY <1>0, <1>1, <2>1 DEF Strays
    <3> QED BY <1>0, <1>1, <3>1, Stutter
  <2>2. CASE orphan.handle # None
    <3>1. PICK w \in Strays : Strays = {w}
      BY <1>0, <2>2 DEF Strays
    <3>2. Strays' = Strays \ {w}
      BY <1>1, <3>1 DEF Strays
    <3>3. Promise!StrayEnd(w)
      BY <1>0, <1>1, <3>2 DEF Promise!StrayEnd, Phase, Strays
    <3> QED BY <3>1, <3>3 DEF Promise!Next, Strays
  <2> QED BY <2>1, <2>2
<1>2. CASE /\ orphan.at < Length[orphan.image] /\ Room(orphan.handle, orphan.at + 1)
           /\ media' = [media EXCEPT ![orphan.handle][orphan.at + 1] = orphan.image]
           /\ orphan' = [orphan EXCEPT !.at = @ + 1]
           /\ strayed' = IF job.pc \in {"verify", "eject", "done"}
                           THEN strayed \cup {orphan.handle} ELSE strayed
  <2> DEFINE w == [device |-> orphan.handle, image |-> orphan.image]
             k == orphan.at + 1
  <2>1. /\ orphan.handle \in Devices /\ orphan.handle # None /\ orphan.image \in Images
        /\ k \in 1..Length[orphan.image] /\ k \in 1..Blocks
    BY <1>0, <1>2, BlockRange DEF Orphans, NoFile, Room
  <2>2. /\ orphan' \in Orphans /\ orphan'.handle = orphan.handle
        /\ orphan'.image = orphan.image
    BY <1>0, <1>2, <2>1, TargetAssumption DEF Orphans
  <2>3. [d \in Devices |-> media'[d]] =
          [[d \in Devices |-> media[d]] EXCEPT ![orphan.handle][k] = orphan.image]
    BY <1>2, <2>1 DEF TypeOK, Targets
  <2>4. \/ UNCHANGED strayed
        \/ Phase # "idle" /\ strayed' = strayed \cup {orphan.handle}
    BY <1>2 DEF Phase
  <2>5. Strays = {w} /\ Strays' = {w}
    BY <1>0, <2>1, <2>2, TargetAssumption DEF Strays
  <2>6. ASSUME NEW v \in Strays, NEW j \in 1..Blocks, v = w, j = k
        PROVE  Promise!StrayChange(v, j)
    BY <1>0, <2>1, <2>3, <2>4, <2>5, <2>6 DEF Promise!StrayChange, Phase, Strays
  <2>7. PICK v \in Strays : v = w
    BY <2>5
  <2>8. PICK j \in 1..Blocks : j = k
    BY <2>1
  <2>9. Promise!StrayChange(v, j)
    BY <2>6, <2>7, <2>8
  <2> QED BY <2>9 DEF Promise!Next, Strays
<1> QED BY <1>1, <1>2 DEF OrphanBlock

(* Every step of the session is one of the promise, or a stutter.            *)
LEMMA StepRefines ==
  ASSUME "Linux" \notin Platforms, PInv, [Next]_vars
  PROVE  [Promise!Next]_(Promise!vars)
<1> USE DEF PInv
<1>1. CASE UNCHANGED vars
  BY <1>1 DEF vars, window, history, Promise!vars, Phase
<1>2. CASE Environment
  <2>1. UNCHANGED <<media, touched, strayed>>
    BY <1>2 DEF Environment, Plug, Unplug, ToggleLock
  <2>2. job'.pc = job.pc /\ job'.result = job.result /\ job'.image = job.image
    BY <1>2 DEF TypeOK, Jobs, Environment, Plug, Unplug, ToggleLock, Lost
  <2>3. UNCHANGED Strays \/ (\E w \in Strays : Strays = {w} /\ Strays' = {})
    <3>1. CASE UNCHANGED orphan
      BY <3>1 DEF Strays
    <3>2. CASE orphan # None /\ \E t \in Devices : orphan' = Lost(t, orphan)
      <4>1. orphan' \in Orphans /\ orphan'.image = orphan.image
            /\ orphan'.handle \in {orphan.handle, None}
        BY <3>2 DEF TypeOK, Orphans, Lost
      <4>2. orphan' # None
        BY <4>1, TargetAssumption
      <4>3. CASE orphan'.handle = orphan.handle
        BY <3>2, <4>1, <4>2, <4>3 DEF Strays
      <4>4. CASE orphan'.handle = None /\ orphan.handle # None
        BY <3>2, <4>2, <4>4 DEF Strays
      <4> QED BY <4>1, <4>3, <4>4
    <3> QED BY <1>2, <3>1, <3>2 DEF Environment, Plug, Unplug, ToggleLock
  <2>4. CASE UNCHANGED Strays
    BY <2>1, <2>2, <2>4, Stutter
  <2>5. ASSUME NEW w \in Strays, Strays = {w}, Strays' = {} PROVE Promise!Next
    <3>1. Promise!StrayEnd(w)
      BY <2>1, <2>2, <2>5 DEF Promise!StrayEnd, Phase, Strays
    <3> QED BY <3>1 DEF Promise!Next, Strays
  <2> QED BY <2>3, <2>4, <2>5
<1>3. CASE Window
  <2>0. UNCHANGED Strays
    BY <1>3 DEF Strays, Window, RefreshDrives, Select, StartWrite, Decline, Confirm,
                CancelWrite, WriteFinished, CloseEvent
  <2>1. CASE RefreshDrives \/ CancelWrite \/ CloseEvent \/ \E r \in listing : Select(r)
    <3>1. UNCHANGED <<job, media, touched, strayed>>
      BY <2>1 DEF RefreshDrives, Select, CancelWrite, CloseEvent, history
    <3> QED BY <2>0, <3>1, Stutter
  <2>2. CASE Decline
    BY <2>0, <2>2, Stutter DEF Shape, NoJob, Decline, history
  <2>3. ASSUME NEW i \in Images, StartWrite(i) PROVE UNCHANGED Promise!vars
    <3>1. job'.pc = "none" /\ job.pc = "none" /\ UNCHANGED <<media, touched, strayed>>
      BY <2>3 DEF Shape, NoJob, StartWrite, history
    <3> QED BY <2>0, <3>1 DEF Promise!vars, Phase, Strays
  <2>4. CASE Confirm
    <3>1. /\ job.pc = "none" /\ job'.pc = "revalidate" /\ job'.image = job.image
          /\ job.image \in Images /\ UNCHANGED <<media, touched, strayed>>
      BY <2>4 DEF TypeOK, Jobs, Shape, Confirm, history
    <3>2. Promise!Confirm(job.image)
      BY <2>0, <3>1 DEF Promise!Confirm, Phase, Strays
    <3> QED BY <3>1, <3>2 DEF Promise!Next
  <2>5. CASE WriteFinished
    <3>1. job.pc = "done" /\ job'.pc = "none" /\ touched' = {} /\ strayed' = {}
          /\ UNCHANGED media
      BY <2>5 DEF WriteFinished, NoJob
    <3>2. Promise!Report
      BY <2>0, <3>1 DEF Promise!Report, Phase, Strays
    <3> QED BY <3>2 DEF Promise!Next
  <2> QED BY <1>3, <2>1, <2>2, <2>3, <2>4, <2>5 DEF Window
<1>4. CASE WriteBlock
  <2>1. /\ job.handle \in Devices /\ job.at + 1 \in 1..Length[job.image]
        /\ job.at + 1 \in 1..Blocks
    BY <1>4, BlockRange DEF TypeOK, Jobs, Shape, OneTarget, WriteBlock, Room
  <2>2. touched \subseteq {job.handle} /\ touched' = {job.handle}
    BY <1>4, <2>1, BlockRange DEF OneTarget, WriteBlock
  <2>3. /\ job'.pc = job.pc /\ job'.image = job.image /\ job'.result = job.result
        /\ UNCHANGED <<Strays, strayed>>
    BY <1>4 DEF TypeOK, Jobs, WriteBlock, Strays
  <2>4. \/ [d \in Devices |-> media'[d]] = [d \in Devices |-> media[d]]
        \/ [d \in Devices |-> media'[d]] =
             [[d \in Devices |-> media[d]] EXCEPT ![job.handle][job.at + 1] = job.image]
    <3>1. CASE media' = media
      BY <3>1
    <3>2. CASE media' = [media EXCEPT ![job.handle][job.at + 1] = job.image]
      BY <2>1, <3>2 DEF TypeOK, Targets
    <3> QED BY <1>4, <3>1, <3>2 DEF WriteBlock
  <2>5. ASSUME NEW d \in Devices, NEW k \in 1..Blocks, d = job.handle, k = job.at + 1
        PROVE  Promise!Change(d, k)
    BY <1>4, <2>1, <2>2, <2>3, <2>4, <2>5 DEF Promise!Change, Phase, Strays, WriteBlock
  <2>6. \E d \in Devices, k \in 1..Blocks : Promise!Change(d, k)
    BY <2>1, <2>5
  <2> QED BY <2>6 DEF Promise!Next
<1>5. CASE Worker /\ ~WriteBlock /\ ~Interrupt
  <2>1. UNCHANGED <<media, touched, strayed, orphan>> /\ job.pc \notin {"none", "done"}
    BY <1>5 DEF TypeOK, Worker, Revalidate, Unmount, Open, EndWrite, VerifyOpen, VerifyBlock,
                EndVerify, Eject, DeviceError, history
  <2>2. \/ Finish("failed") \/ Finish("cancelled")
        \/ Finish("ok") /\ \E d \in Devices : d \in strayed \/ Holds(d, job.image)
        \/ job'.image = job.image /\ job'.pc \notin {"none", "done"}
    <3>1. CASE EndVerify
      BY <3>1 DEF TypeOK, Jobs, Verified, EndVerify, Holds
    <3>2. CASE Eject
      BY <3>2 DEF Verified, Eject
    <3>3. CASE Revalidate \/ Unmount \/ EndWrite \/ DeviceError
      BY <3>3 DEF TypeOK, Jobs, Revalidate, Unmount, EndWrite, AfterWrite, DeviceError
    <3>4. CASE Open \/ VerifyOpen
      BY <3>4 DEF TypeOK, Jobs, Open, VerifyOpen
    <3>5. CASE VerifyBlock
      BY <3>5 DEF TypeOK, Jobs, VerifyBlock
    <3> QED BY <1>5, <3>1, <3>2, <3>3, <3>4, <3>5 DEF Worker
  <2>3. CASE Finish("failed") \/ Finish("cancelled")
    BY <2>1, <2>3, Failure DEF Promise!Next
  <2>4. ASSUME Finish("ok"), NEW d \in Devices, d \in strayed \/ Holds(d, job.image)
        PROVE  Promise!Next
    BY <2>1, <2>4, Success DEF Promise!Next
  <2>5. CASE job'.image = job.image /\ job'.pc \notin {"none", "done"}
    <3>1. UNCHANGED Strays
      BY <2>1 DEF Strays
    <3> QED BY <2>1, <2>5, <3>1, Stutter
  <2> QED BY <2>2, <2>3, <2>4, <2>5
<1>6. CASE Interrupt
  <2>1. UNCHANGED <<media, touched, strayed>> /\ job.pc \notin {"none", "done"}
    BY <1>6 DEF Interrupt, history
  <2>2. PICK r \in {"failed", "cancelled"} : Finish(r)
    BY <1>6 DEF Interrupt, Unstoppable
  <2>3. CASE UNCHANGED orphan
    BY <2>1, <2>2, <2>3, Failure DEF Promise!Next
  <2>4. CASE job.pc = "write" /\ Abandon
    BY <2>1, <2>2, <2>4, Abandoned
  <2> QED BY <1>6, <2>3, <2>4 DEF Interrupt
<1>7. CASE OrphanBlock
  BY <1>7, StrayStep
<1> QED BY <1>1, <1>2, <1>3, <1>4, <1>5, <1>6, <1>7 DEF Next, Worker

(* Away from Linux the window and the worker implement the promise about the *)
(* devices: they change only during a confirmed write, only one of them, and *)
(* only to the chosen image, and success is reported only when a device      *)
(* holds all of it (KeepsPromise of the run target_promise).                 *)
THEOREM Refinement == ASSUME "Linux" \notin Platforms PROVE Spec => KeepsPromise
<1>1. Init => Promise!Init
  BY DEF Init, NoJob, Promise!Init, Phase, Targets
<1>2. PInv /\ [Next]_vars => [Promise!Next]_(Promise!vars)
  BY StepRefines
<1> QED BY <1>1, <1>2, PromiseInvariance, PTL DEF Spec, KeepsPromise, Promise!Spec

=============================================================================
