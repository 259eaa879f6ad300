---------------------------- MODULE TargetSession ----------------------------
(***************************************************************************)
(* From the drive list to a written device: discovery, selection and       *)
(* confirmation in the window, and the write worker's phases (revalidate,  *)
(* unmount, write, verify, eject on macOS), while the user plugs and       *)
(* unplugs devices.  A device path is a location: the program finds the    *)
(* device again at each phase by opening the path.  What bytes an image    *)
(* has is the matter of module SourceSeal, so here it is one value; the    *)
(* child processes are abstracted to the blocks they write and compare     *)
(* (modules StreamProcess and MacStream), including the writer that a      *)
(* session on Linux or macOS cannot end and leaves behind.                 *)
(***************************************************************************)
EXTENDS Naturals

CONSTANTS
  Devices,    \* physical devices
  Paths,      \* OS device paths
  Fingerprints,   \* what DriveInfo.identity sees of a device besides its path
  Fingerprint,    \* [Devices -> Fingerprints]
  Capacity,   \* [Fingerprints -> Nat]: blocks
  Images, Length, Blocks,
  Platforms,  \* subset of {"Linux", "Darwin", "Windows"}
  Admin,      \* TRUE: on Windows the program runs as Administrator
  File,       \* a regular file that dd created at a device path
  Old, None

Targets == Devices \cup {File}

(* A writer that outlived its session: what it has open, and how far it is. *)
Orphans == [handle : Targets \cup {None}, image : Images, at : 0..Blocks]

ASSUME TargetAssumption ==
  /\ Fingerprint \in [Devices -> Fingerprints] /\ Capacity \in [Fingerprints -> 1..Blocks]
  /\ Blocks \in Nat /\ Length \in [Images -> 1..Blocks]
  /\ Platforms \subseteq {"Linux", "Darwin", "Windows"}
  /\ Admin \in BOOLEAN
  /\ File \notin Devices /\ None \notin Targets /\ None \notin Images /\ Old \notin Images
  /\ None \notin Orphans

VARIABLES
  platform,
  port,      \* [Paths -> Targets \cup {None}]: what an open of the path reaches
  locked,    \* devices that discovery would block (system, read-only, internal)
  media,     \* [Targets -> [1..Blocks -> Images \cup {Old}]]
  listing,   \* the window's drives, from the last refresh
  chosen,    \* the selected entry of the list, or None
  gui,       \* "idle", "confirm", "busy" or "closed"
  cancel,    \* the cancel event: "no", or set "early" (before verification) or "late"
  job,       \* the WriteWorker
  orphan,    \* a writer that outlived its session, or None
  vetted,    \* history: the device that passed revalidation in this session
  since,     \* history: what happened to it since: "plug" or "lock"
  touched,   \* history: what this session has written to
  strayed    \* history: what the orphan has written to since verification began

window == <<listing, chosen, gui>>
history == <<vetted, since, touched, strayed>>
vars == <<platform, port, locked, media, window, cancel, job, orphan, history>>

Drives == [path : Paths, print : Fingerprints, safe : BOOLEAN]

(* discover_drives lists devices; a regular file at a device path is not one. *)
(* Each platform has a list of reasons of its own for withholding a device;   *)
(* one that has none is safe.                                                 *)
Drive(p) == [path |-> p, print |-> Fingerprint[port[p]], safe |-> port[p] \notin locked]
Discovered == {Drive(p) : p \in {q \in Paths : port[q] \in Devices}}

(* DriveInfo.identity: the path and the fingerprint, not the safety state. *)
PathOnly(r) == <<r.path>>
DriveId(r) == <<r.path, r.print>>

Jobs ==
  [pc : {"none", "revalidate", "unmount", "open", "write", "reopen", "verify", "eject", "done"},
   drive : Drives \cup {None}, image : Images \cup {None}, sealed : BOOLEAN,
   handle : Targets \cup {None}, at : 0..Blocks,
   result : {"none", "ok", "failed", "cancelled"}]

NoJob == [pc |-> "none", drive |-> None, image |-> None, sealed |-> FALSE, handle |-> None,
          at |-> 0, result |-> "none"]

-----------------------------------------------------------------------------
(* The devices *)

(* Something happens to the path, or to the device, that was revalidated. *)
Since(what, hit) == since' = IF hit THEN since \cup {what} ELSE since
Replugged(p) == Since("plug", vetted # None /\ job.drive.path = p)

(* An open device is gone for whoever had it open. *)
Lost(t, r) == [r EXCEPT !.handle = IF @ = t THEN None ELSE @]

Plug(d, p) ==
  /\ port[p] = None /\ \A q \in Paths : port[q] # d
  /\ port' = [port EXCEPT ![p] = d]
  /\ Replugged(p)
  /\ UNCHANGED <<platform, locked, media, window, cancel, job, orphan, vetted, touched, strayed>>

Unplug(p) ==
  /\ port[p] \in Devices
  /\ port' = [port EXCEPT ![p] = None]
  /\ job' = Lost(port[p], job)
  /\ orphan' = IF orphan = None THEN None ELSE Lost(port[p], orphan)
  /\ Replugged(p)
  /\ UNCHANGED <<platform, locked, media, window, cancel, vetted, touched, strayed>>

(* Mounted as system storage, or switched to read-only; or released. *)
ToggleLock(d) ==
  /\ locked' = IF d \in locked THEN locked \ {d} ELSE locked \cup {d}
  /\ Since("lock", d = vetted)
  /\ UNCHANGED <<platform, port, media, window, cancel, job, orphan, vetted, touched, strayed>>

-----------------------------------------------------------------------------
(* The window *)

(* The list is rebuilt and its first entry becomes the selection; both are   *)
(* empty when discovery fails.                                               *)
KeepsChoice == listing' = Discovered /\ UNCHANGED chosen
Rebuild ==
  \E found \in {Discovered, {}} :
    /\ listing' = found
    /\ IF found = {} THEN chosen' = None ELSE chosen' \in found

RefreshDrives ==
  /\ gui = "idle"
  /\ Rebuild
  /\ UNCHANGED <<platform, port, locked, media, gui, cancel, job, orphan, history>>

Select(r) ==
  /\ gui = "idle" /\ r \in listing
  /\ chosen' = r
  /\ UNCHANGED <<platform, port, locked, media, listing, gui, cancel, job, orphan, history>>

StartWrite(i) ==
  /\ gui = "idle" /\ chosen # None
  /\ chosen.safe /\ Length[i] <= Capacity[chosen.print]
  /\ platform = "Windows" => Admin
  /\ gui' = "confirm"
  /\ job' = [NoJob EXCEPT !.drive = chosen, !.image = i]
  /\ UNCHANGED <<platform, port, locked, media, listing, chosen, cancel, orphan, history>>

Decline ==
  /\ gui = "confirm"
  /\ gui' = "idle"
  /\ job' = NoJob
  /\ UNCHANGED <<platform, port, locked, media, listing, chosen, cancel, orphan, history>>

(* Whether the worker will find a seal for its image is up to SourceSeal; it *)
(* makes a difference here on Linux only.                                    *)
Confirm ==
  /\ gui = "confirm"
  /\ gui' = "busy"
  /\ \E found \in BOOLEAN :
       /\ platform # "Linux" => ~found
       /\ job' = [job EXCEPT !.pc = "revalidate", !.sealed = found]
  /\ UNCHANGED <<platform, port, locked, media, listing, chosen, cancel, orphan, history>>

CancelWrite ==
  /\ gui = "busy" /\ job.pc # "done" /\ cancel = "no"
  /\ cancel' = IF job.pc \in {"verify", "eject"} THEN "late" ELSE "early"
  /\ UNCHANGED <<platform, port, locked, media, window, job, orphan, history>>

(* _write_finished: report, forget the worker, refresh_drives. *)
WriteFinished ==
  /\ gui = "busy" /\ job.pc = "done"
  /\ gui' = "idle"
  /\ cancel' = "no"
  /\ job' = NoJob
  /\ vetted' = None /\ since' = {} /\ touched' = {} /\ strayed' = {}
  /\ Rebuild
  /\ UNCHANGED <<platform, port, locked, media, orphan>>

(* closeEvent: refused while the worker runs.  A worker that has finished     *)
(* does not run, even when its completion has not been delivered yet.        *)
CloseEvent ==
  /\ gui = "idle" \/ (gui = "busy" /\ job.pc = "done")
  /\ gui' = "closed"
  /\ UNCHANGED <<platform, port, locked, media, listing, chosen, cancel, job, orphan, history>>

-----------------------------------------------------------------------------
(* The write worker *)

world == <<platform, port, locked, window, cancel>>

FailsSilently(r) ==
  job' = [job EXCEPT !.pc = IF r = "failed" THEN "none" ELSE "done", !.handle = None, !.result = r]
Finish(r) == job' = [job EXCEPT !.pc = "done", !.handle = None, !.result = r]
Cancelled == cancel # "no"

(* revalidate_target: fresh inventory, same path, safe, same identity. *)
Revalidated(r) == r.safe /\ DriveId(r) = DriveId(job.drive)

Revalidate ==
  /\ job.pc = "revalidate"
  /\ IF \E r \in Discovered : r.path = job.drive.path /\ Revalidated(r)
       THEN /\ vetted' = port[job.drive.path]
            /\ IF Cancelled THEN Finish("cancelled") ELSE job' = [job EXCEPT !.pc = "unmount"]
       ELSE Finish("failed") /\ UNCHANGED vetted
  /\ UNCHANGED <<world, media, orphan, since, touched, strayed>>

(* Unmounting may fail, and fails for a path that is no device any more. *)
Unmount ==
  /\ job.pc = "unmount"
  /\ \/ Finish("failed")
     \/ /\ port[job.drive.path] \in Devices
        /\ IF Cancelled THEN Finish("cancelled") ELSE job' = [job EXCEPT !.pc = "open"]
  /\ UNCHANGED <<world, media, orphan, history>>

(* The writer opens the path, after the authorization prompt if there is     *)
(* one.  dd run as root creates a missing /dev/sdX as a regular file; the    *)
(* other platforms fail.                                                     *)
Open ==
  /\ job.pc = "open"
  /\ LET p == job.drive.path IN
       \/ /\ port[p] # None
          /\ job' = [job EXCEPT !.pc = "write", !.handle = port[p]]
          /\ UNCHANGED <<port, media>>
       \/ /\ port[p] = None /\ platform = "Linux" /\ \A q \in Paths : port[q] # File
          /\ port' = [port EXCEPT ![p] = File]
          /\ media' = [media EXCEPT ![File] = [k \in 1..Blocks |-> Old]]
          /\ job' = [job EXCEPT !.pc = "write", !.handle = File]
       \/ /\ port[p] = None
          /\ Finish("failed")
          /\ UNCHANGED <<port, media>>
  /\ UNCHANGED <<platform, locked, window, cancel, orphan, history>>

Room(t, k) == t = File \/ (t \in Devices /\ k <= Capacity[Fingerprint[t]])

(* A bad or counterfeit device may acknowledge a block and not keep it; on   *)
(* Windows a raw write may also come back short, unnoticed.                  *)
WriteBlock ==
  /\ job.pc = "write" /\ job.at < Length[job.image]
  /\ LET k == job.at + 1 IN
     /\ Room(job.handle, k)
     /\ media' \in {media, [media EXCEPT ![job.handle][k] = job.image]}
     /\ touched' = touched \cup {job.handle}
     /\ job' = [job EXCEPT !.at = k]
  /\ UNCHANGED <<world, orphan, vetted, since, strayed>>

SkipsVerify == job' = [job EXCEPT !.pc = "done", !.handle = None, !.result = "ok"]
AfterWrite == job' = [job EXCEPT !.pc = "reopen", !.handle = None, !.at = 0]

EndWrite ==
  /\ job.pc = "write" /\ job.at = Length[job.image]
  /\ AfterWrite
  /\ UNCHANGED <<world, media, orphan, history>>

(* The verifier opens the path again.  A sealed stream, the FIFO of macOS    *)
(* and the loop on Windows look at the cancel event before the first block,  *)
(* Windows with the device open already.  cmp of an unsealed write on Linux  *)
(* is polled first: one that has ended by then is not asked about a cancel.  *)
LooksFirst == platform # "Linux" \/ job.sealed
SkipsCheck == FALSE
CancelBeforeVerify == Cancelled /\ LooksFirst

VerifyOpen ==
  /\ job.pc = "reopen"
  /\ LET t == port[job.drive.path] IN
       IF t = None /\ (platform = "Windows" \/ ~CancelBeforeVerify) THEN Finish("failed")
       ELSE IF CancelBeforeVerify THEN Finish("cancelled")
       ELSE job' = [job EXCEPT !.pc = "verify", !.handle = t]
  /\ UNCHANGED <<world, media, orphan, history>>

VerifyBlock ==
  /\ job.pc = "verify" /\ job.at < Length[job.image] /\ job.handle # None
  /\ LET k == job.at + 1
     IN IF Room(job.handle, k) /\ media[job.handle][k] = job.image
          THEN job' = [job EXCEPT !.at = k]
          ELSE Finish("failed")
  /\ UNCHANGED <<world, media, orphan, history>>

EndVerify ==
  /\ job.pc = "verify" /\ job.at = Length[job.image]
  /\ IF platform = "Darwin" THEN job' = [job EXCEPT !.pc = "eject", !.handle = None]
     ELSE Finish("ok")
  /\ UNCHANGED <<world, media, orphan, history>>

(* diskutil eject; a failure makes the verified write a failed operation. *)
Eject ==
  /\ job.pc = "eject"
  /\ \E r \in {"ok", "failed"} : Finish(r)
  /\ UNCHANGED <<world, media, orphan, history>>

(* The child may outlive the attempt to end it.  On Linux one that runs as   *)
(* root refuses the signal and one that hangs outlasts SIGKILL's timeout;    *)
(* both are errors.  On macOS only osascript is ended, so that root's dd     *)
(* writes on, also after a clean "cancelled"; or the timeout is an error.    *)
(* cmp left behind writes nothing.  One orphan is kept at a time (bound).    *)
Unstoppable ==
  /\ platform # "Windows"
  /\ Finish("failed") \/ (platform = "Darwin" /\ Finish("cancelled"))
Abandon ==
  /\ orphan = None
  /\ orphan' = [handle |-> job.handle, image |-> job.image, at |-> job.at]

(* A cancel is noticed.  Windows looks only once the device is open.         *)
Interrupt ==
  /\ job.pc \in {"open", "write", "verify"} /\ Cancelled
  /\ platform = "Windows" => job.pc # "open"
  /\ \/ Finish("cancelled") /\ UNCHANGED orphan
     \/ Unstoppable /\ (IF job.pc = "write" THEN Abandon ELSE UNCHANGED orphan)
  /\ UNCHANGED <<world, media, history>>

DeviceError ==
  /\ job.pc \in {"write", "verify"}
  /\ Finish("failed")
  /\ UNCHANGED <<world, media, orphan, history>>

(* The abandoned writer goes on, as far as it likes: to the end of the image *)
(* when dd reads the file itself, as far as pipe or FIFO hold bytes when it  *)
(* is fed, or by the one block that a killed child had in flight.            *)
OrphanBlock ==
  /\ orphan # None
  /\ \/ /\ orphan.at < Length[orphan.image] /\ Room(orphan.handle, orphan.at + 1)
        /\ media' = [media EXCEPT ![orphan.handle][orphan.at + 1] = orphan.image]
        /\ orphan' = [orphan EXCEPT !.at = @ + 1]
        /\ strayed' = IF job.pc \in {"verify", "eject", "done"}
                        THEN strayed \cup {orphan.handle} ELSE strayed
     \/ /\ orphan' = None
        /\ UNCHANGED <<media, strayed>>
  /\ UNCHANGED <<world, job, vetted, since, touched>>

Worker ==
  \/ Revalidate \/ Unmount \/ Open \/ WriteBlock \/ EndWrite \/ VerifyOpen
  \/ VerifyBlock \/ EndVerify \/ Eject \/ Interrupt \/ DeviceError

-----------------------------------------------------------------------------
Init ==
  /\ platform \in Platforms
  /\ port = [p \in Paths |-> None]
  /\ locked \in SUBSET Devices
  /\ media = [t \in Targets |-> [k \in 1..Blocks |-> Old]]
  /\ listing = {} /\ chosen = None /\ gui = "idle"
  /\ cancel = "no" /\ job = NoJob /\ orphan = None
  /\ vetted = None /\ since = {} /\ touched = {} /\ strayed = {}

Environment ==
  \/ \E d \in Devices, p \in Paths : Plug(d, p)
  \/ \E p \in Paths : Unplug(p)
  \/ \E d \in Devices : ToggleLock(d)

Window ==
  \/ RefreshDrives \/ (\E r \in listing : Select(r))
  \/ (\E i \in Images : StartWrite(i))
  \/ Decline \/ Confirm \/ CancelWrite \/ WriteFinished \/ CloseEvent

Next == Environment \/ Window \/ Worker \/ OrphanBlock

(* All that the program owes: the event loop runs, so that a completion is   *)
(* delivered.  The steps of the worker wait for others: revalidation,        *)
(* unmounting and prompts for their answer, reads and writes for the device, *)
(* a full pipe and communicate() for the child.  None has a bound.           *)
Fairness == WF_vars(WriteFinished)
CallsReturn == WF_vars(Worker)

Spec == Init /\ [][Next]_vars
FairSpec == Spec /\ Fairness

-----------------------------------------------------------------------------
(* Properties *)

Holds(t, i) == \A k \in 1..Length[i] : media[t][k] = i

(* Types of the window, the devices and the worker. *)
TypeOK ==
  /\ platform \in Platforms
  /\ port \in [Paths -> Targets \cup {None}]
  /\ locked \subseteq Devices
  /\ media \in [Targets -> [1..Blocks -> Images \cup {Old}]]
  /\ listing \subseteq Drives /\ chosen \in listing \cup {None}
  /\ gui \in {"idle", "confirm", "busy", "closed"}
  /\ cancel \in {"no", "early", "late"}
  /\ job \in Jobs /\ orphan \in Orphans \cup {None}
  /\ vetted \in Devices \cup {None} /\ since \subseteq {"plug", "lock"}
  /\ touched \subseteq Targets /\ strayed \subseteq Targets

(* revalidate_target and the phases after it: as long as nobody re-plugs the *)
(* path after the revalidation, a write reaches only a device that was safe  *)
(* then and has the fingerprint the user confirmed, however stale the list   *)
(* was.                                                                      *)
ConfirmedUnlessSwapped ==
  touched # {} /\ "plug" \notin since =>
    /\ touched = {vetted} /\ Fingerprint[vetted] = job.drive.print
    /\ "lock" \in since \/ vetted \notin locked

(* A reported success means that the device that was confirmed and vetted    *)
(* holds the whole image, also when the device loses blocks: unless the path *)
(* was re-plugged meanwhile, or the writer that an earlier cancelled session *)
(* left behind wrote to the device when verification had begun.  What it     *)
(* writes before that, verification notices.                                 *)
SuccessOnTarget ==
  job.result = "ok" /\ "plug" \notin since /\ vetted \notin strayed =>
    vetted \in Devices /\ Holds(vetted, job.image)

(* A cancel that comes before verification has begun never ends as success,  *)
(* even when the write itself completed first: on every platform but for an  *)
(* unsealed write on Linux, whose verifier looks too late (boot_it.py:373).  *)
EarlyCancelNeverOk == cancel = "early" /\ LooksFirst => job.result # "ok"

(* A confirmed write ends and gives the window back, unless the user closes  *)
(* the window before the end has been delivered, and as long as every call   *)
(* that the worker waits for returns.                                        *)
SessionEnds == CallsReturn => (gui = "busy" ~> gui \in {"idle", "closed"})

(* README.md: every successful write is verified byte for byte.  Here: some  *)
(* device holds the image when success is reported.                          *)
SuccessReachesDevice == job.result = "ok" => \E d \in Devices : Holds(d, job.image)

(* The promise about the devices: see VerifiedMedia. *)
Phase ==
  IF job.pc = "none" THEN "idle"
  ELSE IF job.pc # "done" THEN "busy"
  ELSE IF job.result = "ok" THEN "ok" ELSE "notok"

Promise == INSTANCE VerifiedMedia WITH
  media <- [d \in Devices |-> media[d]],
  phase <- Phase,
  image <- IF job.pc = "none" THEN None ELSE job.image,
  target <- IF touched = {} THEN None ELSE CHOOSE t \in touched : TRUE,
  strays <- IF orphan = None THEN {}
            ELSE IF orphan.handle = None THEN {}
            ELSE {[device |-> orphan.handle, image |-> orphan.image]},
  escaped <- strayed

(* The window and the worker keep that promise. *)
KeepsPromise == Promise!Spec

=============================================================================
