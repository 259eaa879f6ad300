------------------------------ MODULE Topology ------------------------------
(***************************************************************************)
(* Linux target discovery: which removable disks may be offered as write   *)
(* targets.  One run of discover_linux_drives reads the device graph       *)
(* (lsblk) and the sources of the critical mounts (findmnt), climbs from   *)
(* each source to everything it is stacked on (partition, LVM, LUKS, RAID, *)
(* disk) and blocks the disks it reaches.  When the system's storage       *)
(* cannot be resolved, every target is blocked.                            *)
(***************************************************************************)
EXTENDS Naturals, Sequences

CONSTANTS
  Devices,    \* paths in the lsblk graph
  Disks,      \* those of type disk
  Removable,  \* rm, or on a usb transport
  ReadOnly,   \* ro
  Graphs,     \* device graphs: functions from a device to its parents
  Mounts,     \* the mount points of CRITICAL_MOUNTS
  Critical,   \* the same, in the order they are examined
  Root,       \* "/"
  Nothing,    \* no source: not mounted, or findmnt printed nothing
  Failed,     \* findmnt failed
  Foreign,    \* a source that is not under /dev/: zfs, overlay, systemd-1
  Absent      \* a /dev/ path that lsblk does not list

ASSUME TopologyAssumption ==
  /\ Disks \subseteq Devices /\ Removable \subseteq Devices /\ ReadOnly \subseteq Devices
  /\ Graphs \subseteq [Devices -> SUBSET Devices]
  /\ Critical \in Seq(Mounts) /\ Root \in Mounts
  /\ \A m \in Mounts : \E i \in 1..Len(Critical) : Critical[i] = m
  /\ {Nothing, Failed, Foreign, Absent} \cap Devices = {}
  /\ Nothing # Foreign /\ Nothing # Absent /\ Failed # Foreign /\ Failed # Absent
  /\ Foreign # Absent

VARIABLES
  parents,    \* the graph of _flatten: nesting and PKNAME together
  source,     \* what findmnt reports for each critical mount
  backing,    \* history: the device that really backs it, or Nothing
  pc,         \* "read", "mount", "climb", "report" or "done"
  index,      \* the mount being examined
  pending,    \* _ancestors: devices to visit (a list in the code)
  seen,       \* _ancestors: devices visited
  protected,  \* protected_devices
  resolved,   \* topology.resolved; until the end, whether a mount resolved
  offered     \* the disks reported as safe

inputs == <<parents, source, backing>>
vars == <<inputs, pc, index, pending, seen, protected, resolved, offered>>

Mount == Critical[index]

(* One return of analyze_linux_topology with resolved = False, or the        *)
(* exception of _mount_sources.                                              *)
GiveUp == pc' = "report" /\ resolved' = FALSE

(* Only a failure for "/" is fatal. *)
ReadMounts ==
  /\ pc = "read"
  /\ IF source[Root] = Failed THEN GiveUp ELSE pc' = "mount" /\ UNCHANGED resolved
  /\ UNCHANGED <<inputs, index, pending, seen, protected, offered>>

NeverFatal == FALSE
Fatal == source[Mount] = Absent \/ (source[Mount] = Foreign /\ Mount = Root)

SkipMount ==
  /\ pc = "mount" /\ index <= Len(Critical)
  /\ source[Mount] \notin Devices /\ ~Fatal
  /\ index' = index + 1
  /\ UNCHANGED <<inputs, pc, pending, seen, protected, resolved, offered>>

Unresolvable ==
  /\ pc = "mount" /\ index <= Len(Critical)
  /\ source[Mount] \notin Devices /\ Fatal
  /\ GiveUp
  /\ UNCHANGED <<inputs, index, pending, seen, protected, offered>>

StartClimb ==
  /\ pc = "mount" /\ index <= Len(Critical)
  /\ source[Mount] \in Devices
  /\ pending' = {source[Mount]}
  /\ seen' = {}
  /\ pc' = "climb"
  /\ UNCHANGED <<inputs, index, protected, resolved, offered>>

OneParent(d) == IF parents[d] = {} THEN {} ELSE {CHOOSE p \in parents[d] : TRUE}
EmptyParent(d) == IF parents[d] = {} THEN {Nothing} ELSE parents[d]
Neighbours(d) == parents[d] \cup {c \in Devices : d \in parents[c]}
NextUp(d) == parents[d]

VisitAgain(d) ==
  /\ pc = "climb" /\ d \in pending
  /\ pending' = (pending \ {d}) \cup NextUp(d)
  /\ seen' = seen \cup {d}
  /\ UNCHANGED <<inputs, pc, index, protected, resolved, offered>>

Visit(d) ==
  /\ pc = "climb" /\ d \in pending
  /\ IF d \in seen
       THEN pending' = pending \ {d} /\ UNCHANGED seen
       ELSE /\ pending' = (pending \ {d}) \cup NextUp(d)
            /\ seen' = seen \cup {d}
  /\ UNCHANGED <<inputs, pc, index, protected, resolved, offered>>

EndClimb ==
  /\ pc = "climb" /\ pending = {}
  /\ protected' = protected \cup seen
  /\ resolved' = TRUE
  /\ index' = index + 1
  /\ pc' = "mount"
  /\ UNCHANGED <<inputs, pending, seen, offered>>

EndMounts ==
  /\ pc = "mount" /\ index > Len(Critical)
  /\ pc' = "report"
  /\ UNCHANGED <<inputs, index, pending, seen, protected, resolved, offered>>

(* The reasons of discover_linux_drives, in the code's order; a drive is     *)
(* safe when it has none.                                                    *)
Safe(d) == resolved /\ d \notin protected /\ d \notin ReadOnly

Report ==
  /\ pc = "report"
  /\ offered' = {d \in Disks \cap Removable : Safe(d)}
  /\ pc' = "done"
  /\ UNCHANGED <<inputs, index, pending, seen, protected, resolved>>

-----------------------------------------------------------------------------
Sources == Devices \cup {Nothing, Failed, Foreign, Absent}

(* findmnt names the device, if it names one, and what is not mounted is on   *)
(* none; other sources may hide any device.                                   *)
Truthful ==
  \A m \in Mounts :
    /\ source[m] \in Devices => backing[m] = source[m]
    /\ source[m] = Nothing \/ (source[m] = Failed /\ m # Root) => backing[m] = Nothing

Init ==
  /\ parents \in Graphs
  /\ source \in [Mounts -> Sources]
  /\ backing \in [Mounts -> Devices \cup {Nothing}]
  /\ Truthful
  /\ pc = "read" /\ index = 1
  /\ pending = {} /\ seen = {} /\ protected = {}
  /\ resolved = FALSE
  /\ offered = {}

Next ==
  \/ ReadMounts \/ SkipMount \/ Unresolvable \/ StartClimb
  \/ (\E d \in Devices : Visit(d)) \/ EndClimb \/ EndMounts \/ Report

Spec == Init /\ [][Next]_vars

-----------------------------------------------------------------------------
(* Properties *)

(* Every variable of one discovery keeps its type. *)
TypeOK ==
  /\ parents \in [Devices -> SUBSET Devices]
  /\ source \in [Mounts -> Sources]
  /\ backing \in [Mounts -> Devices \cup {Nothing}]
  /\ pc \in {"read", "mount", "climb", "report", "done"}
  /\ index \in 1..(Len(Critical) + 1)
  /\ pc = "climb" => index <= Len(Critical)
  /\ pending \in SUBSET Devices /\ seen \in SUBSET Devices
  /\ protected \in SUBSET Devices
  /\ resolved \in BOOLEAN
  /\ offered \in SUBSET Devices

Closed(S) == \A d \in S : parents[d] \subseteq S

(* d is on the way from s down to the hardware: no set that holds s and is   *)
(* closed under parents is without d.                                        *)
Backs(d, s) == \A S \in SUBSET Devices : s \in S /\ Closed(S) => d \in S

(* README.md: system disks are excluded from the writable target set.  A disk *)
(* that a critical mount is really stacked on, through any number of layers   *)
(* and any of several parents, is never offered, except for the mounts that   *)
(* the code skips: those other than "/" with a source that is not under /dev/.*)
SystemDisksBlocked ==
  \A d \in offered, m \in Mounts :
    backing[m] \in Devices /\ Backs(d, backing[m]) => source[m] = Foreign /\ m # Root

(* Protection is not overdone: a removable, writable disk is withheld in a   *)
(* resolved discovery only when it does back a critical mount.               *)
OnlySystemDisksBlocked ==
  pc = "done" /\ resolved =>
    \A d \in (Disks \cap Removable) \ (ReadOnly \cup offered) :
      \E m \in Mounts : source[m] \in Devices /\ Backs(d, source[m])

(* Without a resolvable "/" no target is offered at all, whatever the other  *)
(* mounts say ("/" that reports no source is the exception the code makes).  *)
FailsClosed ==
  source[Root] \in {Failed, Foreign, Absent} => offered = {}

-----------------------------------------------------------------------------
(* The inductive invariant behind SystemDisksBlocked: see TopologyProofs.    *)

(* The visited part of the graph is closed up to what is still pending, and  *)
(* holds nothing the start does not force.                                   *)
Climbing ==
  pc = "climb" =>
    /\ source[Mount] \in Devices
    /\ source[Mount] \in seen \cup pending
    /\ \A d \in seen : parents[d] \subseteq seen \cup pending
    /\ \A d \in seen \cup pending : Backs(d, source[Mount])

(* What is protected is closed, covers the mounts examined so far, and is    *)
(* no more than they force.                                                  *)
Protecting ==
  /\ Closed(protected)
  /\ \A i \in 1..Len(Critical) :
       i < index /\ source[Critical[i]] \in Devices => source[Critical[i]] \in protected
  /\ \A d \in protected : \E m \in Mounts : source[m] \in Devices /\ Backs(d, source[m])

(* A discovery that ends resolved has examined every mount and found none    *)
(* of them fatal.                                                            *)
Passing ==
  /\ pc \in {"report", "done"} /\ resolved => index > Len(Critical)
  /\ pc \in {"mount", "climb"} \/ resolved => source[Root] # Failed
  /\ \A i \in 1..Len(Critical) :
       i < index => /\ source[Critical[i]] # Absent
                    /\ source[Critical[i]] = Foreign => Critical[i] # Root
  /\ pc = "read" => index = 1 /\ ~resolved

Reporting ==
  offered = IF pc = "done" THEN {d \in Disks \cap Removable : Safe(d)} ELSE {}

IInv == TypeOK /\ Climbing /\ Protecting /\ Passing /\ Reporting

=============================================================================
