---------------------------- MODULE VerifiedMedia ----------------------------
(***************************************************************************)
(* What Boot It promises about the physical devices, without saying how:   *)
(* a device changes only while a write that the user confirmed is going    *)
(* on, or by a writer that such a write left behind when it ended without  *)
(* success; a write and what it leaves behind change one device, and only  *)
(* to the image that was chosen; and a write is called a success only when *)
(* a device holds the whole image, but for what an old writer changed      *)
(* behind the back of the verification.                                    *)
(***************************************************************************)
EXTENDS Naturals

CONSTANTS Devices, Images, Length, Blocks, Old, None

VARIABLES
  media,   \* [Devices -> [1..Blocks -> Images \cup {Old}]]
  phase,   \* "idle", "busy", "ok" or "notok"
  image,   \* the image being written, None when idle
  target,  \* the device it has changed so far, or None
  strays,  \* writers left behind, each with its device and image
  escaped  \* devices that they may have changed unnoticed in this session

vars == <<media, phase, image, target, strays, escaped>>

Holds(d, i) == \A k \in 1..Length[i] : media[d][k] = i

Init ==
  /\ media = [d \in Devices |-> [k \in 1..Blocks |-> Old]]
  /\ phase = "idle" /\ image = None /\ target = None
  /\ strays = {} /\ escaped = {}

Confirm(i) ==
  /\ phase = "idle"
  /\ phase' = "busy" /\ image' = i
  /\ UNCHANGED <<media, target, strays, escaped>>

Change(d, k) ==
  /\ phase = "busy" /\ target \in {None, d} /\ k \in 1..Length[image]
  /\ media' \in {media, [media EXCEPT ![d][k] = image]}
  /\ target' = d
  /\ UNCHANGED <<phase, image, strays, escaped>>

Succeed ==
  /\ phase = "busy" /\ \E d \in Devices : Holds(d, image) \/ d \in escaped
  /\ phase' = "ok"
  /\ UNCHANGED <<media, image, target, strays, escaped>>

Fail ==
  /\ phase = "busy"
  /\ phase' = "notok"
  /\ UNCHANGED <<media, image, target, strays, escaped>>

(* The write ends, its writer does not. *)
Abandon(d) ==
  /\ phase = "busy" /\ target \in {None, d}
  /\ phase' = "notok"
  /\ strays' = strays \cup {[device |-> d, image |-> image]}
  /\ UNCHANGED <<media, image, target, escaped>>

StrayChange(w, k) ==
  /\ k \in 1..Length[w.image]
  /\ media' = [media EXCEPT ![w.device][k] = w.image]
  /\ \/ UNCHANGED escaped
     \/ phase # "idle" /\ escaped' = escaped \cup {w.device}
  /\ UNCHANGED <<phase, image, target, strays>>

StrayEnd(w) ==
  /\ strays' = strays \ {w}
  /\ UNCHANGED <<media, phase, image, target, escaped>>

Report ==
  /\ phase \in {"ok", "notok"}
  /\ phase' = "idle" /\ image' = None /\ target' = None /\ escaped' = {}
  /\ UNCHANGED <<media, strays>>

Next ==
  \/ \E i \in Images : Confirm(i)
  \/ \E d \in Devices, k \in 1..Blocks : Change(d, k)
  \/ Succeed \/ Fail \/ (\E d \in Devices : Abandon(d))
  \/ \E w \in strays : StrayEnd(w) \/ \E k \in 1..Blocks : StrayChange(w, k)
  \/ Report

Spec == Init /\ [][Next]_vars

=============================================================================
