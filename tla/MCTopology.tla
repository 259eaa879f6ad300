----------------------------- MODULE MCTopology -----------------------------
(* Two disks, and two layers above them (a partition or RAID member set, and  *)
(* a volume) with every way of stacking them: chains, diamonds, volumes over  *)
(* several disks.  The critical mounts are "/" and "/boot".  On macOS, "/" is  *)
(* a volume of a container that lies on one or two partitions, of one disk or *)
(* of two, of which the second may be a volume of another container.          *)
EXTENDS Discovery, TLC

CONSTANTS d1, d2, part, vol, boot, slash, container, p1, p2, e1, e2

(* Each layer stands on lower ones only. *)
Layered ==
  {[d \in {d1, d2, part, vol} |->
      IF d = part THEN p ELSE IF d = vol THEN v ELSE {}] :
     p \in SUBSET {d1, d2}, v \in SUBSET {d1, d2, part}}

(* A PKNAME that loops, which only the seen set keeps from looping for ever. *)
Looped == {[d \in {d1, d2, part, vol} |->
              IF d = part THEN {vol, d1} ELSE IF d = vol THEN {part} ELSE {}]}

AnyGraph == Layered \cup Looped
Order == <<Root, boot>>

Info(whole, virtual, internal, stores, parent) ==
  [whole |-> whole, virtual |-> virtual, internal |-> internal, removable |-> internal = "missing",
   writable |-> TRUE, stores |-> stores, parent |-> parent]
OneWorld(kind, on, lower, below, parent) ==
  (slash :> Info(FALSE, FALSE, kind, on, container))
  @@ (container :> Info(TRUE, TRUE, kind, lower, NoNode))
  @@ (p1 :> Info(FALSE, FALSE, kind, {}, e1))
  @@ (p2 :> Info(FALSE, FALSE, kind, below, parent))
  @@ (e1 :> Info(TRUE, FALSE, kind, {}, NoNode))
  @@ (e2 :> Info(TRUE, FALSE, "missing", {}, NoNode))
Stacks == {{p1}, {p1, p2}}
SomeWorlds ==
  {OneWorld(kind, IF on THEN lower ELSE {}, lower, p[1], p[2]) :
     kind \in {"yes", "no", "missing"}, on \in BOOLEAN, lower \in Stacks,
     p \in ({{}, {e2}} \X {e1, e2, container}) \cup {<<{slash}, container>>}}
=============================================================================
