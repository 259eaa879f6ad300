----------------------------- MODULE Discovery -----------------------------
(***************************************************************************)
(* discover_drives: one discovery, by the backend of the system that       *)
(* Boot It runs on.  Windows asks one PowerShell script and keeps no state *)
(* between calls.                                                          *)
(***************************************************************************)
EXTENDS Topology, MacTopology

VARIABLE system  \* platform.system()

discoveryVars == <<system, vars, macVars>>

(* The storage of a system is described for its own backend only. *)
NoMac == world = CHOOSE w \in Worlds : TRUE
NoLinux ==
  /\ parents = CHOOSE g \in Graphs : TRUE
  /\ source = [m \in Mounts |-> Nothing] /\ backing = [m \in Mounts |-> Nothing]

DiscoveryInit ==
  /\ \/ system = "Linux" /\ NoMac
     \/ system = "Darwin" /\ NoLinux
  /\ Init /\ MacInit

DiscoveryNext ==
  \/ system = "Linux" /\ Next /\ UNCHANGED <<system, macVars>>
  \/ system = "Darwin" /\ MacNext /\ UNCHANGED <<system, vars>>

DiscoverySpec == DiscoveryInit /\ [][DiscoveryNext]_discoveryVars
FairDiscovery == DiscoverySpec /\ WF_discoveryVars(DiscoveryNext)

(* A discovery ends on either system, whatever the device graph looks like    *)
(* (the sets of visited nodes), so the window gets its list of drives.        *)
EverySystemEnds == <>(pc = "done" \/ stage = "done")

=============================================================================
