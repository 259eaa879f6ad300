---------------------------- MODULE MacTopology ----------------------------
(***************************************************************************)
(* macOS target discovery: one run of discover_macos_drives.  It lists the *)
(* external physical disks, follows "/" through APFS physical stores and   *)
(* parent disks to the hardware, and blocks the disks it finds there.      *)
(* Every look at a disk is a diskutil call of its own that may fail: one   *)
(* for "/" leaves the system's storage unresolved, one further down is     *)
(* passed over.  The search is recursive; its calls are a stack here.      *)
(***************************************************************************)
EXTENDS Naturals, Sequences

CONSTANTS
  Nodes,    \* disk identifiers: volumes, containers, partitions, disks
  Slash,    \* the one that "/" is
  Worlds,   \* what diskutil says of them: functions from Nodes to records
  NoNode,   \* a disk with no parent
  MaxLost   \* bound: calls below "/" that fail

Infos ==
  [whole : BOOLEAN, virtual : BOOLEAN, internal : {"yes", "no", "missing"},
   removable : BOOLEAN, writable : BOOLEAN, stores : SUBSET Nodes,
   parent : Nodes \cup {NoNode}]

(* A physical disk is not made of APFS stores. *)
ASSUME MacAssumption ==
  /\ Slash \in Nodes /\ NoNode \notin Nodes /\ MaxLost \in Nat
  /\ Worlds \subseteq [Nodes -> Infos]
  /\ \A w \in Worlds, n \in Nodes : w[n].whole /\ ~w[n].virtual => w[n].stores = {}

VARIABLES
  world,     \* the descriptions
  stage,     \* "list", "root", "search", "inspect" or "done"
  frames,    \* the open calls of _physical_backing_disks, the deepest one last
  visited,   \* the nodes that they share as seen
  lost,      \* the calls below "/" that have failed
  shielded,  \* protected
  settled,   \* topology_resolved
  entries,   \* inventory entries that are left
  drives     \* the disks reported as safe

searchVars == <<frames, visited, lost>>
macVars == <<world, stage, searchVars, shielded, settled, entries, drives>>

Physical(n) == world[n].whole /\ ~world[n].virtual
External(n) == world[n].removable \/ world[n].internal = "no"

-----------------------------------------------------------------------------
(* diskutil list: when it fails, so does the discovery. *)
ListExternal ==
  /\ stage = "list"
  /\ \/ /\ stage' = "root"
        /\ \E found \in SUBSET {n \in Nodes : world[n].whole} : entries' = found
     \/ stage' = "done" /\ UNCHANGED entries
  /\ UNCHANGED <<world, searchVars, shielded, settled, drives>>

(* _protected_root_disks *)
RootFails ==
  /\ stage = "root" /\ stage' = "inspect"
  /\ UNCHANGED <<world, searchVars, shielded, settled, entries, drives>>

RootInternal ==
  /\ stage = "root" /\ stage' = "inspect"
  /\ world[Slash].internal = "yes"
  /\ settled' = TRUE
  /\ UNCHANGED <<world, searchVars, shielded, entries, drives>>

(* A call: its node, the stores it has yet to look at, and what it has        *)
(* resolved so far.  The order of the stores does not matter.                 *)
Call(n) == [node |-> n, todo |-> world[n].stores, found |-> {}]
Depth == Len(frames)
Top == frames[Depth]
Callers == SubSeq(frames, 1, Depth - 1)

RootExternal ==
  /\ stage = "root" /\ world[Slash].internal # "yes"
  /\ stage' = "search"
  /\ frames' = <<Call(Slash)>> /\ visited' = {Slash}
  /\ UNCHANGED <<world, lost, shielded, settled, entries, drives>>

-----------------------------------------------------------------------------
(* _physical_backing_disks *)

(* A diskutil call for a disk below "/" raises. *)
InfoFails == lost < MaxLost /\ lost' = lost + 1

(* One store of the loop; a failed call is passed over, and a node that has   *)
(* been visited resolves to nothing.                                          *)
FirstStoreOnly(store) == {}
StoresAfter(store) == Top.todo \ {store}

LookAtStore(store) ==
  /\ stage = "search" /\ store \in Top.todo
  /\ LET waiting == [frames EXCEPT ![Depth].todo = StoresAfter(store)] IN
     \/ InfoFails /\ frames' = waiting /\ UNCHANGED visited
     \/ /\ store \in visited
        /\ frames' = waiting /\ UNCHANGED <<visited, lost>>
     \/ /\ store \notin visited
        /\ frames' = Append(waiting, Call(store))
        /\ visited' = visited \cup {store} /\ UNCHANGED lost
  /\ UNCHANGED <<world, stage, shielded, settled, entries, drives>>

AlwaysSettled(disks) == TRUE
Settles(disks) == disks # {}

(* Disks are returned to the loop of the caller, or as those behind "/". *)
Return(disks) ==
  IF Depth > 1
    THEN /\ frames' = [Callers EXCEPT ![Depth - 1].found = @ \cup disks]
         /\ UNCHANGED <<stage, shielded, settled>>
    ELSE /\ frames' = <<>> /\ stage' = "inspect"
         /\ shielded' = disks /\ settled' = Settles(disks)

StoresDone == stage = "search" /\ Top.todo = {}

ReturnResolved ==
  /\ StoresDone /\ Top.found # {}
  /\ Return(Top.found)
  /\ UNCHANGED <<world, visited, lost, entries, drives>>

ReturnDisk ==
  /\ StoresDone /\ Top.found = {} /\ Physical(Top.node)
  /\ Return({Top.node})
  /\ UNCHANGED <<world, visited, lost, entries, drives>>

(* What the parent resolves to is returned as it is, so the call for the      *)
(* parent takes the place of this one.                                        *)
LookAtParent ==
  LET parent == world[Top.node].parent IN
  /\ StoresDone /\ Top.found = {} /\ ~Physical(Top.node)
  /\ \/ /\ \/ parent \in {NoNode, Top.node} /\ UNCHANGED lost
           \/ parent \notin {NoNode, Top.node} /\ InfoFails
           \/ parent \in visited /\ UNCHANGED lost
        /\ Return({}) /\ UNCHANGED visited
     \/ /\ parent \notin {NoNode, Top.node} \cup visited
        /\ frames' = [frames EXCEPT ![Depth] = Call(parent)]
        /\ visited' = visited \cup {parent}
        /\ UNCHANGED <<lost, stage, shielded, settled>>
  /\ UNCHANGED <<world, entries, drives>>

-----------------------------------------------------------------------------
(* classify_macos_drive: a drive is safe when no reason applies. *)
Acceptable(n) ==
  /\ settled
  /\ world[n].whole /\ world[n].internal # "yes" /\ ~world[n].virtual
  /\ n \notin shielded
  /\ External(n) /\ world[n].writable

(* One entry of the inventory; when diskutil info fails, it is left out. *)
Inspect(n) ==
  /\ stage = "inspect" /\ n \in entries
  /\ entries' = entries \ {n}
  /\ \/ drives' = IF Acceptable(n) THEN drives \cup {n} ELSE drives
     \/ UNCHANGED drives
  /\ UNCHANGED <<world, stage, searchVars, shielded, settled>>

InspectedAll ==
  /\ stage = "inspect" /\ entries = {} /\ stage' = "done"
  /\ UNCHANGED <<world, searchVars, shielded, settled, entries, drives>>

MacInit ==
  /\ world \in Worlds
  /\ stage = "list" /\ frames = <<>> /\ visited = {} /\ lost = 0
  /\ shielded = {} /\ settled = FALSE /\ entries = {} /\ drives = {}

MacNext ==
  \/ ListExternal \/ RootFails \/ RootInternal \/ RootExternal
  \/ (\E n \in Nodes : LookAtStore(n)) \/ ReturnResolved \/ ReturnDisk \/ LookAtParent
  \/ (\E n \in Nodes : Inspect(n)) \/ InspectedAll

MacSpec == MacInit /\ [][MacNext]_macVars

-----------------------------------------------------------------------------
(* Properties *)

(* What a disk or volume is stored on, and whether n comes down to d: no set  *)
(* that holds n and all that its members are stored on is without d.          *)
StoredOn(n) ==
  IF world[n].stores # {} THEN world[n].stores
  ELSE IF Physical(n) THEN {}
  ELSE {world[n].parent} \ {NoNode}
Holds(d, n) ==
  \A S \in SUBSET Nodes : n \in S /\ (\A m \in S : StoredOn(m) \subseteq S) => d \in S

(* The same, where the parent of what has stores is a way down as well: the   *)
(* way that is taken when those stores lead nowhere.                          *)
WaysDown(n) == world[n].stores \cup ({world[n].parent} \ {NoNode})
Leads(n, d) ==
  \A S \in SUBSET Nodes : n \in S /\ (\A m \in S : WaysDown(m) \subseteq S) => d \in S

(* A physical disk that an external "/" is stored on, on its own or together  *)
(* with others, is never offered, unless a diskutil call on the way to it     *)
(* failed; and then another disk that "/" leads to has been found and is not  *)
(* offered.                                                                   *)
MacRootProtected ==
  \A d \in drives :
    world[Slash].internal # "yes" /\ Holds(d, Slash) =>
      lost > 0 /\ \E e \in shielded : Physical(e) /\ Leads(Slash, e) /\ e \notin drives

(* As long as no disk of "/" is known, external disks are not offered, unless *)
(* "/" is internal.                                                           *)
MacFailsClosed ==
  drives # {} =>
    world[Slash].internal = "yes" \/ \E d \in shielded : Physical(d) /\ Leads(Slash, d)

-----------------------------------------------------------------------------
(* The inductive invariant behind them: see TopologyProofs.                   *)

Frames == [node : Nodes, todo : SUBSET Nodes, found : SUBSET Nodes]

(* Types, and where the variables of the search are in use. *)
MacTypes ==
  /\ world \in Worlds
  /\ stage \in {"list", "root", "search", "inspect", "done"}
  /\ frames \in Seq(Frames) /\ visited \in SUBSET Nodes /\ lost \in 0..MaxLost
  /\ shielded \in SUBSET Nodes /\ settled \in BOOLEAN
  /\ entries \in SUBSET Nodes /\ drives \in SUBSET Nodes
  /\ stage = "search" <=> frames # <<>>
  /\ stage \in {"list", "root", "search"} => ~settled /\ shielded = {} /\ drives = {}
  /\ stage \in {"list", "root"} => lost = 0
  /\ stage = "search" => Slash \in visited /\ world[Slash].internal # "yes"

(* "/" leads to every node of the search and to every disk it has found. *)
FoundBelow ==
  /\ \A n \in visited : Leads(Slash, n)
  /\ \A k \in 1..Depth :
       /\ frames[k].node \in visited
       /\ frames[k].todo \subseteq world[frames[k].node].stores
       /\ \A e \in frames[k].found : e \in visited /\ Physical(e)
       /\ world[frames[k].node].stores = {} => frames[k].found = {}
       /\ k < Depth => world[frames[k].node].stores # {}
  /\ \A e \in shielded : e \in visited /\ Physical(e)

(* As long as no call has failed, the nodes visited are closed up to what the *)
(* open calls have yet to look at.                                            *)
Pursued(n, m) ==
  \E k \in 1..Depth :
    frames[k].node = n /\ (world[n].stores = {} \/ m \in frames[k].todo)
AllPursued ==
  lost = 0 => \A n \in visited : \A m \in StoredOn(n) : m \in visited \/ Pursued(n, m)

(* A physical disk that was visited is not lost on the way back. *)
Remembered(d) == \E k \in 1..Depth : frames[k].node = d \/ d \in frames[k].found
NoneForgotten ==
  \A d \in visited : Physical(d) => d \in shielded \/ (stage = "search" /\ Remembered(d))

(* What a discovery rests on that offers anything. *)
Offering ==
  /\ settled => \/ world[Slash].internal = "yes"
                \/ shielded # {} /\ Slash \in visited
  /\ \A d \in drives : settled /\ Physical(d) /\ d \notin shielded

MacInv == MacTypes /\ FoundBelow /\ AllPursued /\ NoneForgotten /\ Offering

=============================================================================
