--------------------------- MODULE TopologyProofs ---------------------------
(***************************************************************************)
(* Proofs about Topology and MacTopology, for every device graph, any      *)
(* number of layers and of failing calls.  Reachability is stated without  *)
(* induction: d backs s when no closed set holds s without d.  On Linux    *)
(* the climb keeps a set closed up to its pending devices (Climbing); once *)
(* nothing is pending it is closed, and joins the protected set            *)
(* (Protecting).  On macOS the visited set is closed up to what the open   *)
(* calls of the search have yet to look at (AllPursued), and the disks on  *)
(* it are on their way to the protected set (NoneForgotten).               *)
(***************************************************************************)
EXTENDS Discovery, SequenceTheorems, TLAPS

(* A device backs itself, and a parent of what backs s backs s. *)
LEMMA BacksSelf == ASSUME NEW s \in Devices PROVE Backs(s, s)
  BY DEF Backs

(* What backs s is closed under parents.                                     *)
LEMMA BacksUp ==
  ASSUME NEW s \in Devices, NEW d \in Devices, Backs(d, s), NEW p \in parents[d]
  PROVE  Backs(p, s)
  BY DEF Backs, Closed

(* The inputs of a discovery do not change while it runs. *)
LEMMA InputsFrame == [Next]_vars => UNCHANGED inputs
  BY DEF Next, vars, ReadMounts, SkipMount, Unresolvable, StartClimb, Visit, EndClimb,
         EndMounts, Report

(* The graph does not change during a discovery, so neither does Backs.      *)
LEMMA BacksFrame ==
  ASSUME UNCHANGED inputs, NEW d, NEW s
  PROVE  Backs(d, s)' <=> Backs(d, s)
  BY DEF inputs, Backs, Closed

(* Every step of a discovery keeps the types.                                *)
LEMMA TypeStep == TypeOK /\ [Next]_vars => TypeOK'
<1> SUFFICES ASSUME TypeOK, [Next]_vars PROVE TypeOK'
  OBVIOUS
<1> USE DEF TypeOK, inputs
<1>a. Len(Critical) \in Nat
  BY TopologyAssumption
<1>1. CASE ReadMounts
  BY <1>1 DEF ReadMounts, GiveUp
<1>2. CASE SkipMount
  BY <1>a, <1>2 DEF SkipMount
<1>3. CASE Unresolvable
  BY <1>3 DEF Unresolvable, GiveUp
<1>4. CASE StartClimb
  BY <1>4 DEF StartClimb
<1>5. ASSUME NEW d \in Devices, Visit(d) PROVE TypeOK'
  BY <1>5 DEF Visit, NextUp
<1>6. CASE EndClimb
  BY <1>a, <1>6 DEF EndClimb
<1>7. CASE EndMounts
  BY <1>7 DEF EndMounts
<1>8. CASE Report
  BY <1>8, TopologyAssumption DEF Report
<1>9. CASE UNCHANGED vars
  BY <1>9 DEF vars
<1> QED BY <1>1, <1>2, <1>3, <1>4, <1>5, <1>6, <1>7, <1>8, <1>9 DEF Next

(* _ancestors: visiting a device trades it for its parents. *)
LEMMA ClimbingStep == IInv /\ [Next]_vars => Climbing'
<1> SUFFICES ASSUME IInv, [Next]_vars PROVE Climbing'
  OBVIOUS
<1>a. TypeOK /\ Climbing /\ UNCHANGED inputs
  BY InputsFrame DEF IInv
<1>1. CASE StartClimb
  <2>1. /\ source[Mount] \in Devices /\ pending' = {source[Mount]} /\ seen' = {}
        /\ Mount' = Mount /\ source' = source
    BY <1>1 DEF StartClimb, Mount, inputs
  <2>2. Backs(source[Mount], source[Mount])'
    BY <2>1, <1>a, BacksSelf, BacksFrame
  <2> QED BY <2>1, <2>2 DEF Climbing
<1>2. ASSUME NEW d \in Devices, Visit(d) PROVE Climbing'
  <2>1. /\ pc = "climb" /\ Mount' = Mount /\ source' = source /\ parents' = parents
        /\ source[Mount] \in Devices /\ source[Mount] \in seen \cup pending
        /\ \A x \in seen : parents[x] \subseteq seen \cup pending
        /\ \A x \in seen \cup pending : Backs(x, source[Mount])
    BY <1>a, <1>2 DEF Visit, Climbing, Mount, inputs
  <2>2. CASE d \in seen
    <3>1. seen' = seen /\ seen' \cup pending' = seen \cup pending
      BY <1>2, <2>2 DEF Visit
    <3>2. \A x \in seen' \cup pending' : Backs(x, source[Mount])'
      BY <1>a, <2>1, <3>1, BacksFrame
    <3> QED BY <2>1, <3>1, <3>2 DEF Climbing
  <2>3. CASE d \notin seen
    <3>1. /\ d \in pending /\ seen' = seen \cup {d}
          /\ seen' \cup pending' = seen \cup pending \cup parents[d]
      BY <1>2, <2>3 DEF Visit, NextUp
    <3>2. \A x \in parents[d] : Backs(x, source[Mount])
      BY <2>1, <3>1, BacksUp
    <3>3. \A x \in seen' \cup pending' : Backs(x, source[Mount])'
      BY <1>a, <2>1, <3>1, <3>2, BacksFrame
    <3> QED BY <2>1, <3>1, <3>3 DEF Climbing
  <2> QED BY <2>2, <2>3
<1>3. CASE \/ ReadMounts \/ SkipMount \/ Unresolvable \/ EndClimb \/ EndMounts \/ Report
  BY <1>3
  DEF ReadMounts, SkipMount, Unresolvable, GiveUp, EndClimb, EndMounts, Report, Climbing
<1>4. CASE UNCHANGED vars
  <2>1. UNCHANGED <<inputs, pc, index, pending, seen>>
    BY <1>4 DEF vars
  <2>2. \A x : Backs(x, source[Mount])' <=> Backs(x, source[Mount])
    BY <2>1 DEF Backs, Closed, inputs, Mount
  <2> QED BY <1>a, <2>1, <2>2 DEF Climbing, Mount, inputs
<1> QED BY <1>1, <1>2, <1>3, <1>4 DEF Next

(* protected.update(_ancestors(...)): closed sets unite to closed sets. *)
LEMMA ProtectingStep == IInv /\ [Next]_vars => Protecting'
<1> SUFFICES ASSUME IInv, [Next]_vars PROVE Protecting'
  OBVIOUS
<1>a. /\ TypeOK /\ Climbing /\ Protecting
      /\ UNCHANGED inputs /\ source' = source /\ parents' = parents
  BY InputsFrame DEF IInv, inputs
<1>b. \A S : Closed(S)' <=> Closed(S)
  BY <1>a DEF Closed
<1>c. ASSUME UNCHANGED protected
      PROVE  /\ Closed(protected)'
             /\ \A d \in protected' : \E m \in Mounts : source'[m] \in Devices /\ Backs(d, source[m])'
  BY <1>a, <1>c, BacksFrame DEF Protecting, Closed
<1>1. CASE EndClimb
  <2>1. /\ pending = {} /\ protected' = protected \cup seen /\ index' = index + 1
        /\ source[Mount] \in Devices /\ source[Mount] \in seen
        /\ \A d \in seen : parents[d] \subseteq seen
        /\ \A d \in seen : Backs(d, source[Mount])
        /\ index \in 1..Len(Critical) /\ Len(Critical) \in Nat
    BY <1>a, <1>1, TopologyAssumption DEF EndClimb, Climbing, TypeOK
  <2>2. Closed(protected)'
    BY <1>a, <2>1 DEF Protecting, Closed
  <2>3. \A i \in 1..Len(Critical) :
           i < index' /\ source'[Critical[i]] \in Devices => source'[Critical[i]] \in protected'
    BY <1>a, <2>1 DEF Protecting, Mount
  <2>4. Mount \in Mounts
    BY <2>1, TopologyAssumption DEF Mount
  <2>5. \A d \in protected' : \E m \in Mounts : source'[m] \in Devices /\ Backs(d, source[m])'
    BY <1>a, <2>1, <2>4, BacksFrame DEF Protecting
  <2> QED BY <1>a, <2>2, <2>3, <2>5 DEF Protecting
<1>2. CASE SkipMount
  <2>1. /\ protected' = protected /\ index' = index + 1 /\ source[Mount] \notin Devices
        /\ index \in Nat
    BY <1>a, <1>2 DEF SkipMount, TypeOK
  <2>2. \A i \in 1..Len(Critical) :
           i < index' /\ source'[Critical[i]] \in Devices => source'[Critical[i]] \in protected'
    BY <1>a, <2>1 DEF Protecting, Mount
  <2> QED BY <1>a, <1>c, <2>1, <2>2 DEF Protecting
<1>3. CASE UNCHANGED <<protected, index>>
  BY <1>a, <1>c, <1>3 DEF Protecting
<1>4. EndClimb \/ SkipMount \/ UNCHANGED <<protected, index>>
  BY DEF Next, vars, ReadMounts, Unresolvable, StartClimb, Visit, EndMounts, Report
<1> QED BY <1>1, <1>2, <1>3, <1>4

(* Every return with resolved = True is past the last mount. *)
LEMMA PassingStep == IInv /\ [Next]_vars => Passing' /\ Reporting'
<1> SUFFICES ASSUME IInv, [Next]_vars PROVE Passing' /\ Reporting'
  OBVIOUS
<1>a. /\ TypeOK /\ Passing /\ Reporting
      /\ source' = source /\ Len(Critical) \in Nat /\ index \in Nat
  BY InputsFrame, TopologyAssumption DEF IInv, inputs, TypeOK
<1> USE <1>a DEF Passing, Reporting, Safe
<1>1. CASE ReadMounts
  BY <1>1 DEF ReadMounts, GiveUp
<1>2. CASE SkipMount
  BY <1>2 DEF SkipMount, Fatal, Mount
<1>3. CASE Unresolvable
  BY <1>3 DEF Unresolvable, GiveUp
<1>4. CASE StartClimb
  BY <1>4 DEF StartClimb
<1>5. ASSUME NEW d \in Devices, Visit(d) PROVE Passing' /\ Reporting'
  BY <1>5 DEF Visit
<1>6. CASE EndClimb
  <2>1. source[Mount] \in Devices
    BY <1>6 DEF EndClimb, IInv, Climbing
  <2>2. source[Mount] # Absent /\ source[Mount] # Foreign
    BY <2>1, TopologyAssumption
  <2>3. \A i \in 1..Len(Critical) :
           i < index + 1 => /\ source[Critical[i]] # Absent
                            /\ source[Critical[i]] = Foreign => Critical[i] # Root
    BY <2>2 DEF Mount
  <2> QED BY <1>6, <2>3 DEF EndClimb
<1>7. CASE EndMounts
  BY <1>7 DEF EndMounts
<1>8. CASE Report
  BY <1>8 DEF Report
<1>9. CASE UNCHANGED vars
  BY <1>9 DEF vars
<1> QED BY <1>1, <1>2, <1>3, <1>4, <1>5, <1>6, <1>7, <1>8, <1>9 DEF Next

(* The inductive invariant holds initially.                                  *)
LEMMA InvInit == Init => IInv
<1> SUFFICES ASSUME Init PROVE IInv
  OBVIOUS
<1>1. Len(Critical) \in Nat
  BY TopologyAssumption
<1>2. TypeOK
  <2>1. resolved \in BOOLEAN
    BY Zenon DEF Init
  <2>2. parents \in [Devices -> SUBSET Devices]
    BY TopologyAssumption DEF Init
  <2> QED BY <1>1, <2>1, <2>2 DEF Init, TypeOK
<1>3. Climbing /\ Protecting
  BY <1>1 DEF Init, Climbing, Protecting, Closed
<1>4. Passing /\ Reporting
  BY <1>1 DEF Init, Passing, Reporting
<1> QED BY <1>2, <1>3, <1>4 DEF IInv

(* The invariant on which the theorems rest. *)
THEOREM Inductive == Spec => []IInv
<1>1. IInv /\ [Next]_vars => IInv'
  BY TypeStep, ClimbingStep, ProtectingStep, PassingStep DEF IInv
<1> QED BY <1>1, InvInit, PTL DEF Spec

(* No disk that a critical mount is stacked on is ever offered, on any graph, *)
(* but for the mounts that the code skips.                                    *)
THEOREM SystemSafe == Spec => []SystemDisksBlocked
<1>1. Init => Truthful
  BY DEF Init
<1>2. Truthful /\ [Next]_vars => Truthful'
  BY InputsFrame DEF Truthful, inputs
<1>3. IInv /\ Truthful => SystemDisksBlocked
  <2> SUFFICES ASSUME IInv, Truthful, NEW d \in offered, NEW m \in Mounts,
                      backing[m] \in Devices, Backs(d, backing[m]),
                      ~(source[m] = Foreign /\ m # Root)
               PROVE  FALSE
    BY DEF SystemDisksBlocked
  <2>1. resolved /\ d \notin protected /\ index > Len(Critical) /\ source[Root] # Failed
    BY DEF IInv, Reporting, Safe, Passing
  <2>2. PICK i \in 1..Len(Critical) : Critical[i] = m
    BY TopologyAssumption
  <2>a. index \in Nat /\ Len(Critical) \in Nat
    BY TopologyAssumption DEF IInv, TypeOK
  <2>b. source[m] # Absent /\ (source[m] = Foreign => m # Root)
    BY <2>1, <2>2, <2>a DEF IInv, Passing
  <2>c. source[m] \in Devices
    <3>1. source[m] \in Sources
      BY DEF IInv, TypeOK
    <3>2. source[m] # Nothing /\ (source[m] = Failed => m = Root)
      BY TopologyAssumption DEF Truthful
    <3> QED BY <3>1, <3>2, <2>1, <2>b DEF Sources
  <2>d. Backs(d, source[m])
    BY <2>c DEF Truthful
  <2>3. source[m] \in protected /\ Closed(protected) /\ protected \in SUBSET Devices
    BY <2>1, <2>2, <2>a, <2>c DEF IInv, Protecting, TypeOK
  <2> QED BY <2>1, <2>3, <2>d DEF Backs
<1>4. Spec => []Truthful
  BY <1>1, <1>2, PTL DEF Spec
<1> QED BY <1>3, <1>4, Inductive, PTL

(* A disk is withheld for system storage only when it is system storage. *)
THEOREM NothingElseBlocked == Spec => []OnlySystemDisksBlocked
<1>1. IInv => OnlySystemDisksBlocked
  BY DEF IInv, OnlySystemDisksBlocked, Reporting, Safe, Protecting
<1> QED BY <1>1, Inductive, PTL

(* An unresolvable "/" blocks every target. *)
THEOREM Closes == Spec => []FailsClosed
<1>1. IInv => FailsClosed
  <2> SUFFICES ASSUME IInv, source[Root] \in {Failed, Foreign, Absent}, NEW d \in offered
               PROVE  FALSE
    BY DEF FailsClosed
  <2>1. resolved /\ index > Len(Critical)
    BY DEF IInv, Reporting, Safe, Passing
  <2>2. PICK i \in 1..Len(Critical) : Critical[i] = Root
    BY TopologyAssumption
  <2>3. index \in Nat /\ Len(Critical) \in Nat
    BY TopologyAssumption DEF IInv, TypeOK
  <2> QED BY <2>1, <2>2, <2>3 DEF IInv, Passing
<1> QED BY <1>1, Inductive, PTL

(* The variables of one discovery keep their types. *)
THEOREM Types == Spec => []TypeOK
<1>1. IInv => TypeOK
  BY DEF IInv
<1>2. QED
  BY <1>1, Inductive, PTL

-----------------------------------------------------------------------------
(* macOS: the stack of the search. *)

(* What diskutil says, for one node. *)
LEMMA WorldShape ==
  ASSUME MacTypes, NEW n \in Nodes
  PROVE  /\ world[n].stores \subseteq Nodes
         /\ world[n].parent \in Nodes \cup {NoNode}
         /\ world[n].whole \in BOOLEAN /\ world[n].virtual \in BOOLEAN
         /\ Physical(n) => world[n].stores = {}
<1>1. world \in Worlds /\ world[n] \in Infos
  BY MacAssumption DEF MacTypes
<1> QED BY <1>1, MacAssumption DEF Infos, Physical

LEMMA CallShape == ASSUME MacTypes, NEW n \in Nodes PROVE Call(n) \in Frames
  BY WorldShape DEF Call, Frames

LEMMA FrameShape ==
  ASSUME MacTypes
  PROVE  /\ frames \in Seq(Frames) /\ Depth \in Nat
         /\ \A k \in 1..Depth : /\ frames[k] \in Frames /\ frames[k].node \in Nodes
                                /\ frames[k].todo \subseteq Nodes /\ frames[k].found \subseteq Nodes
         /\ frames # <<>> => Depth \in 1..Depth /\ Depth >= 1
<1>1. frames \in Seq(Frames)
  BY DEF MacTypes
<1>2. Depth \in Nat /\ \A k \in 1..Depth : frames[k] \in Frames
  BY <1>1 DEF Depth
<1>3. \A k \in 1..Depth : /\ frames[k].node \in Nodes
                          /\ frames[k].todo \subseteq Nodes /\ frames[k].found \subseteq Nodes
  BY <1>2 DEF Frames
<1>4. frames # <<>> => Depth >= 1
  BY <1>1 DEF Depth
<1> QED BY <1>1, <1>2, <1>3, <1>4

(* What the actions do to the stack s of d calls, each with a name of its own. *)
Replaced(s, d, f) == [s EXCEPT ![d] = f]
Waits(s, d, rest) == [s EXCEPT ![d].todo = rest]
Finds(s, d, disks) == [s EXCEPT ![d].found = @ \cup disks]
Pushed(s, f) == Append(s, f)
Popped(s) == SubSeq(s, 1, Len(s) - 1)

(* The innermost call is replaced by a call for another node. *)
LEMMA FrameReplaced ==
  ASSUME NEW s \in Seq(Frames), NEW d \in 1..Len(s), NEW f \in Frames
  PROVE  LET t == Replaced(s, d, f) IN
         /\ t \in Seq(Frames) /\ Len(t) = Len(s) /\ t # <<>>
         /\ t[d] = f /\ \A k \in 1..Len(s) : k # d => t[k] = s[k]
  BY DEF Replaced

(* The innermost call has one store less to look at. *)
LEMMA FrameWaits ==
  ASSUME NEW s \in Seq(Frames), NEW d \in 1..Len(s), NEW rest \in SUBSET Nodes
  PROVE  LET t == Waits(s, d, rest) IN
         /\ t \in Seq(Frames) /\ Len(t) = Len(s) /\ t # <<>>
         /\ t[d].todo = rest /\ t[d].node = s[d].node /\ t[d].found = s[d].found
         /\ \A k \in 1..Len(s) : k # d => t[k] = s[k]
<1> DEFINE f == [s[d] EXCEPT !.todo = rest]
<1>1. s[d] \in Frames
  OBVIOUS
<1>2. f \in Frames /\ f.todo = rest /\ f.node = s[d].node /\ f.found = s[d].found
  BY <1>1 DEF Frames
<1>3. Waits(s, d, rest) = Replaced(s, d, f)
  BY DEF Waits, Replaced
<1> HIDE DEF f
<1>4. LET t == Replaced(s, d, f) IN
      /\ t \in Seq(Frames) /\ Len(t) = Len(s) /\ t # <<>>
      /\ t[d] = f /\ \A k \in 1..Len(s) : k # d => t[k] = s[k]
  BY <1>2, FrameReplaced
<1> QED BY <1>2, <1>3, <1>4

(* The innermost call has found more. *)
LEMMA FrameFinds ==
  ASSUME NEW s \in Seq(Frames), NEW d \in 1..Len(s), NEW disks \in SUBSET Nodes
  PROVE  LET t == Finds(s, d, disks) IN
         /\ t \in Seq(Frames) /\ Len(t) = Len(s) /\ t # <<>>
         /\ t[d].todo = s[d].todo /\ t[d].node = s[d].node
         /\ t[d].found = s[d].found \cup disks
         /\ \A k \in 1..Len(s) : k # d => t[k] = s[k]
<1> DEFINE f == [s[d] EXCEPT !.found = @ \cup disks]
<1>1. s[d] \in Frames
  OBVIOUS
<1>2. /\ f \in Frames /\ f.todo = s[d].todo /\ f.node = s[d].node
      /\ f.found = s[d].found \cup disks
  BY <1>1 DEF Frames
<1>3. Finds(s, d, disks) = Replaced(s, d, f)
  BY DEF Finds, Replaced
<1> HIDE DEF f
<1>4. LET t == Replaced(s, d, f) IN
      /\ t \in Seq(Frames) /\ Len(t) = Len(s) /\ t # <<>>
      /\ t[d] = f /\ \A k \in 1..Len(s) : k # d => t[k] = s[k]
  BY <1>2, FrameReplaced
<1> QED BY <1>2, <1>3, <1>4

(* A call on top of the others. *)
LEMMA FramePush ==
  ASSUME NEW s \in Seq(Frames), NEW f \in Frames
  PROVE  LET t == Pushed(s, f) IN
         /\ t \in Seq(Frames) /\ Len(t) = Len(s) + 1 /\ t # <<>>
         /\ t[Len(s) + 1] = f /\ \A k \in 1..Len(s) : t[k] = s[k]
  BY DEF Pushed

(* The innermost call is gone. *)
LEMMA FramePop ==
  ASSUME NEW s \in Seq(Frames), Len(s) > 1
  PROVE  LET t == Popped(s) IN
         /\ t \in Seq(Frames) /\ Len(t) = Len(s) - 1 /\ t # <<>>
         /\ \A k \in 1..(Len(s) - 1) : t[k] = s[k]
<1> DEFINE m == Len(s) - 1
           t == SubSeq(s, 1, m)
<1>1. m \in Int /\ 1 \in Int /\ 1 <= m /\ Len(s) = m + 1
  OBVIOUS
<1>2. \A i \in 1..m : s[i] \in Frames
  OBVIOUS
<1> HIDE DEF m
<1>3. /\ t \in Seq(Frames) /\ Len(t) = IF 1 <= m THEN m - 1 + 1 ELSE 0
      /\ \A i \in 1..(m - 1 + 1) : t[i] = s[1 + i - 1]
  BY <1>1, <1>2, SubSeqProperties
<1>4. m - 1 + 1 = m /\ \A i \in 1..m : 1 + i - 1 = i
  BY <1>1
<1>5. t \in Seq(Frames) /\ Len(t) = m /\ \A i \in 1..m : t[i] = s[i]
  BY <1>1, <1>3, <1>4
<1>6. t # <<>>
  BY <1>1, <1>5
<1> QED BY <1>5, <1>6 DEF m, Popped

-----------------------------------------------------------------------------
(* macOS: what "/" leads to, and the steps of the search. *)

LEMMA LeadsSelf == ASSUME NEW n \in Nodes PROVE Leads(n, n)
  BY DEF Leads

LEMMA LeadsDown ==
  ASSUME MacTypes, NEW n \in Nodes, NEW m \in WaysDown(n), Leads(Slash, n)
  PROVE  m \in Nodes /\ Leads(Slash, m)
<1>1. WaysDown(n) \subseteq Nodes
  BY WorldShape, MacAssumption DEF WaysDown
<1> QED BY <1>1 DEF Leads

(* What diskutil says does not change during a discovery. *)
LEMMA WorldFrame ==
  ASSUME UNCHANGED world
  PROVE  /\ \A n : Physical(n)' <=> Physical(n)
         /\ \A n : StoredOn(n)' = StoredOn(n)
         /\ \A n, d : Leads(n, d)' <=> Leads(n, d)
<1>1. \A n : Physical(n)' <=> Physical(n)
  BY DEF Physical
<1>2. \A n : WaysDown(n)' = WaysDown(n)
  BY DEF WaysDown
<1>3. \A n, d : Leads(n, d)' <=> Leads(n, d)
  BY <1>2 DEF Leads
<1>4. \A n : StoredOn(n)' = StoredOn(n)
  BY <1>1 DEF StoredOn
<1> QED BY <1>1, <1>3, <1>4

LEMMA InnermostShape ==
  ASSUME MacInv, stage = "search"
  PROVE  /\ Depth \in Nat /\ Depth >= 1 /\ Depth \in 1..Depth /\ Top \in Frames
         /\ Top.node \in Nodes /\ Top.node \in visited /\ Leads(Slash, Top.node)
         /\ Top.todo \subseteq world[Top.node].stores /\ Top.todo \subseteq Nodes
         /\ Top.found \subseteq visited /\ \A e \in Top.found : Physical(e)
         /\ visited \in SUBSET Nodes
<1>1. MacTypes /\ FoundBelow /\ frames # <<>>
  BY DEF MacInv, MacTypes
<1>2. /\ Depth \in 1..Depth /\ Depth \in Nat /\ Depth >= 1
      /\ Top \in Frames /\ Top.node \in Nodes /\ Top.todo \subseteq Nodes
  BY <1>1, FrameShape DEF Top
<1> QED BY <1>1, <1>2 DEF FoundBelow, MacTypes, Top

(* A store is passed over: its call failed, or it has been visited.           *)
LEMMA StorePassedOver ==
  ASSUME MacInv, stage = "search", NEW store \in Top.todo,
         UNCHANGED <<world, stage, visited, shielded, settled, entries, drives>>,
         frames' = Waits(frames, Depth, StoresAfter(store)),
         lost' \in 0..MaxLost, lost' = 0 => lost = 0 /\ store \in visited
  PROVE  MacInv'
<1> DEFINE t == Waits(frames, Depth, StoresAfter(store))
<1>a. MacTypes /\ FoundBelow /\ AllPursued /\ NoneForgotten /\ Offering
  BY DEF MacInv
<1>b. /\ frames \in Seq(Frames) /\ Depth \in 1..Len(frames) /\ Depth = Len(frames)
      /\ Depth \in Nat /\ StoresAfter(store) \in SUBSET Nodes
      /\ StoresAfter(store) = Top.todo \ {store} /\ frames # <<>>
  BY <1>a, InnermostShape DEF StoresAfter, MacTypes, Depth
<1>c. /\ t \in Seq(Frames) /\ Len(t) = Depth /\ t # <<>>
      /\ t[Depth].todo = Top.todo \ {store}
      /\ t[Depth].node = Top.node /\ t[Depth].found = Top.found
      /\ \A k \in 1..Depth : k # Depth => t[k] = frames[k]
  BY <1>b, FrameWaits DEF Top
<1>d. frames' = t
  OBVIOUS
<1> HIDE DEF t
<1>e. /\ Depth' = Depth /\ frames' \in Seq(Frames) /\ frames' # <<>>
      /\ \A k \in 1..Depth : /\ frames'[k].node = frames[k].node
                             /\ frames'[k].found = frames[k].found
                             /\ frames'[k].todo \subseteq frames[k].todo
                             /\ frames[k].todo \ {store} \subseteq frames'[k].todo
  BY <1>b, <1>c, <1>d DEF Depth, Top
<1>1. MacTypes'
  BY <1>a, <1>b, <1>e DEF MacTypes
<1>2. FoundBelow'
  <2>1. ASSUME NEW k \in 1..Depth'
        PROVE  /\ frames'[k].node \in visited'
               /\ frames'[k].todo \subseteq world[frames'[k].node].stores
               /\ \A e \in frames'[k].found : e \in visited' /\ Physical(e)'
               /\ world[frames'[k].node].stores = {} => frames'[k].found = {}
               /\ k < Depth' => world[frames'[k].node].stores # {}
    <3>1. /\ k \in 1..Depth /\ frames'[k].node = frames[k].node
          /\ frames'[k].found = frames[k].found /\ frames'[k].todo \subseteq frames[k].todo
      BY <1>e
    <3>2. /\ frames[k].node \in visited
          /\ frames[k].todo \subseteq world[frames[k].node].stores
          /\ \A e \in frames[k].found : e \in visited /\ Physical(e)
          /\ world[frames[k].node].stores = {} => frames[k].found = {}
          /\ k < Depth => world[frames[k].node].stores # {}
      BY <1>a, <3>1 DEF FoundBelow
    <3> QED BY <1>e, <3>1, <3>2, WorldFrame
  <2>2. (\A n \in visited' : Leads(Slash, n)') /\ \A e \in shielded' : e \in visited' /\ Physical(e)'
    BY <1>a, WorldFrame DEF FoundBelow
  <2> QED BY <2>1, <2>2 DEF FoundBelow
<1>3. AllPursued'
  <2> SUFFICES ASSUME lost' = 0, NEW n \in visited, NEW m \in StoredOn(n), m \notin visited
               PROVE  Pursued(n, m)'
    BY WorldFrame DEF AllPursued
  <2>1. PICK k \in 1..Depth : frames[k].node = n /\ (world[n].stores = {} \/ m \in frames[k].todo)
    BY <1>a DEF AllPursued, Pursued
  <2>2. m # store
    OBVIOUS
  <2> QED BY <2>1, <2>2, <1>e DEF Pursued
<1>4. NoneForgotten'
  BY <1>a, <1>e, WorldFrame DEF NoneForgotten, Remembered
<1>5. Offering'
  BY <1>a, WorldFrame DEF Offering
<1> QED BY <1>1, <1>2, <1>3, <1>4, <1>5 DEF MacInv

(* A store that is new is looked at in a call of its own.                     *)
LEMMA StoreEntered ==
  ASSUME MacInv, stage = "search", NEW store \in Top.todo, store \notin visited,
         UNCHANGED <<world, stage, lost, shielded, settled, entries, drives>>,
         frames' = Pushed(Waits(frames, Depth, StoresAfter(store)), Call(store)),
         visited' = visited \cup {store}
  PROVE  MacInv'
<1> DEFINE t == Waits(frames, Depth, StoresAfter(store))
           f == Call(store)
<1>a. MacTypes /\ FoundBelow /\ AllPursued /\ NoneForgotten /\ Offering
  BY DEF MacInv
<1>b. /\ frames \in Seq(Frames) /\ Depth \in 1..Len(frames) /\ Depth = Len(frames)
      /\ Depth \in Nat /\ StoresAfter(store) \in SUBSET Nodes
      /\ StoresAfter(store) = Top.todo \ {store} /\ frames # <<>>
      /\ store \in Nodes /\ store \in world[Top.node].stores /\ Top.node \in Nodes
      /\ Leads(Slash, Top.node)
  BY <1>a, InnermostShape DEF StoresAfter, MacTypes, Depth
<1>c. /\ t \in Seq(Frames) /\ Len(t) = Depth
      /\ t[Depth].todo = Top.todo \ {store}
      /\ t[Depth].node = Top.node /\ t[Depth].found = Top.found
      /\ \A k \in 1..Depth : k # Depth => t[k] = frames[k]
  BY <1>b, FrameWaits DEF Top
<1>d. /\ f \in Frames /\ f.node = store /\ f.todo = world[store].stores /\ f.found = {}
  BY <1>a, <1>b, CallShape DEF Call
<1>f. frames' = Pushed(t, f)
  OBVIOUS
<1> HIDE DEF t, f
<1>g. /\ frames' \in Seq(Frames) /\ Len(frames') = Depth + 1 /\ frames' # <<>>
      /\ frames'[Depth + 1] = f /\ \A k \in 1..Depth : frames'[k] = t[k]
  <2>1. /\ Pushed(t, f) \in Seq(Frames) /\ Len(Pushed(t, f)) = Len(t) + 1
        /\ Pushed(t, f) # <<>> /\ Pushed(t, f)[Len(t) + 1] = f
        /\ \A k \in 1..Len(t) : Pushed(t, f)[k] = t[k]
    BY <1>c, <1>d, FramePush
  <2> QED BY <1>c, <1>f, <2>1
<1>e. /\ Depth' = Depth + 1
      /\ \A k \in 1..Depth : /\ frames'[k].node = frames[k].node
                             /\ frames'[k].found = frames[k].found
                             /\ frames'[k].todo \subseteq frames[k].todo
                             /\ frames[k].todo \ {store} \subseteq frames'[k].todo
  BY <1>b, <1>c, <1>g DEF Depth, Top
<1>1. MacTypes'
  BY <1>a, <1>b, <1>g DEF MacTypes
<1>2. FoundBelow'
  <2>1. store \in WaysDown(Top.node)
    BY <1>b DEF WaysDown
  <2>2. Leads(Slash, store)
    BY <1>a, <1>b, <2>1, LeadsDown
  <2>3. \A n \in visited' : Leads(Slash, n)'
    BY <1>a, <2>2, WorldFrame DEF FoundBelow
  <2>4. ASSUME NEW k \in 1..Depth'
        PROVE  /\ frames'[k].node \in visited'
               /\ frames'[k].todo \subseteq world[frames'[k].node].stores
               /\ \A e \in frames'[k].found : e \in visited' /\ Physical(e)'
               /\ world[frames'[k].node].stores = {} => frames'[k].found = {}
               /\ k < Depth' => world[frames'[k].node].stores # {}
    <3>1. CASE k = Depth + 1
      <4>1. frames'[k] = f /\ ~(k < Depth')
        <5>1. frames'[Depth + 1] = f
          BY <1>g
        <5>2. Depth' = Depth + 1 /\ Depth \in Nat
          BY <1>b, <1>e
        <5>3. ~(Depth + 1 < Depth')
          BY <5>2
        <5> QED BY <3>1, <5>1, <5>3
      <4>2. /\ frames'[k].node = store /\ frames'[k].todo = world[store].stores
            /\ frames'[k].found = {}
        BY <4>1, <1>d
      <4> QED BY <4>1, <4>2
    <3>2. CASE k # Depth + 1
      <4>1. k \in 1..Depth
        BY <3>2, <1>b, <1>e
      <4>2. world[frames[k].node].stores # {}
        <5>1. CASE k = Depth
          BY <5>1, <1>b DEF Top
        <5>2. CASE k # Depth
          <6>1. k < Depth
            BY <4>1, <5>2, <1>b
          <6> QED BY <4>1, <6>1, <1>a DEF FoundBelow
        <5> QED BY <5>1, <5>2
      <4> QED BY <4>1, <4>2, <1>a, <1>e, WorldFrame DEF FoundBelow
    <3> QED BY <3>1, <3>2
  <2>5. \A e \in shielded' : e \in visited' /\ Physical(e)'
    BY <1>a, WorldFrame DEF FoundBelow
  <2> QED BY <2>3, <2>4, <2>5 DEF FoundBelow
<1>3. AllPursued'
  <2> SUFFICES ASSUME lost = 0, NEW n \in visited', NEW m \in StoredOn(n), m \notin visited'
               PROVE  Pursued(n, m)'
    BY WorldFrame DEF AllPursued
  <2>1. CASE n = store
    <3>1. world[n].stores = {} \/ m \in world[n].stores
      BY DEF StoredOn
    <3>2. Depth + 1 \in 1..Depth'
      BY <1>b, <1>e
    <3> QED BY <2>1, <3>1, <3>2, <1>d, <1>g DEF Pursued
  <2>2. CASE n # store
    <3>1. n \in visited /\ m \notin visited /\ m # store
      BY <2>2
    <3>2. PICK k \in 1..Depth : frames[k].node = n /\ (world[n].stores = {} \/ m \in frames[k].todo)
      BY <3>1, <1>a DEF AllPursued, Pursued
    <3>3. k \in 1..Depth'
      BY <1>b, <1>e
    <3> QED BY <3>1, <3>2, <3>3, <1>e DEF Pursued
  <2> QED BY <2>1, <2>2
<1>4. NoneForgotten'
  <2> SUFFICES ASSUME NEW d \in visited', Physical(d)
               PROVE  (d \in shielded \/ (stage = "search" /\ Remembered(d)))'
    BY WorldFrame DEF NoneForgotten
  <2>1. CASE d = store
    <3>1. Depth + 1 \in 1..Depth'
      BY <1>b, <1>e
    <3>2. frames'[Depth + 1].node = d
      BY <2>1, <1>d, <1>g
    <3> QED BY <3>1, <3>2 DEF Remembered
  <2>2. CASE d # store
    <3>1. d \in shielded \/ \E k \in 1..Depth : frames[k].node = d \/ d \in frames[k].found
      BY <2>2, <1>a DEF NoneForgotten, Remembered
    <3>2. \A k \in 1..Depth : k \in 1..Depth'
      BY <1>b, <1>e
    <3> QED BY <3>1, <3>2, <1>e DEF Remembered
  <2> QED BY <2>1, <2>2
<1>5. Offering'
  BY <1>a, WorldFrame DEF Offering
<1> QED BY <1>1, <1>2, <1>3, <1>4, <1>5 DEF MacInv

(* A call returns the disks that it has found, none of them new.              *)
LEMMA CallReturns ==
  ASSUME MacInv, StoresDone, NEW disks \in SUBSET visited, \A e \in disks : Physical(e),
         Top.found \subseteq disks, Physical(Top.node) => Top.node \in disks,
         lost' \in 0..MaxLost, lost' = 0 => lost = 0,
         lost' = 0 /\ world[Top.node].stores = {} => StoredOn(Top.node) \subseteq visited,
         UNCHANGED <<world, visited, entries, drives>>, Return(disks)
  PROVE  MacInv'
<1>a. MacTypes /\ FoundBelow /\ AllPursued /\ NoneForgotten /\ Offering /\ stage = "search"
  BY DEF MacInv, StoresDone
<1>b. /\ frames \in Seq(Frames) /\ Depth \in 1..Len(frames) /\ Depth = Len(frames)
      /\ Depth \in Nat /\ Depth >= 1 /\ Top.todo = {} /\ disks \in SUBSET Nodes
      /\ Top = frames[Depth]
  BY <1>a, InnermostShape DEF MacTypes, Depth, StoresDone, Top
<1>c. ASSUME lost' = 0, NEW n \in visited, NEW m \in StoredOn(n), m \notin visited
      PROVE  \E k \in 1..(Depth - 1) : frames[k].node = n /\ (world[n].stores = {} \/ m \in frames[k].todo)
  <2>1. PICK k \in 1..Depth : frames[k].node = n /\ (world[n].stores = {} \/ m \in frames[k].todo)
    BY <1>a, <1>c DEF AllPursued, Pursued
  <2>2. k # Depth
    BY <2>1, <1>b, <1>c
  <2>3. k \in 1..(Depth - 1)
    BY <2>1, <2>2, <1>b
  <2> QED BY <2>1, <2>3
<1>d. ASSUME NEW d \in visited, Physical(d), d \notin disks
      PROVE  \E k \in 1..(Depth - 1) : frames[k].node = d \/ d \in frames[k].found
  <2>1. PICK k \in 1..Depth : frames[k].node = d \/ d \in frames[k].found
    BY <1>a, <1>d DEF NoneForgotten, Remembered, MacTypes
  <2>2. k # Depth
    BY <2>1, <1>b, <1>d
  <2>3. k \in 1..(Depth - 1)
    BY <2>1, <2>2, <1>b
  <2> QED BY <2>1, <2>3
<1>1. CASE Depth > 1
  <2> DEFINE t == Finds(Popped(frames), Depth - 1, disks)
  <2>1. frames' = t /\ UNCHANGED <<stage, shielded, settled>>
    BY <1>1 DEF Return, Callers, Finds, Popped, Depth
  <2>2. LET c == Popped(frames) IN
        /\ c \in Seq(Frames) /\ Len(c) = Depth - 1 /\ c # <<>>
        /\ \A k \in 1..(Depth - 1) : c[k] = frames[k]
    BY <1>1, <1>b, FramePop
  <2>3. Depth - 1 \in 1..Len(Popped(frames))
    BY <2>2, <1>1, <1>b
  <2>4. LET c == Popped(frames) IN
        /\ t \in Seq(Frames) /\ Len(t) = Len(c) /\ t # <<>>
        /\ t[Depth - 1].todo = c[Depth - 1].todo /\ t[Depth - 1].node = c[Depth - 1].node
        /\ t[Depth - 1].found = c[Depth - 1].found \cup disks
        /\ \A k \in 1..Len(c) : k # Depth - 1 => t[k] = c[k]
    BY <2>2, <2>3, <1>b, FrameFinds
  <2> HIDE DEF t
  <2>5. /\ frames' \in Seq(Frames) /\ Depth' = Depth - 1 /\ frames' # <<>>
        /\ \A k \in 1..(Depth - 1) :
             /\ frames'[k].node = frames[k].node /\ frames'[k].todo = frames[k].todo
             /\ frames[k].found \subseteq frames'[k].found
             /\ frames'[k].found \subseteq frames[k].found \cup disks
             /\ k # Depth - 1 => frames'[k] = frames[k]
    BY <2>1, <2>2, <2>3, <2>4 DEF Depth
  <2>6. disks \subseteq frames'[Depth - 1].found /\ Depth - 1 \in 1..(Depth - 1)
    BY <2>1, <2>4, <1>1, <1>b
  <2>7. MacTypes'
    BY <1>a, <1>b, <2>1, <2>5 DEF MacTypes
  <2>8. FoundBelow'
    <3>1. ASSUME NEW k \in 1..Depth'
          PROVE  /\ frames'[k].node \in visited'
                 /\ frames'[k].todo \subseteq world[frames'[k].node].stores
                 /\ \A e \in frames'[k].found : e \in visited' /\ Physical(e)'
                 /\ world[frames'[k].node].stores = {} => frames'[k].found = {}
                 /\ k < Depth' => world[frames'[k].node].stores # {}
      <4>1. /\ k \in 1..(Depth - 1) /\ k \in 1..Depth /\ k < Depth
            /\ frames'[k].node = frames[k].node /\ frames'[k].todo = frames[k].todo
            /\ frames'[k].found \subseteq frames[k].found \cup disks
        BY <2>5, <1>b
      <4>2. /\ frames[k].node \in visited
            /\ frames[k].todo \subseteq world[frames[k].node].stores
            /\ \A e \in frames[k].found : e \in visited /\ Physical(e)
            /\ world[frames[k].node].stores # {}
        BY <1>a, <4>1 DEF FoundBelow
      <4>3. \A e \in frames'[k].found : e \in visited' /\ Physical(e)'
        BY <4>1, <4>2, WorldFrame
      <4> QED BY <4>1, <4>2, <4>3
    <3>2. (\A n \in visited' : Leads(Slash, n)') /\ \A e \in shielded' : e \in visited' /\ Physical(e)'
      BY <1>a, <2>1, WorldFrame DEF FoundBelow
    <3> QED BY <3>1, <3>2 DEF FoundBelow
  <2>9. AllPursued'
    <3> SUFFICES ASSUME lost' = 0, NEW n \in visited, NEW m \in StoredOn(n), m \notin visited
                 PROVE  Pursued(n, m)'
      BY WorldFrame DEF AllPursued
    <3>1. PICK k \in 1..(Depth - 1) : frames[k].node = n /\ (world[n].stores = {} \/ m \in frames[k].todo)
      BY <1>c
    <3> QED BY <3>1, <2>5 DEF Pursued
  <2>10. NoneForgotten'
    <3> SUFFICES ASSUME NEW d \in visited, Physical(d)
                 PROVE  (stage = "search" /\ Remembered(d))'
      BY WorldFrame DEF NoneForgotten
    <3>1. CASE d \in disks
      BY <3>1, <1>a, <2>1, <2>5, <2>6 DEF Remembered
    <3>2. CASE d \notin disks
      <4>1. PICK k \in 1..(Depth - 1) : frames[k].node = d \/ d \in frames[k].found
        BY <3>2, <1>d
      <4> QED BY <4>1, <1>a, <2>1, <2>5 DEF Remembered
    <3> QED BY <3>1, <3>2
  <2>11. Offering'
    BY <1>a, <2>1, WorldFrame DEF Offering
  <2> QED BY <2>7, <2>8, <2>9, <2>10, <2>11 DEF MacInv
<1>2. CASE ~(Depth > 1)
  <2>1. /\ frames' = <<>> /\ stage' = "inspect" /\ shielded' = disks
        /\ settled' = (disks # {}) /\ Depth = 1
    BY <1>2, <1>b DEF Return, Settles
  <2>2. Depth' = 0 /\ frames' \in Seq(Frames) /\ settled' \in BOOLEAN
    BY <2>1 DEF Depth
  <2>3. MacTypes'
    BY <1>a, <1>b, <2>1, <2>2 DEF MacTypes
  <2>4. FoundBelow'
    BY <1>a, <2>1, <2>2, WorldFrame DEF FoundBelow
  <2>5. 1..(Depth - 1) = {}
    BY <2>1
  <2>6. AllPursued'
    BY <1>c, <2>5, WorldFrame DEF AllPursued
  <2>7. NoneForgotten'
    BY <1>d, <2>1, <2>5, WorldFrame DEF NoneForgotten
  <2>8. Offering'
    BY <1>a, <2>1, WorldFrame DEF Offering, MacTypes
  <2> QED BY <2>3, <2>4, <2>6, <2>7, <2>8 DEF MacInv
<1> QED BY <1>1, <1>2

(* The call for a parent takes the place of the one that found nothing.       *)
LEMMA ParentEntered ==
  ASSUME MacInv, StoresDone, Top.found = {}, ~Physical(Top.node),
         NEW parent, parent = world[Top.node].parent, parent # NoNode, parent \notin visited,
         UNCHANGED <<world, stage, lost, shielded, settled, entries, drives>>,
         frames' = Replaced(frames, Depth, Call(parent)), visited' = visited \cup {parent}
  PROVE  MacInv'
<1> DEFINE f == Call(parent)
<1>a. MacTypes /\ FoundBelow /\ AllPursued /\ NoneForgotten /\ Offering /\ stage = "search"
  BY DEF MacInv, StoresDone
<1>b. /\ frames \in Seq(Frames) /\ Depth \in 1..Len(frames) /\ Depth = Len(frames)
      /\ Depth \in Nat /\ Depth >= 1 /\ Top.todo = {} /\ Top = frames[Depth]
      /\ Top.node \in Nodes /\ Leads(Slash, Top.node)
  BY <1>a, InnermostShape DEF MacTypes, Depth, StoresDone, Top
<1>c. parent \in Nodes /\ parent \in WaysDown(Top.node)
  BY <1>a, <1>b, WorldShape DEF WaysDown
<1>d. f \in Frames /\ f.node = parent /\ f.todo = world[parent].stores /\ f.found = {}
  BY <1>a, <1>c, CallShape DEF Call
<1>e. Leads(Slash, parent)
  BY <1>a, <1>b, <1>c, LeadsDown
<1> HIDE DEF f
<1>f. /\ frames' \in Seq(Frames) /\ Len(frames') = Depth /\ frames' # <<>>
      /\ frames'[Depth] = f /\ \A k \in 1..Depth : k # Depth => frames'[k] = frames[k]
  <2>a. frames \in Seq(Frames) /\ Depth \in 1..Len(frames) /\ f \in Frames
    BY <1>b, <1>d
  <2>1. LET t == Replaced(frames, Depth, f) IN
        /\ t \in Seq(Frames) /\ Len(t) = Len(frames) /\ t # <<>>
        /\ t[Depth] = f /\ \A k \in 1..Len(frames) : k # Depth => t[k] = frames[k]
    BY <2>a, FrameReplaced
  <2>2. frames' = Replaced(frames, Depth, f)
    BY DEF f
  <2> DEFINE t == Replaced(frames, Depth, f)
  <2>3. /\ t \in Seq(Frames) /\ Len(t) = Depth /\ t # <<>>
        /\ t[Depth] = f /\ \A k \in 1..Depth : k # Depth => t[k] = frames[k]
    BY <1>b, <2>1
  <2> HIDE DEF t
  <2> QED BY <2>2, <2>3 DEF t
<1>g. Depth' = Depth
  BY <1>f DEF Depth
<1>1. MacTypes'
  BY <1>a, <1>c, <1>f DEF MacTypes
<1>2. FoundBelow'
  <2>1. \A n \in visited' : Leads(Slash, n)'
    BY <1>a, <1>e, WorldFrame DEF FoundBelow
  <2>2. ASSUME NEW k \in 1..Depth'
        PROVE  /\ frames'[k].node \in visited'
               /\ frames'[k].todo \subseteq world[frames'[k].node].stores
               /\ \A e \in frames'[k].found : e \in visited' /\ Physical(e)'
               /\ world[frames'[k].node].stores = {} => frames'[k].found = {}
               /\ k < Depth' => world[frames'[k].node].stores # {}
    <3>a. k \in 1..Depth
      BY <1>g
    <3>1. CASE k = Depth
      <4>1. frames'[k] = f /\ ~(k < Depth')
        BY <3>1, <1>b, <1>f, <1>g
      <4>2. /\ frames'[k].node = parent /\ frames'[k].todo = world[parent].stores
            /\ frames'[k].found = {}
        BY <4>1, <1>d
      <4> QED BY <4>1, <4>2
    <3>2. CASE k # Depth
      <4>1. frames'[k] = frames[k]
        BY <3>a, <3>2, <1>f
      <4>2. /\ frames[k].node \in visited
            /\ frames[k].todo \subseteq world[frames[k].node].stores
            /\ \A e \in frames[k].found : e \in visited /\ Physical(e)
            /\ world[frames[k].node].stores = {} => frames[k].found = {}
            /\ k < Depth => world[frames[k].node].stores # {}
        BY <1>a, <3>a DEF FoundBelow
      <4> QED BY <1>g, <4>1, <4>2, WorldFrame
    <3> QED BY <3>1, <3>2
  <2>3. \A e \in shielded' : e \in visited' /\ Physical(e)'
    BY <1>a, WorldFrame DEF FoundBelow
  <2> QED BY <2>1, <2>2, <2>3 DEF FoundBelow
<1>3. AllPursued'
  <2> SUFFICES ASSUME lost = 0, NEW n \in visited', NEW m \in StoredOn(n), m \notin visited'
               PROVE  Pursued(n, m)'
    BY WorldFrame DEF AllPursued
  <2>1. CASE n = parent
    <3>1. world[n].stores = {} \/ m \in world[n].stores
      BY DEF StoredOn
    <3>2. Depth \in 1..Depth'
      BY <1>b, <1>g
    <3> QED BY <2>1, <3>1, <3>2, <1>d, <1>f DEF Pursued
  <2>2. CASE n # parent
    <3>1. n \in visited /\ m \notin visited /\ m # parent
      BY <2>2
    <3>2. PICK k \in 1..Depth : frames[k].node = n /\ (world[n].stores = {} \/ m \in frames[k].todo)
      BY <3>1, <1>a DEF AllPursued, Pursued
    <3>3. k # Depth
      <4> SUFFICES ASSUME k = Depth PROVE FALSE
        OBVIOUS
      <4>1. n = Top.node /\ world[n].stores = {}
        BY <3>2, <1>b
      <4>2. StoredOn(n) \subseteq {parent}
        BY <4>1 DEF StoredOn
      <4> QED BY <3>1, <4>2
    <3> QED BY <3>2, <3>3, <1>f, <1>g DEF Pursued
  <2> QED BY <2>1, <2>2
<1>4. NoneForgotten'
  <2> SUFFICES ASSUME NEW d \in visited', Physical(d)
               PROVE  (d \in shielded \/ (stage = "search" /\ Remembered(d)))'
    BY WorldFrame DEF NoneForgotten
  <2>1. CASE d = parent
    <3>1. frames'[Depth].node = d /\ Depth \in 1..Depth'
      BY <2>1, <1>b, <1>d, <1>f, <1>g
    <3> QED BY <3>1, <1>a DEF Remembered
  <2>2. CASE d # parent
    <3>1. d \in shielded \/ \E k \in 1..Depth : frames[k].node = d \/ d \in frames[k].found
      BY <2>2, <1>a DEF NoneForgotten, Remembered
    <3>2. frames[Depth].node # d /\ d \notin frames[Depth].found
      BY <1>b
    <3> QED BY <3>1, <3>2, <1>a, <1>f, <1>g DEF Remembered
  <2> QED BY <2>1, <2>2
<1>5. Offering'
  BY <1>a, WorldFrame DEF Offering
<1> QED BY <1>1, <1>2, <1>3, <1>4, <1>5 DEF MacInv

(* diskutil says nothing of "/" but that it is not internal: the search       *)
(* begins.                                                                    *)
LEMMA SearchBegins == MacInv /\ RootExternal => MacInv'
<1> SUFFICES ASSUME MacInv, RootExternal PROVE MacInv'
  OBVIOUS
<1> DEFINE f == Call(Slash)
<1>a. /\ MacTypes /\ FoundBelow /\ NoneForgotten /\ Offering
      /\ stage = "root" /\ stage' = "search" /\ world[Slash].internal # "yes"
      /\ frames' = <<f>> /\ visited' = {Slash}
      /\ UNCHANGED <<world, lost, shielded, settled, entries, drives>>
  BY DEF MacInv, RootExternal
<1>b. /\ f \in Frames /\ f.node = Slash /\ f.todo = world[Slash].stores /\ f.found = {}
      /\ Slash \in Nodes
  BY <1>a, CallShape, MacAssumption DEF Call
<1>c. ~settled /\ shielded = {} /\ drives = {}
  BY <1>a DEF MacTypes
<1> HIDE DEF f
<1>d. frames' \in Seq(Frames) /\ frames' # <<>> /\ Len(frames') = 1 /\ frames'[1] = f
  BY <1>a, <1>b
<1>e. Depth' = 1
  BY <1>d DEF Depth
<1>1. MacTypes'
  BY <1>a, <1>b, <1>c, <1>d DEF MacTypes
<1>2. FoundBelow'
  <2>1. ASSUME NEW k \in 1..Depth' PROVE k = 1 /\ ~(k < Depth')
    BY <1>e
  <2> QED BY <2>1, <1>a, <1>b, <1>c, <1>d, LeadsSelf, WorldFrame DEF FoundBelow
<1>3. AllPursued'
  <2> SUFFICES ASSUME NEW m \in StoredOn(Slash) PROVE Pursued(Slash, m)'
    BY <1>a, WorldFrame DEF AllPursued
  <2>1. world[Slash].stores = {} \/ m \in world[Slash].stores
    BY DEF StoredOn
  <2> QED BY <2>1, <1>a, <1>b, <1>d, <1>e DEF Pursued
<1>4. NoneForgotten'
  <2>1. Remembered(Slash)'
    BY <1>b, <1>d, <1>e DEF Remembered
  <2> QED BY <2>1, <1>a DEF NoneForgotten
<1>5. Offering'
  BY <1>a, <1>c DEF Offering
<1> QED BY <1>1, <1>2, <1>3, <1>4, <1>5 DEF MacInv

-----------------------------------------------------------------------------
(* macOS: the invariant of a discovery. *)

LEMMA StoreStep == MacInv /\ (\E n \in Nodes : LookAtStore(n)) => MacInv'
<1> SUFFICES ASSUME MacInv, NEW store \in Nodes, LookAtStore(store) PROVE MacInv'
  OBVIOUS
<1> DEFINE waiting == Waits(frames, Depth, StoresAfter(store))
<1>1. /\ stage = "search" /\ store \in Top.todo
      /\ UNCHANGED <<world, stage, shielded, settled, entries, drives>>
      /\ \/ InfoFails /\ frames' = waiting /\ UNCHANGED visited
         \/ store \in visited /\ frames' = waiting /\ UNCHANGED <<visited, lost>>
         \/ /\ store \notin visited
            /\ frames' = Pushed(waiting, Call(store))
            /\ visited' = visited \cup {store} /\ UNCHANGED lost
  BY DEF LookAtStore, Waits, Pushed
<1> HIDE DEF waiting
<1>2. lost \in 0..MaxLost /\ MaxLost \in Nat
  BY MacAssumption DEF MacInv, MacTypes
<1>3. CASE InfoFails /\ frames' = waiting /\ UNCHANGED visited
  <2>1. lost' \in 0..MaxLost /\ lost' # 0
    BY <1>2, <1>3 DEF InfoFails
  <2> QED BY <1>1, <1>3, <2>1, StorePassedOver DEF waiting
<1>4. CASE store \in visited /\ frames' = waiting /\ UNCHANGED <<visited, lost>>
  BY <1>1, <1>2, <1>4, StorePassedOver DEF waiting
<1>5. CASE /\ store \notin visited
           /\ frames' = Pushed(waiting, Call(store))
           /\ visited' = visited \cup {store} /\ UNCHANGED lost
  BY <1>1, <1>5, StoreEntered DEF waiting
<1> QED BY <1>1, <1>3, <1>4, <1>5

LEMMA ReturnStep == MacInv /\ (ReturnResolved \/ ReturnDisk) => MacInv'
<1> SUFFICES ASSUME MacInv, ReturnResolved \/ ReturnDisk PROVE MacInv'
  OBVIOUS
<1>1. /\ StoresDone /\ stage = "search" /\ lost' = lost /\ lost \in 0..MaxLost
      /\ UNCHANGED <<world, visited, entries, drives>>
  BY DEF ReturnResolved, ReturnDisk, StoresDone, MacInv, MacTypes
<1>2. /\ Top.node \in Nodes /\ Top.node \in visited /\ Top.found \in SUBSET visited
      /\ \A e \in Top.found : Physical(e)
  BY <1>1, InnermostShape
<1>3. CASE ReturnResolved
  <2>1. Top.found # {} /\ Return(Top.found)
    BY <1>3 DEF ReturnResolved
  <2>2. world[Top.node].stores # {}
    <3>1. Depth \in 1..Depth
      BY <1>1, InnermostShape
    <3> QED BY <2>1, <3>1 DEF MacInv, FoundBelow, Top
  <2>3. ~Physical(Top.node)
    BY <1>2, <2>2, WorldShape DEF MacInv
  <2> QED BY <1>1, <1>2, <2>1, <2>2, <2>3, CallReturns
<1>4. CASE ReturnDisk
  <2>1. Top.found = {} /\ Physical(Top.node) /\ Return({Top.node})
    BY <1>4 DEF ReturnDisk
  <2>2. world[Top.node].stores = {} => StoredOn(Top.node) = {}
    BY <2>1 DEF StoredOn
  <2>3. {Top.node} \in SUBSET visited /\ Top.found \subseteq {Top.node}
    BY <1>2, <2>1
  <2> QED BY <1>1, <1>2, <2>1, <2>2, <2>3, CallReturns
<1> QED BY <1>3, <1>4

LEMMA ParentStep == MacInv /\ LookAtParent => MacInv'
<1> SUFFICES ASSUME MacInv, LookAtParent PROVE MacInv'
  OBVIOUS
<1> DEFINE parent == world[Top.node].parent
<1>1. /\ StoresDone /\ Top.found = {} /\ ~Physical(Top.node)
      /\ UNCHANGED <<world, entries, drives>>
  BY DEF LookAtParent
<1>2. \/ /\ \/ parent \in {NoNode, Top.node} /\ UNCHANGED lost
            \/ parent \notin {NoNode, Top.node} /\ InfoFails
            \/ parent \in visited /\ UNCHANGED lost
         /\ Return({}) /\ UNCHANGED visited
      \/ /\ parent \notin {NoNode, Top.node} \cup visited
         /\ frames' = Replaced(frames, Depth, Call(parent))
         /\ visited' = visited \cup {parent}
         /\ UNCHANGED <<lost, stage, shielded, settled>>
  BY DEF LookAtParent, Replaced
<1> HIDE DEF parent
<1>3. /\ Top.node \in visited /\ lost \in 0..MaxLost /\ MaxLost \in Nat
  BY <1>1, InnermostShape, MacAssumption DEF MacInv, MacTypes, StoresDone
<1>4. CASE /\ \/ parent \in {NoNode, Top.node} /\ UNCHANGED lost
              \/ parent \notin {NoNode, Top.node} /\ InfoFails
              \/ parent \in visited /\ UNCHANGED lost
           /\ Return({}) /\ UNCHANGED visited
  <2>1. lost' \in 0..MaxLost /\ (lost' = 0 => lost = 0)
    BY <1>3, <1>4 DEF InfoFails
  <2>2. lost' = 0 => parent \in {NoNode} \cup visited
    BY <1>3, <1>4 DEF InfoFails
  <2>3. world[Top.node].stores = {} => StoredOn(Top.node) \subseteq {parent} \ {NoNode}
    BY DEF StoredOn, parent
  <2>4. lost' = 0 /\ world[Top.node].stores = {} => StoredOn(Top.node) \subseteq visited
    BY <2>2, <2>3
  <2>5. {} \in SUBSET visited
    OBVIOUS
  <2> QED BY <1>1, <1>4, <2>1, <2>4, <2>5, CallReturns
<1>5. CASE /\ parent \notin {NoNode, Top.node} \cup visited
           /\ frames' = Replaced(frames, Depth, Call(parent))
           /\ visited' = visited \cup {parent}
           /\ UNCHANGED <<lost, stage, shielded, settled>>
  <2>1. parent # NoNode /\ parent \notin visited
    BY <1>5
  <2> QED BY <1>1, <1>5, <2>1, ParentEntered DEF parent
<1> QED BY <1>2, <1>4, <1>5

(* Outside of the search, and when nothing happens. *)
LEMMA OtherMacStep ==
  MacInv /\ (\/ ListExternal \/ RootFails \/ RootInternal
             \/ (\E n \in Nodes : Inspect(n)) \/ InspectedAll \/ UNCHANGED macVars)
    => MacInv'
<1> SUFFICES ASSUME MacInv,
                    \/ ListExternal \/ RootFails \/ RootInternal
                    \/ (\E n \in Nodes : Inspect(n)) \/ InspectedAll \/ UNCHANGED macVars
             PROVE  MacInv'
  OBVIOUS
<1>a. MacTypes /\ FoundBelow /\ AllPursued /\ NoneForgotten /\ Offering
  BY DEF MacInv
<1>b. UNCHANGED <<world, frames, visited, lost, shielded>> /\ Depth' = Depth
  BY DEF ListExternal, RootFails, RootInternal, Inspect, InspectedAll, macVars, searchVars, Depth
<1>c. stage' = "search" <=> stage = "search"
  BY DEF ListExternal, RootFails, RootInternal, Inspect, InspectedAll, macVars
<1>1. MacTypes'
  <2> USE DEF MacTypes
  <2>1. CASE ListExternal
    BY <1>a, <1>b, <2>1 DEF ListExternal
  <2>2. CASE RootFails \/ RootInternal
    BY <1>a, <1>b, <2>2 DEF RootFails, RootInternal
  <2>3. ASSUME NEW n \in Nodes, Inspect(n) PROVE MacTypes'
    BY <1>a, <1>b, <2>3 DEF Inspect
  <2>4. CASE InspectedAll
    BY <1>a, <1>b, <2>4 DEF InspectedAll
  <2>5. CASE UNCHANGED macVars
    BY <1>a, <1>b, <2>5 DEF macVars
  <2> QED BY <2>1, <2>2, <2>3, <2>4, <2>5
<1>2. FoundBelow'
  BY <1>a, <1>b, WorldFrame DEF FoundBelow
<1>3. AllPursued'
  BY <1>a, <1>b, WorldFrame DEF AllPursued, Pursued
<1>4. NoneForgotten'
  BY <1>a, <1>b, <1>c, WorldFrame DEF NoneForgotten, Remembered
<1>5. Offering'
  <2>1. CASE ListExternal \/ RootFails \/ InspectedAll \/ UNCHANGED macVars
    <3>1. UNCHANGED <<settled, drives>>
      BY <2>1 DEF ListExternal, RootFails, InspectedAll, macVars
    <3> QED BY <1>a, <1>b, <3>1, WorldFrame DEF Offering
  <2>2. CASE RootInternal
    BY <1>a, <1>b, <2>2, WorldFrame DEF RootInternal, Offering, MacTypes
  <2>3. ASSUME NEW n \in Nodes, Inspect(n) PROVE Offering'
    <3>1. settled' = settled /\ (drives' = drives \/ (Acceptable(n) /\ drives' = drives \cup {n}))
      BY <2>3 DEF Inspect
    <3>2. Acceptable(n) => settled /\ Physical(n) /\ n \notin shielded
      BY DEF Acceptable, Physical
    <3> QED BY <1>a, <1>b, <3>1, <3>2, WorldFrame DEF Offering
  <2> QED BY <2>1, <2>2, <2>3
<1> QED BY <1>1, <1>2, <1>3, <1>4, <1>5 DEF MacInv

LEMMA MacInvInit == MacInit => MacInv
<1> SUFFICES ASSUME MacInit PROVE MacInv
  OBVIOUS
<1>1. Depth = 0 /\ frames \in Seq(Frames)
  BY DEF MacInit, Depth
<1>2. MacTypes
  <2>1. settled \in BOOLEAN
    BY Zenon DEF MacInit
  <2> QED BY <1>1, <2>1, MacAssumption DEF MacInit, MacTypes
<1>3. FoundBelow /\ AllPursued /\ NoneForgotten /\ Offering
  BY <1>1 DEF MacInit, FoundBelow, AllPursued, NoneForgotten, Offering
<1> QED BY <1>2, <1>3 DEF MacInv

(* The invariant of a macOS discovery, for every arrangement of disks that    *)
(* diskutil can describe and any number of failed calls: what was visited     *)
(* lies below "/", what is still to be looked at is on the stack, and no      *)
(* physical disk is lost on the way back.                                     *)
THEOREM MacInductive == MacSpec => []MacInv
<1>1. MacInv /\ [MacNext]_macVars => MacInv'
  BY StoreStep, ReturnStep, ParentStep, SearchBegins, OtherMacStep DEF MacNext
<1> QED BY <1>1, MacInvInit, PTL DEF MacSpec

(* When something is offered, the search is over. *)
LEMMA OfferedAfterwards ==
  ASSUME MacInv, NEW d \in drives, world[Slash].internal # "yes"
  PROVE  /\ Physical(d) /\ d \notin shielded /\ stage # "search" /\ Depth = 0
         /\ shielded # {} /\ Slash \in visited /\ visited \in SUBSET Nodes
<1>1. settled /\ Physical(d) /\ d \notin shielded /\ shielded # {} /\ Slash \in visited
  BY DEF MacInv, Offering
<1>2. stage # "search" /\ frames = <<>> /\ visited \in SUBSET Nodes
  BY <1>1 DEF MacInv, MacTypes
<1> QED BY <1>1, <1>2 DEF Depth

(* No disk that an external "/" is stored on is offered as long as every      *)
(* diskutil call succeeds, however the stores, containers and volumes are     *)
(* stacked; and when one fails, some disk below "/" is still withheld.        *)
THEOREM MacSystemSafe == MacSpec => []MacRootProtected
<1>1. MacInv => MacRootProtected
  <2> SUFFICES ASSUME MacInv, NEW d \in drives, world[Slash].internal # "yes", Holds(d, Slash)
               PROVE  lost > 0 /\ \E e \in shielded : Physical(e) /\ Leads(Slash, e) /\ e \notin drives
    BY DEF MacRootProtected
  <2>1. /\ Physical(d) /\ d \notin shielded /\ stage # "search" /\ Depth = 0
        /\ shielded # {} /\ Slash \in visited /\ visited \in SUBSET Nodes
    BY OfferedAfterwards
  <2>2. lost # 0
    <3> SUFFICES ASSUME lost = 0 PROVE FALSE
      OBVIOUS
    <3>1. \A n \in visited : \A m \in StoredOn(n) : m \in visited
      BY <2>1 DEF MacInv, AllPursued, Pursued
    <3>2. d \in visited
      BY <2>1, <3>1 DEF Holds
    <3> QED BY <2>1, <3>2 DEF MacInv, NoneForgotten
  <2>3. lost > 0
    BY <2>2, MacAssumption DEF MacInv, MacTypes
  <2>4. PICK e \in shielded : TRUE
    BY <2>1
  <2>5. Physical(e) /\ Leads(Slash, e) /\ e \notin drives
    BY DEF MacInv, FoundBelow, Offering
  <2> QED BY <2>3, <2>5
<1> QED BY <1>1, MacInductive, PTL

(* An unresolvable external "/" blocks every target. *)
THEOREM MacCloses == MacSpec => []MacFailsClosed
<1>1. MacInv => MacFailsClosed
  <2> SUFFICES ASSUME MacInv, NEW d \in drives, world[Slash].internal # "yes"
               PROVE  \E e \in shielded : Physical(e) /\ Leads(Slash, e)
    BY DEF MacFailsClosed
  <2>1. PICK e \in shielded : TRUE
    BY OfferedAfterwards
  <2> QED BY <2>1 DEF MacInv, FoundBelow
<1> QED BY <1>1, MacInductive, PTL

-----------------------------------------------------------------------------
(* discover_drives on either system. *)

(* A discovery behaves as that of the system it runs on, and the other one    *)
(* never begins.                                                              *)
LEMMA Dispatched == DiscoverySpec => Spec /\ MacSpec
<1>1. DiscoveryInit => Init /\ MacInit
  BY DEF DiscoveryInit
<1>2. [DiscoveryNext]_discoveryVars => [Next]_vars /\ [MacNext]_macVars
  <2> SUFFICES ASSUME [DiscoveryNext]_discoveryVars PROVE [Next]_vars /\ [MacNext]_macVars
    OBVIOUS
  <2>1. CASE system = "Linux" /\ Next /\ UNCHANGED <<system, macVars>>
    BY <2>1
  <2>2. CASE system = "Darwin" /\ MacNext /\ UNCHANGED <<system, vars>>
    BY <2>2
  <2>3. CASE UNCHANGED discoveryVars
    BY <2>3 DEF discoveryVars
  <2> QED BY <2>1, <2>2, <2>3 DEF DiscoveryNext
<1> QED BY <1>1, <1>2, PTL DEF DiscoverySpec, Spec, MacSpec

(* On every system, no disk that its storage rests on is offered, and what    *)
(* cannot be resolved offers nothing.                                         *)
THEOREM DiscoverySafe ==
  DiscoverySpec => [](/\ SystemDisksBlocked /\ FailsClosed
                      /\ MacRootProtected /\ MacFailsClosed)
  BY Dispatched, SystemSafe, Closes, MacSystemSafe, MacCloses, PTL

-----------------------------------------------------------------------------
(* A discovery comes nearer to its end with every step: the half of           *)
(* EverySystemEnds that does not need fairness.                               *)

Less(S, T) == S \subseteq T /\ S # T

Phase(p) ==
  CASE p = "read" -> 4 [] p = "mount" -> 3 [] p = "climb" -> 2 [] p = "report" -> 1 [] OTHER -> 0

(* Linux: on to the next of finitely many mounts, or on within this one, or   *)
(* up to a device not seen in this climb, or one device less to look at.      *)
Ascends ==
  /\ index' \in 1..(Len(Critical) + 1)
  /\ \/ index' > index
     \/ index' = index /\ Phase(pc') < Phase(pc)
     \/ /\ index' = index /\ pc = "climb" /\ pc' = "climb"
        /\ \/ Less(seen, seen') /\ seen' \subseteq Devices
           \/ seen' = seen /\ Less(pending', pending)

(* In a graph with a cycle no device is climbed twice for the same mount. *)
THEOREM ClimbEnds == Spec => [][Ascends]_vars
<1>1. ASSUME IInv, Next PROVE Ascends
  <2> USE <1>1 DEF IInv, TypeOK, inputs, Phase, Less
  <2>0. Len(Critical) \in Nat
    BY TopologyAssumption
  <2>1. CASE ReadMounts BY <2>0, <2>1 DEF ReadMounts, GiveUp, Ascends
  <2>2. CASE SkipMount BY <2>0, <2>2 DEF SkipMount, Ascends
  <2>3. CASE Unresolvable BY <2>0, <2>3 DEF Unresolvable, GiveUp, Ascends
  <2>4. CASE StartClimb BY <2>0, <2>4 DEF StartClimb, Ascends
  <2>5. ASSUME NEW d \in Devices, Visit(d) PROVE Ascends
    <3>1. index' = index /\ pc = "climb" /\ pc' = "climb" /\ d \in pending
      BY <2>5 DEF Visit
    <3>2. CASE d \in seen
      BY <2>0, <2>5, <3>1, <3>2 DEF Visit, Ascends
    <3>3. CASE d \notin seen
      BY <2>0, <2>5, <3>1, <3>3 DEF Visit, Ascends
    <3> QED BY <3>2, <3>3
  <2>6. CASE EndClimb BY <2>0, <2>6 DEF EndClimb, Ascends
  <2>7. CASE EndMounts BY <2>0, <2>7 DEF EndMounts, Ascends
  <2>8. CASE Report BY <2>0, <2>8 DEF Report, Ascends
  <2> QED BY <2>1, <2>2, <2>3, <2>4, <2>5, <2>6, <2>7, <2>8 DEF Next
<1>2. IInv /\ [Next]_vars => [Ascends]_vars
  BY <1>1
<1> QED BY <1>2, Inductive, PTL DEF Spec

MacPhase(p) ==
  CASE p = "list" -> 4 [] p = "root" -> 3 [] p = "search" -> 2 [] p = "inspect" -> 1 [] OTHER -> 0

(* macOS: on to the next stage; or down to a node not visited before, or back *)
(* to a caller, or one store less to look at; or one entry less to inspect.   *)
Searches ==
  \/ MacPhase(stage') < MacPhase(stage)
  \/ /\ stage = "search" /\ stage' = "search"
     /\ \/ Less(visited, visited') /\ visited' \subseteq Nodes
        \/ visited' = visited /\ Depth' < Depth /\ Depth' \in Nat
        \/ visited' = visited /\ Depth' = Depth /\ Less(Top'.todo, Top.todo)
  \/ stage = "inspect" /\ stage' = "inspect" /\ Less(entries', entries)

(* Where stores and parents form a cycle, no node is called for twice. *)
THEOREM SearchEnds == MacSpec => [][Searches]_macVars
<1>1. ASSUME MacInv, NEW store \in Nodes, LookAtStore(store) PROVE Searches
  <2> DEFINE waiting == Waits(frames, Depth, StoresAfter(store))
  <2>1. /\ stage = "search" /\ stage' = "search" /\ store \in Top.todo
        /\ \/ frames' = waiting /\ visited' = visited
           \/ store \notin visited /\ visited' = visited \cup {store}
    BY <1>1 DEF LookAtStore, Waits
  <2>2. CASE frames' = waiting /\ visited' = visited
    <3>1. /\ frames \in Seq(Frames) /\ Depth \in 1..Len(frames) /\ Depth = Len(frames)
          /\ Top = frames[Depth]
      BY <1>1, <2>1, InnermostShape DEF MacInv, MacTypes, Depth, Top
    <3>2. StoresAfter(store) \in SUBSET Nodes
      BY <1>1, <2>1, InnermostShape DEF MacInv, MacTypes, StoresAfter
    <3>3. LET t == waiting IN
          Len(t) = Len(frames) /\ t[Depth].todo = StoresAfter(store)
      BY <3>1, <3>2, FrameWaits
    <3>4. Depth' = Depth /\ Top'.todo = StoresAfter(store)
      BY <2>2, <3>1, <3>3 DEF Depth, Top
    <3>5. Less(Top'.todo, Top.todo)
      BY <2>1, <3>4 DEF Less, StoresAfter
    <3> QED BY <2>1, <2>2, <3>4, <3>5 DEF Searches
  <2>3. CASE store \notin visited /\ visited' = visited \cup {store}
    BY <1>1, <2>1, <2>3 DEF Searches, Less, MacInv, MacTypes
  <2> QED BY <2>1, <2>2, <2>3
<1>2. ASSUME MacInv, StoresDone, NEW disks, Return(disks), visited' = visited PROVE Searches
  <2>1. frames \in Seq(Frames) /\ Depth = Len(frames) /\ Depth \in Nat /\ stage = "search"
    BY <1>2 DEF MacInv, MacTypes, StoresDone, Depth
  <2>2. CASE Depth > 1
    <3>1. frames' = [Callers EXCEPT ![Depth - 1].found = @ \cup disks] /\ stage' = stage
      BY <1>2, <2>2 DEF Return
    <3>2. Callers \in Seq(Frames) /\ Len(Callers) = Depth - 1
      BY <2>1, <2>2 DEF Callers
    <3>3. Len(frames') = Len(Callers)
      BY <3>1, <3>2
    <3> QED BY <1>2, <2>1, <2>2, <3>1, <3>2, <3>3 DEF Searches, Depth
  <2>3. CASE ~(Depth > 1)
    BY <1>2, <2>1, <2>3 DEF Return, Searches, MacPhase
  <2> QED BY <2>2, <2>3
<1>3. ASSUME MacInv, ReturnResolved \/ ReturnDisk PROVE Searches
  BY <1>2, <1>3 DEF ReturnResolved, ReturnDisk
<1>4. ASSUME MacInv, LookAtParent PROVE Searches
  <2> DEFINE parent == world[Top.node].parent
  <2>1. StoresDone /\ stage = "search"
    BY <1>4 DEF LookAtParent, StoresDone
  <2>2. \/ Return({}) /\ visited' = visited
        \/ parent \notin {NoNode} \cup visited /\ visited' = visited \cup {parent} /\ stage' = stage
    BY <1>4 DEF LookAtParent
  <2>3. CASE Return({}) /\ visited' = visited
    BY <1>2, <1>4, <2>1, <2>3
  <2>4. CASE parent \notin {NoNode} \cup visited /\ visited' = visited \cup {parent} /\ stage' = stage
    <3>1. parent \in Nodes
      BY <1>4, <2>1, <2>4, InnermostShape, WorldShape DEF MacInv, MacTypes
    <3> HIDE DEF parent
    <3> QED BY <1>4, <2>1, <2>4, <3>1 DEF Searches, Less, MacInv, MacTypes
  <2> QED BY <2>2, <2>3, <2>4
<1>5. ASSUME MacInv, NEW n \in Nodes, Inspect(n) PROVE Searches
  BY <1>5 DEF Inspect, Searches, Less, MacInv, MacTypes
<1>6. ASSUME ListExternal \/ RootFails \/ RootInternal \/ RootExternal \/ InspectedAll
      PROVE  Searches
  BY <1>6 DEF ListExternal, RootFails, RootInternal, RootExternal, InspectedAll, Searches, MacPhase
<1>7. MacInv /\ [MacNext]_macVars => [Searches]_macVars
  BY <1>1, <1>3, <1>4, <1>5, <1>6 DEF MacNext
<1> QED BY <1>7, MacInductive, PTL DEF MacSpec

=============================================================================
