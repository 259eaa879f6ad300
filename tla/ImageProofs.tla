----------------------------- MODULE ImageProofs -----------------------------
(***************************************************************************)
(* Proofs about ImageInspection, for images, sectors and marks of any      *)
(* size: a verdict is about a prefix of the image, the parts of Fatal grow *)
(* in a known direction with that prefix, and a table that has been read   *)
(* fits into it.                                                           *)
(***************************************************************************)
EXTENDS ImageInspection, TLAPS

-----------------------------------------------------------------------------
(* Whole sectors. *)

LEMMA Factor ==
  ASSUME NEW a \in Nat, NEW b \in Nat, NEW s \in Nat, a <= b
  PROVE  a * s <= b * s
<1>1. PICK d \in Nat : b = a + d
  <2>1. b - a \in Nat /\ b = a + (b - a)
    OBVIOUS
  <2> QED BY <2>1
<1>2. b * s = a * s + d * s /\ d * s \in Nat /\ a * s \in Nat
  BY <1>1
<1> QED BY <1>2

(* \div rounds down to whole sectors. *)
LEMMA SectorsOf ==
  ASSUME NEW n \in Nat
  PROVE  /\ Sectors(n) \in Nat
         /\ Sectors(n) * Sector <= n
         /\ n < (Sectors(n) + 1) * Sector
BY ImageAssumption DEF Sectors

(* k sectors are whole in n bytes exactly when they fit. *)
LEMMA WholeSectors ==
  ASSUME NEW n \in Nat, NEW k \in Nat
  PROVE  k <= Sectors(n) <=> k * Sector <= n
<1>s. Sector \in Nat
  BY ImageAssumption
<1>1. Sectors(n) \in Nat /\ Sectors(n) * Sector <= n /\ n < (Sectors(n) + 1) * Sector
  BY SectorsOf
<1>2. Sectors(n) * Sector \in Nat /\ k * Sector \in Nat /\ (Sectors(n) + 1) * Sector \in Nat
  BY <1>1, <1>s
<1>3. ASSUME k <= Sectors(n) PROVE k * Sector <= n
  <2>1. k * Sector <= Sectors(n) * Sector
    BY <1>1, <1>3, <1>s, Factor
  <2> QED BY <2>1, <1>1, <1>2
<1>4. ASSUME ~(k <= Sectors(n)) PROVE ~(k * Sector <= n)
  <2>1. Sectors(n) + 1 <= k /\ Sectors(n) + 1 \in Nat
    BY <1>4, <1>1
  <2>2. (Sectors(n) + 1) * Sector <= k * Sector
    BY <2>1, <1>s, Factor
  <2> QED BY <2>2, <1>1, <1>2
<1> QED BY <1>3, <1>4

LEMMA SectorsGrow ==
  ASSUME NEW n \in Nat, NEW m \in Nat, n <= m
  PROVE  Sectors(n) <= Sectors(m)
<1>1. Sectors(n) \in Nat /\ Sectors(m) \in Nat /\ Sectors(n) * Sector <= n
  BY SectorsOf
<1>2. Sectors(n) * Sector <= m
  <2>1. Sectors(n) * Sector \in Nat
    BY <1>1, ImageAssumption
  <2> QED BY <2>1, <1>1
<1> QED BY <1>1, <1>2, WholeSectors

-----------------------------------------------------------------------------
(* What the parts of Fatal do when more of the image is there. *)

LEMMA ImageShape ==
  ASSUME NEW i \in Images
  PROVE  /\ i.size \in Nat /\ i.iso \in BOOLEAN /\ i.signed \in BOOLEAN /\ i.gpt \in BOOLEAN
         /\ i.header.sound \in BOOLEAN /\ i.header.arraySound \in BOOLEAN
         /\ i.header.current \in Nat /\ i.header.first \in Nat /\ i.header.last \in Nat
         /\ i.header.backup \in Nat /\ i.header.array \in Nat /\ i.header.arraySize \in Nat
         /\ i.header.array * Sector \in Nat
         /\ \A e \in i.partitions : e.protective \in BOOLEAN /\ e.start \in Nat /\ e.count \in Nat
<1>1. i.header \in Headers
  BY ImageAssumption
<1>2. i.partitions \subseteq Entries
  BY ImageAssumption
<1>3. /\ i.header.sound \in BOOLEAN /\ i.header.arraySound \in BOOLEAN
      /\ i.header.current \in Nat /\ i.header.first \in Nat /\ i.header.last \in Nat
      /\ i.header.backup \in Nat /\ i.header.array \in Nat /\ i.header.arraySize \in Nat
  BY <1>1 DEF Headers
<1>4. i.header.array * Sector \in Nat
  BY <1>3, ImageAssumption
<1>5. \A e \in i.partitions : e.protective \in BOOLEAN /\ e.start \in Nat /\ e.count \in Nat
  BY <1>2 DEF Entries
<1>6. i.size \in Nat /\ i.iso \in BOOLEAN /\ i.signed \in BOOLEAN /\ i.gpt \in BOOLEAN
  BY ImageAssumption
<1> QED BY <1>3, <1>4, <1>5, <1>6

(* Both sectors that may hold a partition table. *)
LEMMA TwoSectors ==
  ASSUME NEW n \in Nat, n >= 2 * Sector
  PROVE  n >= Sector
BY ImageAssumption

LEMMA MbrGrows ==
  ASSUME NEW i \in Images, NEW n \in Nat, NEW m \in Nat, n <= m, MbrValid(i, n)
  PROVE  MbrValid(i, m)
<1>1. Sectors(n) <= Sectors(m) /\ Sectors(n) \in Nat /\ Sectors(m) \in Nat
  BY SectorsGrow, SectorsOf
<1>2. Signed(i, m)
  BY ImageAssumption DEF MbrValid, Signed
<1>3. ASSUME NEW e \in i.partitions
      PROVE  e.start < Sectors(m) /\ (e.protective \/ e.start + e.count <= Sectors(m))
  <2>1. e.start \in Nat /\ e.count \in Nat
    BY ImageShape
  <2>2. e.start < Sectors(n) /\ (e.protective \/ e.start + e.count <= Sectors(n))
    BY DEF MbrValid
  <2> QED BY <2>1, <2>2, <1>1
<1> QED BY <1>2, <1>3 DEF MbrValid

LEMMA GptGrows ==
  ASSUME NEW i \in Images, NEW n \in Nat, NEW m \in Nat, n <= m, GptValid(i, n)
  PROVE  GptValid(i, m)
<1>1. Sectors(n) <= Sectors(m) /\ Sectors(n) \in Nat /\ Sectors(m) \in Nat
  BY SectorsGrow, SectorsOf
<1>2. /\ i.header.last \in Nat /\ i.header.backup \in Nat
      /\ i.header.array * Sector \in Nat /\ i.header.arraySize \in Nat
  BY ImageShape
<1> QED BY <1>1, <1>2 DEF GptValid

LEMMA OpticalGrows ==
  ASSUME NEW i \in Images, NEW n \in Nat, NEW m \in Nat, n <= m
  PROVE  Scanned(i, n) \subseteq Scanned(i, m)
<1>1. ASSUME NEW s \in DOMAIN i.descriptors, (s + 1) * Optical <= n
      PROVE  (s + 1) * Optical <= m
  <2>1. s \in Nat
    <3>1. i.descriptors \in [DescriptorStart..(DescriptorLimit - 1) -> Descriptors]
      BY ImageAssumption
    <3>2. s \in DescriptorStart..(DescriptorLimit - 1)
      BY <3>1
    <3> QED BY <3>2, ImageAssumption
  <2>2. (s + 1) * Optical \in Nat
    BY <2>1, ImageAssumption
  <2> QED BY <2>2, <1>1
<1> QED BY <1>1 DEF Scanned

LEMMA HintGrows ==
  ASSUME NEW i \in Images, NEW n \in Nat, NEW m \in Nat, n <= m, Hinted(i, n)
  PROVE  Hinted(i, m)
<1>1. i.mark # NoMark /\ Marks[i.mark] <= n
  BY DEF Hinted
<1>2. i.mark \in DOMAIN Marks
  BY <1>1, ImageAssumption
<1>3. Marks[i.mark] \in Nat
  BY <1>2, ImageAssumption
<1> QED BY <1>1, <1>3 DEF Hinted

(* Once both sectors are there, what is not fatal stays so. *)
LEMMA FatalShrinks ==
  ASSUME NEW i \in Images, NEW n \in Nat, NEW m \in Nat, n <= m, n >= 2 * Sector, Fatal(i, m)
  PROVE  Fatal(i, n)
<1>1. m >= 2 * Sector
  BY ImageAssumption
<1>2. n >= Sector /\ m >= Sector
  BY <1>1, TwoSectors
<1>3. HasGpt(i, n) <=> HasGpt(i, m)
  BY <1>1 DEF HasGpt
<1>4. CASE HasGpt(i, m) /\ ~GptValid(i, m)
  BY <1>3, <1>4, GptGrows DEF Fatal
<1>5. CASE i.iso /\ ~Iso9660(i, m) /\ ~Udf(i, m)
  <2>1. ~Iso9660(i, n) /\ ~Udf(i, n)
    BY <1>5, OpticalGrows DEF Iso9660, Udf
  <2> QED BY <1>5, <2>1 DEF Fatal
<1>6. CASE Signed(i, m) /\ Scheme(i, m) = "none" /\ ~Hinted(i, m)
  <2>1. Signed(i, n)
    BY <1>6, <1>2 DEF Signed
  <2>2. ~HasGpt(i, n) /\ ~MbrValid(i, n)
    <3>1. ~HasGpt(i, m) /\ ~MbrValid(i, m)
      BY <1>6 DEF Scheme
    <3> QED BY <3>1, <1>3, MbrGrows
  <2>3. ~Hinted(i, n)
    BY <1>6, HintGrows
  <2> QED BY <2>1, <2>2, <2>3 DEF Fatal, Scheme
<1> QED BY <1>4, <1>5, <1>6 DEF Fatal

-----------------------------------------------------------------------------
(* What a table describes. *)

(* Nothing that is described lies beyond an image that is not fatal. *)
LEMMA NotFatalFits ==
  ASSUME NEW i \in Images, NEW n \in Nat, n >= 2 * Sector, ~Fatal(i, n),
         NEW end \in Described(i)
  PROVE  end <= n
<1>1. CASE i.gpt
  <2>1. GptValid(i, n)
    BY <1>1 DEF Fatal, HasGpt
  <2>2. /\ i.header.last \in Nat /\ i.header.backup \in Nat
    BY ImageShape
  <2>3. i.header.last + 1 <= Sectors(n) /\ i.header.backup + 1 <= Sectors(n)
    BY <2>1, <2>2, SectorsOf DEF GptValid
  <2>4. (i.header.last + 1) * Sector <= n /\ (i.header.backup + 1) * Sector <= n
    BY <2>2, <2>3, WholeSectors
  <2>5. i.header.array * Sector + i.header.arraySize <= n
    BY <2>1 DEF GptValid
  <2> QED BY <1>1, <2>4, <2>5 DEF Described
<1>2. CASE ~i.gpt
  <2>1. i.signed /\ i.mark = NoMark
    BY <1>2 DEF Described
  <2>2. PICK e \in i.partitions : ~e.protective /\ end = (e.start + e.count) * Sector
    BY <1>2, <2>1 DEF Described
  <2>3. MbrValid(i, n)
    BY <1>2, <2>1, TwoSectors DEF Fatal, Scheme, HasGpt, Signed, Hinted
  <2>4. e.start + e.count <= Sectors(n) /\ e.start + e.count \in Nat
    BY <2>2, <2>3, ImageShape DEF MbrValid
  <2> QED BY <2>2, <2>4, WholeSectors
<1> QED BY <1>1, <1>2

(* A well made image is not fatal as a whole. *)
LEMMA WellMadeNotFatal ==
  ASSUME NEW i \in Images, WellMade(i)
  PROVE  ~Fatal(i, i.size)
<1>s. i.size \in Nat /\ Sectors(i.size) \in Nat
  BY ImageShape, SectorsOf
<1>1. HasGpt(i, i.size) => GptValid(i, i.size)
  <2> SUFFICES ASSUME HasGpt(i, i.size) PROVE GptValid(i, i.size)
    OBVIOUS
  <2>1. i.gpt
    BY DEF HasGpt
  <2>2. /\ i.header.last \in Nat /\ i.header.backup \in Nat
    BY ImageShape
  <2>3. /\ (i.header.last + 1) * Sector <= i.size /\ (i.header.backup + 1) * Sector <= i.size
        /\ i.header.array * Sector + i.header.arraySize <= i.size
    BY <2>1 DEF WellMade, Described
  <2>4. i.header.last + 1 <= Sectors(i.size) /\ i.header.backup + 1 <= Sectors(i.size)
    BY <2>2, <2>3, <1>s, WholeSectors
  <2>5. i.header.last < Sectors(i.size) /\ i.header.backup < Sectors(i.size)
    BY <2>2, <2>4, <1>s
  <2> QED BY <2>1, <2>3, <2>5 DEF WellMade, GptValid
<1>2. i.iso => Iso9660(i, i.size) \/ Udf(i, i.size)
  BY DEF WellMade, Iso9660, Udf, Scanned
<1>3. Signed(i, i.size) /\ Scheme(i, i.size) = "none" => Hinted(i, i.size)
  <2> SUFFICES ASSUME Signed(i, i.size), Scheme(i, i.size) = "none", i.mark = NoMark
               PROVE  FALSE
    BY ImageAssumption DEF Hinted
  <2>1. i.signed /\ ~HasGpt(i, i.size) /\ ~MbrValid(i, i.size)
    BY DEF Scheme, Signed
  <2>2. ~i.gpt
    BY <2>1 DEF WellMade, HasGpt
  <2>3. i.partitions # {} /\ \A e \in i.partitions : (e.start + 1) * Sector <= i.size
    BY <2>1, <2>2 DEF WellMade
  <2>4. PICK e \in i.partitions :
          ~(e.start < Sectors(i.size) /\ (e.protective \/ e.start + e.count <= Sectors(i.size)))
    BY <2>1, <2>3 DEF MbrValid
  <2>5. e.start \in Nat /\ e.count \in Nat /\ e.protective \in BOOLEAN
    BY ImageShape
  <2>6. e.start < Sectors(i.size)
    <3>1. e.start + 1 <= Sectors(i.size)
      BY <2>3, <2>5, <1>s, WholeSectors
    <3> QED BY <3>1, <2>5, <1>s
  <2>7. ~e.protective => e.start + e.count <= Sectors(i.size)
    <3> SUFFICES ASSUME ~e.protective PROVE e.start + e.count <= Sectors(i.size)
      OBVIOUS
    <3>1. (e.start + e.count) * Sector \in Described(i)
      BY <2>1, <2>2 DEF Described
    <3>2. (e.start + e.count) * Sector <= i.size
      BY <3>1 DEF WellMade
    <3> QED BY <3>2, <2>5, <1>s, WholeSectors
  <2> QED BY <2>4, <2>6, <2>7
<1> QED BY <1>1, <1>2, <1>3 DEF Fatal

-----------------------------------------------------------------------------
(* The behaviours *)

(* A verdict speaks of the bytes that were there at the time, and those are   *)
(* the first bytes of the image for good.                                     *)
THEOREM Inductive == Spec => []IInv
<1>1. Init => IInv
  BY ImageShape DEF Init, IInv, VerdictHolds
<1>2. IInv /\ [Next]_vars => IInv'
  <2> SUFFICES ASSUME IInv, [Next]_vars PROVE IInv'
    OBVIOUS
  <2>s. image.size \in Nat /\ length \in Nat /\ at \in Nat
    BY ImageShape DEF IInv
  <2>1. CASE Arrive
    <3>1. length' \in 0..image'.size /\ at' \in 0..length'
      BY <2>1, <2>s DEF Arrive, IInv
    <3>2. VerdictHolds'
      BY <2>1 DEF Arrive, IInv, VerdictHolds
    <3> QED BY <2>1, <3>1, <3>2 DEF Arrive, IInv
  <2>2. CASE Validate
    <3>1. length' \in 0..image'.size /\ at' \in 0..length'
      BY <2>2, <2>s DEF Validate, IInv
    <3>2. VerdictHolds'
      <4>1. image' = image /\ at' = length
        BY <2>2 DEF Validate
      <4>2. Fatal(image, length) <=> Fatal(image', at')
        BY <4>1
      <4>3. verdict' = "accepted" => length >= MinSize /\ ~Fatal(image, length)
        BY <2>2, <2>s, ImageAssumption DEF Validate
      <4>4. verdict' = "refused" => length < MinSize \/ Fatal(image, length)
        BY <2>2 DEF Validate
      <4> QED BY <4>1, <4>2, <4>3, <4>4 DEF VerdictHolds
    <3> QED BY <2>2, <3>1, <3>2 DEF Validate, IInv
  <2>3. CASE UNCHANGED vars
    <3>1. VerdictHolds'
      BY <2>3 DEF vars, IInv, VerdictHolds
    <3> QED BY <2>3, <3>1 DEF vars, IInv
  <2> QED BY <2>1, <2>2, <2>3 DEF Next
<1> QED BY <1>1, <1>2, PTL DEF Spec

(* An image that was cut off is never taken, wherever the cut is, once its    *)
(* partition table is in the file (validate_image).                           *)
THEOREM CutsNoticed == Spec => []NothingMissing
<1>1. IInv => NothingMissing
  <2> SUFFICES ASSUME IInv, verdict = "accepted", at >= 2 * Sector, NEW end \in Described(image)
               PROVE  end <= at
    BY DEF NothingMissing
  <2>1. image \in Images /\ at \in Nat /\ ~Fatal(image, at)
    BY ImageShape DEF IInv, VerdictHolds
  <2> QED BY <2>1, NotFatalFits
<1> QED BY <1>1, Inductive, PTL

(* A well made image that has arrived whole is never refused. *)
THEOREM WholeTaken == Spec => []WholeIsAccepted
<1>1. IInv => WholeIsAccepted
  <2> SUFFICES ASSUME IInv, verdict = "refused", at = image.size, WellMade(image)
               PROVE  FALSE
    BY DEF WholeIsAccepted
  <2>1. ~Fatal(image, image.size)
    BY WellMadeNotFatal DEF IInv
  <2>2. image.size >= MinSize /\ image.size \in Nat
    BY ImageShape DEF WellMade, IInv
  <2>3. image.size < MinSize \/ Fatal(image, image.size)
    BY DEF IInv, VerdictHolds
  <2> QED BY <2>1, <2>2, <2>3, ImageAssumption
<1> QED BY <1>1, Inductive, PTL

(* Validating again when more of the image is there never takes acceptance    *)
(* back.                                                                      *)
THEOREM AcceptanceLasts == Spec => AcceptedStays
<1>1. IInv /\ [Next]_vars => [verdict = "accepted" /\ at >= 2 * Sector => verdict' = "accepted"]_vars
  <2> SUFFICES ASSUME IInv, Validate, verdict = "accepted", at >= 2 * Sector
               PROVE  verdict' = "accepted"
    BY DEF Next, Arrive, vars
  <2>1. image \in Images /\ at \in Nat /\ length \in Nat /\ at <= length
    BY ImageShape DEF IInv
  <2>2. ~Fatal(image, at) /\ at >= MinSize
    BY DEF IInv, VerdictHolds
  <2>3. ~Fatal(image, length) /\ ~(length < MinSize)
    BY <2>1, <2>2, FatalShrinks, ImageAssumption
  <2> QED BY <2>3 DEF Validate
<1> QED BY <1>1, Inductive, PTL DEF Spec, AcceptedStays

=============================================================================
