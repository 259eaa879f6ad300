--------------------------- MODULE ImageInspection ---------------------------
(***************************************************************************)
(* validate_image on a file that may still be arriving: what inspect_image *)
(* reads of it (boot sector, GPT header and entry array, optical volume    *)
(* descriptors, file system marks) and whether Start Write takes it.  The  *)
(* whole image is fixed; the file holds its first bytes, so a table that   *)
(* is already there may describe what is not.  Lengths are in bytes, and   *)
(* the sector sizes are constants, so that small ones can be checked.      *)
(***************************************************************************)
EXTENDS Integers

CONSTANTS
  Sector,           \* SECTOR_SIZE
  Optical,          \* ISO_SECTOR_SIZE
  DescriptorStart, DescriptorLimit,  \* ISO_DESCRIPTOR_START and _LIMIT
  MinSize,          \* MIN_IMAGE_SIZE
  Marks,            \* [file systems -> the bytes that show their mark]
  NoMark,           \* a file system without a mark
  Images            \* the images that may be chosen

Descriptors == {"none", "iso", "end", "udf"}
Entries == [protective : BOOLEAN, start : Nat, count : Nat \ {0}]

(* A GPT header: whether its revision, size, checksum and counts are in       *)
(* order, and what it says; array and arraySize are those of its entries.     *)
Headers ==
  [sound : BOOLEAN, current : Nat, first : Nat, last : Nat, backup : Nat, array : Nat,
   arraySize : Nat \ {0}, arraySound : BOOLEAN]

ASSUME ImageAssumption ==
  /\ Sector \in Nat \ {0} /\ Optical \in Nat \ {0} /\ MinSize \in Nat
  /\ DescriptorStart \in Nat /\ DescriptorLimit \in Nat
  /\ \A m \in DOMAIN Marks : Marks[m] \in Nat
  /\ \A i \in Images :
       /\ i.size \in Nat /\ i.iso \in BOOLEAN /\ i.signed \in BOOLEAN
       /\ i.partitions \subseteq Entries
       /\ i.gpt \in {TRUE, FALSE} /\ i.header \in Headers
       /\ i.descriptors \in [DescriptorStart..(DescriptorLimit - 1) -> Descriptors]
       /\ i.mark \in DOMAIN Marks \cup {NoMark}
       /\ i.mark # NoMark => Marks[i.mark] <= i.size   \* a mark is in its image

VARIABLES
  image,    \* the image, whole
  length,   \* how much of it is in the file
  verdict,  \* what the last validate_image said
  at        \* history: the length of the file then

vars == <<image, length, verdict, at>>

-----------------------------------------------------------------------------
(* inspect_image *)

Sectors(n) == n \div Sector

Signed(i, n) == i.signed /\ n >= Sector

(* _has_valid_mbr_partition_table, over the entries that are in use. *)
StartsInside(i, n) ==
  Signed(i, n) /\ i.partitions # {} /\ \A e \in i.partitions : e.start < Sectors(n)
MbrValid(i, n) ==
  /\ Signed(i, n) /\ i.partitions # {}
  /\ \A e \in i.partitions :
       /\ e.start < Sectors(n)
       /\ e.protective \/ e.start + e.count <= Sectors(n)

HasGpt(i, n) == i.gpt /\ n >= 2 * Sector

(* _inspect_gpt *)
BackupAtEnd(i, n) ==
  LET h == i.header IN
  /\ h.sound /\ h.current = 1
  /\ 2 <= h.first /\ h.first <= h.last /\ h.last < Sectors(n)
  /\ h.backup = Sectors(n) - 1
  /\ h.array * Sector + h.arraySize <= n /\ h.arraySound
GptValid(i, n) ==
  LET h == i.header IN
  /\ h.sound /\ h.current = 1
  /\ 2 <= h.first /\ h.first <= h.last /\ h.last < Sectors(n)
  /\ h.backup < Sectors(n)
  /\ h.array * Sector + h.arraySize <= n /\ h.arraySound

(* _inspect_optical_descriptors: the scan ends with the file, or after the    *)
(* terminator of the ISO 9660 descriptors.                                    *)
NoLookBack(i, n) == {s \in DOMAIN i.descriptors : (s + 1) * Optical < n}
Scanned(i, n) ==
  {s \in DOMAIN i.descriptors :
     /\ (s + 1) * Optical <= n
     /\ \A t \in DescriptorStart..(s - 1) : i.descriptors[t] # "end"}
Iso9660(i, n) == \E s \in Scanned(i, n) : i.descriptors[s] \in {"iso", "end"}
Udf(i, n) == \E s \in Scanned(i, n) : i.descriptors[s] = "udf"

(* _filesystem_hint *)
Hinted(i, n) == i.mark # NoMark /\ n >= Marks[i.mark]

Scheme(i, n) == IF HasGpt(i, n) THEN "gpt" ELSE IF MbrValid(i, n) THEN "mbr" ELSE "none"

(* The three ways to a fatal_reason. *)
Fatal(i, n) ==
  \/ HasGpt(i, n) /\ ~GptValid(i, n)
  \/ i.iso /\ ~Iso9660(i, n) /\ ~Udf(i, n)
  \/ Signed(i, n) /\ Scheme(i, n) = "none" /\ ~Hinted(i, n)

-----------------------------------------------------------------------------
Init ==
  /\ image \in Images
  /\ length = 0 /\ verdict = "none" /\ at = 0

(* The next byte of the image is copied into the file. *)
Arrive ==
  /\ length < image.size
  /\ length' = length + 1
  /\ UNCHANGED <<image, verdict, at>>

(* validate_image: the check of the size, then that of the structure. *)
Validate ==
  /\ verdict' = IF length < MinSize \/ Fatal(image, length) THEN "refused" ELSE "accepted"
  /\ at' = length
  /\ UNCHANGED <<image, length>>

Next == Arrive \/ Validate

Spec == Init /\ [][Next]_vars

-----------------------------------------------------------------------------
(* Properties *)

(* What the partition table of an image describes ends here (in bytes).  The  *)
(* size of a protective entry is not believed.                                *)
Described(i) ==
  IF i.gpt
    THEN {(i.header.last + 1) * Sector, (i.header.backup + 1) * Sector,
          i.header.array * Sector + i.header.arraySize}
  ELSE IF i.signed /\ i.mark = NoMark
    THEN {(e.start + e.count) * Sector : e \in {x \in i.partitions : ~x.protective}}
  ELSE {}

(* An image that was cut off is noticed: once the sector of its partition     *)
(* table is there, a file is taken only if everything that the table          *)
(* describes is there as well.                                                *)
NothingMissing ==
  verdict = "accepted" /\ at >= 2 * Sector => \A end \in Described(image) : end <= at

(* What a writer of images makes: tables that agree with the size, an .iso    *)
(* with a volume descriptor before the terminator, and a boot sector that     *)
(* has partitions or a file system.                                           *)
WellMade(i) ==
  /\ i.size >= MinSize
  /\ i.gpt => /\ i.header.sound /\ i.header.arraySound /\ i.header.current = 1
              /\ 2 <= i.header.first /\ i.header.first <= i.header.last
              /\ i.size >= 2 * Sector
              /\ i.size % Sector = 0
  /\ \A end \in Described(i) : end <= i.size
  /\ i.iso => \E s \in DOMAIN i.descriptors :
                 /\ i.descriptors[s] \in {"iso", "udf"}
                 /\ (s + 1) * Optical <= i.size
                 /\ \A t \in DescriptorStart..(s - 1) : i.descriptors[t] # "end"
  /\ i.signed /\ ~i.gpt =>
       \/ i.mark # NoMark
       \/ i.partitions # {} /\ \A e \in i.partitions : (e.start + 1) * Sector <= i.size

(* A well made image that is all there is never refused. *)
WholeIsAccepted ==
  verdict = "refused" /\ at = image.size => ~WellMade(image)

(* More of the same image never turns acceptance into refusal, once both      *)
(* sectors that may hold a partition table are there.                         *)
AcceptedStays ==
  [][verdict = "accepted" /\ at >= 2 * Sector => verdict' = "accepted"]_vars

-----------------------------------------------------------------------------
(* The inductive invariant behind them: see ImageProofs.                      *)

(* A verdict is about the bytes that the file had at that time, which are     *)
(* still its first ones.                                                      *)
VerdictHolds ==
  /\ verdict = "accepted" => at >= MinSize /\ ~Fatal(image, at)
  /\ verdict = "refused" => at < MinSize \/ Fatal(image, at)

IInv ==
  /\ image \in Images
  /\ length \in 0..image.size /\ at \in 0..length
  /\ verdict \in {"none", "accepted", "refused"}
  /\ VerdictHolds

=============================================================================
