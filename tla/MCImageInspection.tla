-------------------------- MODULE MCImageInspection --------------------------
(* Sectors of two bytes, optical ones of four, and two descriptors to scan:   *)
(* every combination of tables that fit the image, end one sector beyond it   *)
(* or are damaged, hybrids of disk and optical images included.               *)
EXTENDS ImageInspection

HintEnds == [vbr |-> 1, ext |-> 5]

Header(last, backup, arraySize, sound, arraySound) ==
  [sound |-> sound, current |-> 1, first |-> 3, last |-> last, backup |-> backup,
   array |-> 2, arraySize |-> arraySize, arraySound |-> arraySound]
GptHeaders ==
  {Header(last, backup, arraySize, sound, arraySound) :
     last \in 4..7, backup \in 5..7, arraySize \in {2, 3, 10}, sound, arraySound \in BOOLEAN}
  \cup {[Header(5, 6, 2, TRUE, TRUE) EXCEPT !.current = 2],
        [Header(5, 6, 2, TRUE, TRUE) EXCEPT !.first = 1]}
NoHeader == Header(5, 6, 2, TRUE, TRUE)

Entry(start, count) == [protective |-> FALSE, start |-> start, count |-> count]
Guard(count) == [protective |-> TRUE, start |-> 1, count |-> count]
Tables ==
  {{}, {Guard(6)}, {Guard(99)}, {Entry(7, 1)}, {Guard(99), Entry(2, 2)}}
  \cup {{Entry(s, c)} : s \in {0, 2}, c \in 4..7}
  \cup {{Entry(1, 2), Entry(3, c)} : c \in 3..5}

Disk(size, iso, signed, table, gpt, header, descriptors, mark) ==
  [size |-> size, iso |-> iso, signed |-> signed, partitions |-> table, gpt |-> gpt,
   header |-> header, descriptors |-> descriptors, mark |-> mark]
Blank == [s \in DescriptorStart..(DescriptorLimit - 1) |-> "none"]
Scans == [DescriptorStart..(DescriptorLimit - 1) -> Descriptors]

SomeImages ==
  {Disk(size, FALSE, signed, table, FALSE, NoHeader, Blank, mark) :
     size \in 13..14, signed \in BOOLEAN, table \in Tables,
     mark \in DOMAIN HintEnds \cup {NoMark}}
  \cup {Disk(14, FALSE, signed, {Guard(6)}, TRUE, header, Blank, NoMark) :
          signed \in BOOLEAN, header \in GptHeaders}
  \cup {Disk(size, iso, signed, table, gpt, NoHeader, scan, NoMark) :
          size \in {11, 12, 14}, iso, signed, gpt \in BOOLEAN,
          table \in {{}, {Entry(0, 7)}}, scan \in Scans}
=============================================================================
