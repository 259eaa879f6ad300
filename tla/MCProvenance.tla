----------------------------- MODULE MCProvenance -----------------------------
(* Two images a and b.  The manifests list a by name next to a path of that   *)
(* name with another digest, by two paths that disagree, by two names that    *)
(* disagree, or by a path next to a bare digest; one is a single bare digest. *)
EXTENDS Provenance

CONSTANTS isoA, isoB, a, b, x, y, key, other, plain, paths, bare, both, loose

Entry(line, f, dir, d) == [line |-> line, file |-> f, dir |-> dir, digest |-> d]

MCName == [i \in Images |-> IF i = isoA THEN a ELSE b]

MCLines == [c \in Contents |->
  CASE c = plain -> {Entry(1, a, FALSE, x), Entry(2, a, TRUE, y)}
    [] c = paths -> {Entry(1, a, TRUE, x), Entry(2, a, TRUE, y)}
    [] c = both  -> {Entry(1, a, FALSE, x), Entry(2, a, FALSE, y)}
    [] c = loose -> {Entry(1, a, TRUE, x), Entry(2, Bare, FALSE, y)}
    [] c = bare  -> {Entry(1, Bare, FALSE, x)}]

(* Of "plain" the signature covers the first line, of "both" none. *)
MCCovered == [c \in Contents |->
  IF c = plain THEN {Entry(1, a, FALSE, x)} ELSE IF c = both THEN {} ELSE MCLines[c]]

(* "other" is a key without the fingerprint beside it. *)
MCGenuine == [k \in Keys |-> IF k = other THEN {} ELSE {plain, both, bare}]
===============================================================================
