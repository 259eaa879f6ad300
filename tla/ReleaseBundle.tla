---------------------------- MODULE ReleaseBundle ----------------------------
(***************************************************************************)
(* The files of a release and the checks that scripts/release_index.py     *)
(* makes of them.  A bundle is a function from file names to contents; a   *)
(* digest is the content itself (SHA-256 has no collisions here), and a    *)
(* file that does not parse is Garbled.  Sizes go with the digests.        *)
(***************************************************************************)
EXTENDS Naturals, FiniteSets

CONSTANTS
  Platforms,  \* SUPPORTED_PLATFORMS
  Unknown     \* a platform that is not supported, or none

Labels == Platforms \cup {Unknown}

(* <artifact>, <artifact>.sha256, .json and .spdx.json, and the single files. *)
Kinds == {"binary", "checksum", "manifest", "sbom", "contract", "sums", "index", "indexsum",
          "stray"}
Names == [kind : Kinds, label : Labels]
Name(kind, label) == [kind |-> kind, label |-> label]
Single(kind) == Name(kind, Unknown)
ContractFile == Single("contract")
IndexFile == Single("index")
IndexSum == Single("indexsum")

OfKind(b, kind) == {n \in DOMAIN b : n.kind = kind}
Without(b, gone) == [n \in DOMAIN b \ gone |-> b[n]]
With(b, n, content) == [m \in DOMAIN b \cup {n} |-> IF m = n THEN content ELSE b[m]]

Garbled == [is |-> "garbled"]
Checksum(n, content) == [is |-> "checksum", of |-> n, digest |-> content]

(* package_artifact.package and the SBOM step: the four files of one build,   *)
(* named after the platform they were built on.                               *)
Package(bin, version) ==
  LET n == Name("binary", bin.platform) IN
  [m \in [kind : {"binary", "checksum", "manifest", "sbom"}, label : {bin.platform}] |->
     CASE m.kind = "binary" -> bin
       [] m.kind = "checksum" -> Checksum(n, bin)
       [] m.kind = "manifest" ->
            [is |-> "manifest", artifact |-> bin.platform, platform |-> bin.platform,
             version |-> version, sha |-> bin.sha, digest |-> bin]
       [] m.kind = "sbom" -> [is |-> "sbom", of |-> bin]]

-----------------------------------------------------------------------------
(* The checks *)

(* _parse_checksum, and the comparison with the file that it names. *)
ChecksumTrue(b, c) == c.is = "checksum" /\ c.of \in DOMAIN b /\ b[c.of] = c.digest

(* sha256sum --check: lines that do not parse are passed over, unless none    *)
(* does.                                                                      *)
SumLines(b) == {b[n] : n \in {m \in OfKind(b, "checksum") : b[m].is = "checksum"}}
SumsHold(b) == SumLines(b) # {} /\ \A c \in SumLines(b) : ChecksumTrue(b, c)

(* _validate_contract *)
ContractAgrees(b, version, tag, sha) ==
  /\ ContractFile \in DOMAIN b /\ b[ContractFile].is = "contract"
  /\ b[ContractFile].version = version /\ b[ContractFile].tag = tag
  /\ b[ContractFile].sha = sha

(* _validate_platform_manifests, for one manifest. *)
AnySource(b, n, version, sha) ==
  LET m == b[n] IN
  /\ m.is = "manifest" /\ m.artifact = n.label /\ m.platform \in Platforms
  /\ m.version = version
  /\ Name("binary", n.label) \in DOMAIN b /\ b[Name("binary", n.label)] = m.digest
  /\ Name("checksum", n.label) \in DOMAIN b /\ Name("sbom", n.label) \in DOMAIN b

ManifestHolds(b, n, version, sha) ==
  LET m == b[n] IN
  /\ m.is = "manifest" /\ m.artifact = n.label /\ m.platform \in Platforms
  /\ m.version = version /\ m.sha = sha
  /\ Name("binary", n.label) \in DOMAIN b /\ b[Name("binary", n.label)] = m.digest
  /\ Name("checksum", n.label) \in DOMAIN b /\ Name("sbom", n.label) \in DOMAIN b

(* build_release_index *)
IndexAccepts(b, version, tag, sha) ==
  LET manifests == OfKind(b, "manifest") IN
  /\ ContractAgrees(b, version, tag, sha)
  /\ \A kind \in {"manifest", "sbom", "checksum"} :
       Cardinality(OfKind(b, kind)) = Cardinality(Platforms)
  /\ \A n \in OfKind(b, "checksum") : ChecksumTrue(b, b[n])
  /\ \A n \in manifests : ManifestHolds(b, n, version, sha)
  /\ \A m, n \in manifests : b[m].platform = b[n].platform => m = n
  /\ Platforms \subseteq {b[n].platform : n \in manifests}

(* release-index.json and its checksum, which do not list themselves. *)
Index(b, version, tag, sha) ==
  [is |-> "index", version |-> version, tag |-> tag, sha |-> sha,
   prerelease |-> b[ContractFile].prerelease, files |-> Without(b, {IndexFile, IndexSum})]

Indexed(b, version, tag, sha) ==
  LET index == Index(b, version, tag, sha)
  IN With(With(b, IndexFile, index), IndexSum, Checksum(IndexFile, index))

(* verify_release_payload: its own checksum, then every file and no other. *)
PayloadVerified(b) ==
  /\ {IndexFile, IndexSum} \subseteq DOMAIN b
  /\ b[IndexSum].is = "checksum" /\ b[IndexSum].of = IndexFile
  /\ b[IndexSum].digest = b[IndexFile]
  /\ b[IndexFile].is = "index"
  /\ LET files == b[IndexFile].files IN
     /\ DOMAIN files # {} /\ DOMAIN files \cap {IndexFile, IndexSum} = {}
     /\ \A n \in DOMAIN files : n \in DOMAIN b /\ b[n] = files[n]
     /\ DOMAIN b = DOMAIN files \cup {IndexFile, IndexSum}

=============================================================================
