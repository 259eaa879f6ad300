------------------------------- MODULE Release -------------------------------
(***************************************************************************)
(* The Release Candidate workflow: dispatched runs, queued by the version  *)
(* they name, their jobs (validate, one build per platform, release), and  *)
(* the releases and tags of the repository.  A step of a job may fail for  *)
(* reasons of its own at any time, a run that waits is cancelled by a      *)
(* later one, a run may be run again, its failed jobs only or all of them, *)
(* and what one job hands to another, or to the public release, may arrive *)
(* damaged.  A run that is cancelled by hand is one whose next step fails. *)
(* Actions and gh are external, as far as the workflow relies on them.     *)
(***************************************************************************)
EXTENDS ReleaseBundle

CONSTANTS
  Runs,        \* workflow runs
  Shas, Main,  \* commits, and those that refs/heads/main has pointed to
  Versions,
  VersionOf,   \* [Shas -> Versions]: boot_it_meta.__version__ of a commit
  Windows,     \* the platform whose executable is signed
  Asked,       \* bound: the dispatches that may be made
  MaxReruns,   \* bound: re-runs
  Fragile,     \* bound: the files that may arrive lost or damaged
  MaxFaults,   \* bound: deliveries that arrive damaged
  None

ASSUME ReleaseAssumption ==
  /\ Main \subseteq Shas /\ VersionOf \in [Shas -> Versions]
  /\ Windows \in Platforms /\ Unknown \notin Platforms
  /\ None \notin [sha : Shas, by : {"maintainer", "release"}]
  /\ MaxReruns \in Nat /\ MaxFaults \in Nat
  /\ Asked \subseteq [input : [version : Versions, padded : BOOLEAN], sha : Shas,
                       final : BOOLEAN]

VARIABLES
  run,       \* [Runs -> a workflow run, or None]
  releases,  \* from the tags that have one to their public release
  tags,      \* [Tags -> what the tag points at and who made it, or None]
  reruns,    \* re-runs so far
  faults     \* deliveries that have been damaged so far

vars == <<run, releases, tags, reruns, faults>>

(* The version as it was typed: with blanks around it, or as it should be.    *)
(* The tag of a run is "v" before what was typed.                             *)
Inputs == [version : Versions, padded : BOOLEAN]
Exact(v) == [version |-> v, padded |-> FALSE]
Tags == Inputs

(* The Authenticode signature of a Windows executable, and what the           *)
(* repository has set of the four signing inputs when it is built.            *)
Signatures == {"none", "pinned", "untimed", "other"}
Configs == {"absent", "blank", "partial", "set"}
Binary(p, sha, signature, config) ==
  [is |-> "binary", platform |-> p, sha |-> sha, signature |-> signature, config |-> config]
Binaries ==
  [is : {"binary"}, platform : Labels, sha : Shas, signature : Signatures, config : Configs]

JobStates == {"todo", "ok", "failed"}
Steps == {"check", "index", "verify", "create", "recheck"}
Dispatched(ask) ==
  [input |-> ask.input, sha |-> ask.sha, final |-> ask.final, status |-> "queued",
   validate |-> "todo", build |-> [p \in Platforms |-> "todo"],
   package |-> [p \in Platforms |-> None], release |-> "todo", bundle |-> None]

-----------------------------------------------------------------------------
(* Runs and their queue *)

(* Entering the queue of a version takes the place of whoever waits there.    *)
Queued(r, record) ==
  run' = [q \in Runs |->
            IF q = r THEN record
            ELSE IF run[q] # None /\ run[q].input = record.input /\ run[q].status = "queued"
                   THEN [run[q] EXCEPT !.status = "cancelled"]
            ELSE run[q]]

Dispatch(r, ask) ==
  /\ run[r] = None
  /\ Queued(r, Dispatched(ask))
  /\ UNCHANGED <<releases, tags, reruns, faults>>

Begin(r) ==
  /\ run[r] # None /\ run[r].status = "queued"
  /\ \A q \in Runs : run[q] # None /\ run[q].status = "active" => run[q].input # run[r].input
  /\ run' = [run EXCEPT ![r].status = "active"]
  /\ UNCHANGED <<releases, tags, reruns, faults>>

Active(r) == run[r] # None /\ run[r].status = "active"

(* Re-run the jobs that did not succeed, or all of them. *)
Retry(state) == IF state = "ok" THEN "ok" ELSE "todo"
Rerun(r) ==
  /\ run[r] # None /\ run[r].status \in {"red", "green", "cancelled"}
  /\ reruns < MaxReruns /\ reruns' = reruns + 1
  /\ \/ /\ run[r].status # "green"
        /\ Queued(r, [run[r] EXCEPT !.status = "queued",
                        !.validate = Retry(@),
                        !.build = [p \in Platforms |-> Retry(run[r].build[p])],
                        !.release = "todo", !.bundle = None])
     \/ Queued(r, Dispatched(run[r]))
  /\ UNCHANGED <<releases, tags, faults>>

(* Maintainers may push the tag of a version before it is released. *)
PushTag(t, sha) ==
  /\ ~t.padded /\ tags[t] = None
  /\ tags' = [tags EXCEPT ![t] = [sha |-> sha, by |-> "maintainer"]]
  /\ UNCHANGED <<run, releases, reruns, faults>>

-----------------------------------------------------------------------------
(* The validate and build jobs *)

(* validate_release_contract: the typed version is stripped. *)
ContractHolds(r) == run[r].input.version = VersionOf[run[r].sha] /\ run[r].sha \in Main
Contract(r) ==
  [is |-> "contract", version |-> Exact(run[r].input.version),
   tag |-> Exact(run[r].input.version), sha |-> run[r].sha, prerelease |-> ~run[r].final]

Validate(r) ==
  /\ Active(r) /\ run[r].validate = "todo"
  /\ \E result \in {"ok", "failed"} :
       /\ result = "ok" => ContractHolds(r)
       /\ run' = [run EXCEPT ![r].validate = result]
  /\ UNCHANGED <<releases, tags, reruns, faults>>

(* signing_config_from_values: some but not all inputs are an error. *)
SigningOff(config) == config \in {"absent", "blank"}
SigningOn(config) == config = "set"

(* sign_and_verify: the signature must come from the pinned certificate, and  *)
(* have a timestamp.                                                          *)
ScriptAccepts(config, signature) ==
  \/ SigningOff(config) /\ signature = "none"
  \/ SigningOn(config) /\ signature = "pinned"

(* The step that runs it: any input that is not empty demands a signature.    *)
NoSecondLook(config, signature) == ScriptAccepts(config, signature)
SigningHolds(config, signature) ==
  /\ ScriptAccepts(config, signature)
  /\ config # "absent" => signature \in {"pinned", "other"}

(* load_signing_report: a report of a signature is one with a timestamp. *)
ReportHolds(signature) == signature # "untimed"

Build(r, p) ==
  /\ Active(r) /\ run[r].validate = "ok" /\ run[r].build[p] = "todo"
  /\ \/ run' = [run EXCEPT ![r].build[p] = "failed"] /\ UNCHANGED faults
     \/ \E label \in {p, Unknown}, config \in Configs, signature \in Signatures :
          /\ IF p = Windows THEN SigningHolds(config, signature) /\ ReportHolds(signature)
                            ELSE config = "absent" /\ signature = "none"
          /\ run' = [run EXCEPT
               ![r].build[p] = "ok",
               ![r].package[p] = Binary(label, run[r].sha, signature, config)]
          /\ faults' = faults + (IF label = p THEN 0 ELSE 1)
          /\ faults' <= MaxFaults
  /\ UNCHANGED <<releases, tags, reruns>>

-----------------------------------------------------------------------------
(* The release job *)

Ready(r) ==
  /\ Active(r) /\ run[r].validate = "ok" /\ \A p \in Platforms : run[r].build[p] = "ok"

(* download-artifact with merge-multiple. *)
Merged(r) ==
  LET version == Exact(VersionOf[run[r].sha])
      labels == {run[r].package[p].platform : p \in Platforms}
      From(l) == Package(run[r].package[CHOOSE p \in Platforms :
                                          run[r].package[p].platform = l], version)
  IN [n \in {ContractFile} \cup [kind : {"binary", "checksum", "manifest", "sbom"},
                                 label : labels] |->
        IF n = ContractFile THEN Contract(r) ELSE From(n.label)[n]]

(* What may arrive instead: a file is lost or damaged, or there is one more,  *)
(* or the files of a platform are those of another commit.                    *)
Damaged(b) ==
  {Without(b, {n}) : n \in DOMAIN b \cap Fragile}
  \cup {With(b, n, Garbled) : n \in DOMAIN b \cap Fragile}
  \cup {With(b, Single("stray"), Garbled)}
Stale(b, r) ==
  {[n \in DOMAIN b |->
      IF n.label = p
        THEN Package(Binary(p, sha, "none", "absent"), Exact(VersionOf[sha]))[n]
        ELSE b[n]] :
     p \in {q \in Platforms : Name("binary", q) \in DOMAIN b}, sha \in Shas \ {run[r].sha}}

Download(r) ==
  /\ Ready(r) /\ run[r].release = "todo"
  /\ LET sent == Merged(r) IN
     \/ /\ run' = [run EXCEPT ![r].release = "check", ![r].bundle = sent]
        /\ UNCHANGED faults
     \/ /\ faults < MaxFaults /\ faults' = faults + 1
        /\ \E b \in Damaged(sent) \cup Stale(sent, r) :
             run' = [run EXCEPT ![r].release = "check", ![r].bundle = b]
  /\ UNCHANGED <<releases, tags, reruns>>

(* A step of the job ends well only if the check holds; it may always fail.   *)
FailKeepingFiles(r) == run' = [run EXCEPT ![r].release = "failed"]
Fail(r) == run' = [run EXCEPT ![r].release = "failed", ![r].bundle = None]
Step(r, step) == Active(r) /\ run[r].release = step

(* cat *.sha256 > SHA256SUMS; sha256sum --check *)
CheckSums(r) ==
  /\ Step(r, "check") /\ SumsHold(run[r].bundle)
  /\ run' = [run EXCEPT ![r].release = "index",
               ![r].bundle = With(@, Single("sums"), [is |-> "sums", lines |-> SumLines(@)])]
  /\ UNCHANGED <<releases, tags, reruns, faults>>

BuildIndex(r) ==
  LET version == run[r].input  tag == run[r].input  sha == run[r].sha IN
  /\ Step(r, "index") /\ IndexAccepts(run[r].bundle, version, tag, sha)
  /\ run' = [run EXCEPT ![r].release = "verify", ![r].bundle = Indexed(@, version, tag, sha)]
  /\ UNCHANGED <<releases, tags, reruns, faults>>

VerifyPayload(r) ==
  /\ Step(r, "verify") /\ PayloadVerified(run[r].bundle)
  /\ run' = [run EXCEPT ![r].release = "create"]
  /\ UNCHANGED <<releases, tags, reruns, faults>>

(* gh release create: refused when the tag has a release; --target makes the  *)
(* tag only if there is none.  The upload may be damaged, and the command may *)
(* report an error although the release is out.                               *)
MayCreate(tag) == tag \notin DOMAIN releases

Published(r, files) ==
  [files |-> files, sha |-> run[r].sha, prerelease |-> ~run[r].final, by |-> r,
   whole |-> files = run[r].bundle]

CreateRelease(r) ==
  LET tag == run[r].input IN
  /\ Step(r, "create") /\ MayCreate(tag)
  /\ \/ releases' = With(releases, tag, Published(r, run[r].bundle)) /\ UNCHANGED faults
     \/ /\ faults < MaxFaults /\ faults' = faults + 1
        /\ \E files \in Damaged(run[r].bundle) :
             releases' = With(releases, tag, Published(r, files))
  /\ tags' = IF tags[tag] = None
               THEN [tags EXCEPT ![tag] = [sha |-> run[r].sha, by |-> "release"]]
               ELSE tags
  /\ \/ run' = [run EXCEPT ![r].release = "recheck", ![r].bundle = None]
     \/ Fail(r)
  /\ UNCHANGED reruns

(* Download what is public, verify it, and compare what GitHub says of it.    *)
MetadataOnly(r) ==
  LET public == releases[run[r].input] IN
  /\ run[r].input \in DOMAIN releases
  /\ public.sha = run[r].sha /\ public.prerelease = ~run[r].final
PublicationHolds(r) ==
  LET public == releases[run[r].input] IN
  /\ run[r].input \in DOMAIN releases /\ PayloadVerified(public.files)
  /\ public.sha = run[r].sha /\ public.prerelease = ~run[r].final

Recheck(r) ==
  /\ Step(r, "recheck") /\ PublicationHolds(r)
  /\ run' = [run EXCEPT ![r].release = "ok"]
  /\ UNCHANGED <<releases, tags, reruns, faults>>

StepFails(r) ==
  /\ Active(r) /\ run[r].release \in Steps
  /\ Fail(r)
  /\ UNCHANGED <<releases, tags, reruns, faults>>

(* No job is left that could run. *)
Over(r) ==
  \/ run[r].validate = "failed"
  \/ /\ \A p \in Platforms : run[r].build[p] # "todo"
     /\ \E p \in Platforms : run[r].build[p] = "failed"
  \/ run[r].release \in {"ok", "failed"}

End(r) ==
  /\ Active(r) /\ Over(r)
  /\ run' = [run EXCEPT ![r].status = IF run[r].release = "ok" THEN "green" ELSE "red"]
  /\ UNCHANGED <<releases, tags, reruns, faults>>

-----------------------------------------------------------------------------
Init ==
  /\ run = [r \in Runs |-> None]
  /\ releases = [t \in {} |-> None] /\ tags = [t \in Tags |-> None]
  /\ reruns = 0 /\ faults = 0

ReleaseJob(r) ==
  \/ Download(r) \/ CheckSums(r) \/ BuildIndex(r) \/ VerifyPayload(r) \/ CreateRelease(r)
  \/ Recheck(r) \/ StepFails(r)

Next ==
  \/ \E r \in Runs, ask \in Asked : Dispatch(r, ask)
  \/ \E r \in Runs : Begin(r) \/ Rerun(r) \/ Validate(r) \/ ReleaseJob(r) \/ End(r)
  \/ \E r \in Runs, p \in Platforms : Build(r, p)
  \/ \E ask \in Asked, sha \in Main : PushTag(ask.input, sha)

Spec == Init /\ [][Next]_vars

-----------------------------------------------------------------------------
(* Properties *)

RunRecords(bundle) ==
  [input : Inputs, sha : Shas, final : BOOLEAN,
   status : {"queued", "active", "green", "red", "cancelled"},
   validate : JobStates, build : [Platforms -> JobStates],
   package : [Platforms -> Binaries \cup {None}],
   release : {"todo", "ok", "failed"} \cup Steps, bundle : {bundle}]

(* The steps that have the files of the release at hand. *)
Filing == Steps \ {"recheck"}

RunType(r) ==
  /\ run[r] \in RunRecords(run[r].bundle)
  /\ \A p \in Platforms : run[r].build[p] = "ok" => run[r].package[p] \in Binaries
  /\ IF run[r].release \in Filing THEN DOMAIN run[r].bundle \subseteq Names
                                  ELSE run[r].bundle = None
ReleaseType(t) ==
  /\ releases[t].sha \in Shas /\ releases[t].by \in Runs
  /\ DOMAIN releases[t].files \subseteq Names

(* Types of the runs, the releases and the tags; the files of the release job *)
(* are gone when its steps are over.                                          *)
TypeOK ==
  /\ DOMAIN run = Runs /\ \A r \in Runs : run[r] # None => RunType(r)
  /\ DOMAIN releases \subseteq Tags /\ \A t \in DOMAIN releases : ReleaseType(t)
  /\ tags \in [Tags -> [sha : Shas, by : {"maintainer", "release"}] \cup {None}]
  /\ reruns \in 0..MaxReruns /\ faults \in 0..MaxFaults

(* What was sent to a public release holds, for every supported platform, one *)
(* executable with a manifest of the release's commit and version, and lists  *)
(* every file with its content; its tag is the exact version of a commit of   *)
(* main.                                                                      *)
Complete(b, tag, sha) ==
  /\ \A p \in Platforms : \E l \in Labels :
       LET m == b[Name("manifest", l)] IN
       /\ {Name("manifest", l), Name("binary", l), Name("checksum", l), Name("sbom", l)}
            \subseteq DOMAIN b
       /\ m.platform = p /\ m.sha = sha /\ m.version = tag
       /\ b[Name("binary", l)] = m.digest
  /\ \A n \in DOMAIN b \ {IndexFile, IndexSum} : b[IndexFile].files[n] = b[n]

PublicIsConsistent ==
  \A t \in DOMAIN releases :
    /\ t = Exact(VersionOf[releases[t].sha]) /\ releases[t].sha \in Main
    /\ releases[t].whole => Complete(releases[t].files, t, releases[t].sha)

(* A green run has published: the release of its tag is public, whole, of its *)
(* own commit and kind, and its tag leads to that commit unless a maintainer  *)
(* had pushed the tag before.                                                 *)
SuccessIsPublished ==
  \A r \in Runs : run[r] # None /\ run[r].status = "green" =>
    LET t == run[r].input IN
    /\ t \in DOMAIN releases
    /\ releases[t].by = r /\ releases[t].whole
    /\ releases[t].sha = run[r].sha /\ releases[t].prerelease = ~run[r].final
    /\ tags[t] # None /\ (tags[t].by = "release" => tags[t].sha = run[r].sha)

(* docs/WINDOWS_SIGNING.md: a signing setup cannot silently downgrade.  An    *)
(* executable that was published was built from the release's own commit, and *)
(* if any signing input was set when it was built, it carries a timestamped   *)
(* signature of the pinned certificate.                                       *)
NeverDowngraded ==
  \A t \in DOMAIN releases : releases[t].whole =>
    \A n \in OfKind(releases[t].files, "binary") :
      LET bin == releases[t].files[n] IN
      /\ bin.is = "binary" /\ bin.sha = releases[t].sha
      /\ n.label = Windows /\ bin.config # "absent" => bin.signature = "pinned"

=============================================================================
