---------------------------- MODULE ReleaseProofs ----------------------------
(***************************************************************************)
(* Proofs about Release, for any runs, commits, versions, platforms,       *)
(* dispatches and faults.  The argument: the files of a run are what its   *)
(* own contract came with (Filed); once indexed they are complete, and     *)
(* belong to a commit of main whose version is the tag (Built); what is    *)
(* public is the files of the run that published it, unless it would not   *)
(* pass a second verification (Sound); so the run that sees it pass has    *)
(* published what it built (Done).  A second invariant follows each        *)
(* executable and its signature from its build to the release.             *)
(***************************************************************************)
EXTENDS Release, TLAPS

(* The files of the release job, and the contract among them. *)
Filed(r) ==
  LET b == run[r].bundle IN
  run[r].release \in Filing =>
    /\ b = [n \in DOMAIN b |-> b[n]]
    /\ ContractFile \in DOMAIN b => b[ContractFile] \in {Contract(r), Garbled}

(* What the job has established when its files are indexed, and verified. *)
Built(r) ==
  /\ run[r].validate = "ok" => ContractHolds(r)
  /\ run[r].release \in Steps \cup {"ok"} => run[r].validate = "ok"
  /\ run[r].release \in {"verify", "create"} =>
       /\ run[r].input = Exact(VersionOf[run[r].sha])
       /\ Complete(run[r].bundle, run[r].input, run[r].sha)
  /\ run[r].release = "create" => PayloadVerified(run[r].bundle)

(* What the job has published. *)
Done(r) ==
  LET t == run[r].input IN
  /\ run[r].release \in {"recheck", "ok"} =>
       /\ t \in DOMAIN releases /\ releases[t].by = r
       /\ releases[t].sha = run[r].sha /\ releases[t].prerelease = ~run[r].final
  /\ run[r].release = "ok" => releases[t].whole
  /\ run[r].status = "green" => run[r].release = "ok"

(* A public release and its tag. *)
Sound(t) ==
  /\ t = Exact(VersionOf[releases[t].sha]) /\ releases[t].sha \in Main
  /\ releases[t].whole => Complete(releases[t].files, t, releases[t].sha)
  /\ PayloadVerified(releases[t].files) => releases[t].whole
  /\ tags[t] # None /\ (tags[t].by = "release" => tags[t].sha = releases[t].sha)

(* Only a release makes a tag of its own. *)
OwnTag(t) == tags[t] # None /\ tags[t].by = "release" => t \in DOMAIN releases

RunInv(r) == run[r] # None => RunType(r) /\ Filed(r) /\ Built(r) /\ Done(r)
ReleaseInv(t) == ReleaseType(t) /\ Sound(t)

IInv ==
  /\ TypeOK
  /\ \A r \in Runs : RunInv(r)
  /\ \A t \in DOMAIN releases : ReleaseInv(t)
  /\ \A t \in Tags : OwnTag(t)

-----------------------------------------------------------------------------
(* The files *)

LEMMA NamesDiffer ==
  /\ IndexFile # IndexSum /\ ContractFile \notin {IndexFile, IndexSum}
  /\ IndexFile \in Names /\ IndexSum \in Names /\ ContractFile \in Names
  /\ Single("stray") \in Names /\ Single("sums") \in Names
  /\ Single("sums") # ContractFile /\ Single("stray") # ContractFile
  /\ \A l : Name("manifest", l) \notin {IndexFile, IndexSum}
  /\ \A l : Name("binary", l) \notin {IndexFile, IndexSum}
  /\ \A l : Name("checksum", l) \notin {IndexFile, IndexSum}
  /\ \A l : Name("sbom", l) \notin {IndexFile, IndexSum}
  BY DEF IndexFile, IndexSum, ContractFile, Single, Name, Names, Kinds, Labels

(* Files that have been verified and are damaged on their way do not pass a  *)
(* second verification, unless the damage has changed nothing.               *)
LEMMA DamageIsSeen ==
  ASSUME NEW b, b = [n \in DOMAIN b |-> b[n]], PayloadVerified(b),
         NEW c \in Damaged(b), PayloadVerified(c)
  PROVE  c = b
  <1> DEFINE files == b[IndexFile].files
  <1>1. /\ IndexFile \in DOMAIN b /\ IndexSum \in DOMAIN b
        /\ \A n \in DOMAIN files : n \in DOMAIN b /\ b[n] = files[n]
        /\ DOMAIN b = DOMAIN files \cup {IndexFile, IndexSum}
        BY DEF PayloadVerified
  <1>2. /\ IndexFile \in DOMAIN c /\ IndexSum \in DOMAIN c
        /\ c[IndexFile].is = "index" /\ c[IndexSum].is = "checksum"
        /\ \A n \in DOMAIN c[IndexFile].files : n \in DOMAIN c /\ c[n] = c[IndexFile].files[n]
        /\ DOMAIN c = DOMAIN c[IndexFile].files \cup {IndexFile, IndexSum}
        BY DEF PayloadVerified
  <1>3. ASSUME NEW n \in DOMAIN b, c = Without(b, {n}) PROVE FALSE
    <2>1. DOMAIN c = DOMAIN b \ {n} /\ \A m \in DOMAIN c : c[m] = b[m] BY <1>3 DEF Without
    <2>2. n \notin {IndexFile, IndexSum} BY <2>1, <1>2
    <2>3. c[IndexFile] = b[IndexFile] /\ n \in DOMAIN files BY <2>1, <2>2, <1>1, <1>2
    <2> QED BY <2>1, <2>3, <1>2
  <1>4. ASSUME NEW n \in DOMAIN b, c = With(b, n, Garbled) PROVE c = b
    <2>1. /\ DOMAIN c = DOMAIN b /\ c[n] = Garbled
          /\ \A m \in DOMAIN b : m # n => c[m] = b[m]
          /\ c = [m \in DOMAIN b |-> IF m = n THEN Garbled ELSE b[m]]
          BY <1>4 DEF With
    <2>2. Garbled.is = "garbled" BY DEF Garbled
    <2>3. n \notin {IndexFile, IndexSum} BY <2>1, <2>2, <1>2
    <2>4. c[IndexFile] = b[IndexFile] /\ n \in DOMAIN files BY <2>1, <2>3, <1>1
    <2>5. b[n] = Garbled BY <2>1, <2>4, <1>1, <1>2
    <2>6. \A m \in DOMAIN b : (IF m = n THEN Garbled ELSE b[m]) = b[m] BY <2>5
    <2> QED BY <2>1, <2>6
  <1>5. ASSUME NEW n, n \notin DOMAIN b, c = With(b, n, Garbled) PROVE FALSE
    <2>1. DOMAIN c = DOMAIN b \cup {n} /\ \A m \in DOMAIN b : c[m] = b[m] BY <1>5 DEF With
    <2> QED BY <2>1, <1>1, <1>2, <1>5
  <1> QED BY <1>3, <1>4, <1>5 DEF Damaged

(* Damage leaves a function on names, and does not forge a contract.         *)
LEMMA DamageShape ==
  ASSUME NEW b, DOMAIN b \subseteq Names, NEW c \in Damaged(b)
  PROVE  /\ c = [n \in DOMAIN c |-> c[n]] /\ DOMAIN c \subseteq Names
         /\ ContractFile \in DOMAIN c =>
              c[ContractFile] = Garbled
              \/ (ContractFile \in DOMAIN b /\ c[ContractFile] = b[ContractFile])
  <1>1. ASSUME NEW n \in DOMAIN b, c = Without(b, {n})
        PROVE /\ c = [m \in DOMAIN c |-> c[m]]
              /\ DOMAIN c \subseteq Names
              /\ \A m \in DOMAIN c : m \in DOMAIN b /\ c[m] = b[m]
        BY <1>1 DEF Without
  <1>2. ASSUME NEW n \in Names, c = With(b, n, Garbled)
        PROVE /\ c = [m \in DOMAIN c |-> c[m]]
              /\ DOMAIN c \subseteq Names
              /\ \A m \in DOMAIN c : c[m] = Garbled \/ (m \in DOMAIN b /\ c[m] = b[m])
    <2>1. c = [m \in DOMAIN b \cup {n} |-> IF m = n THEN Garbled ELSE b[m]] BY <1>2 DEF With
    <2>2. DOMAIN c = DOMAIN b \cup {n} BY <2>1
    <2>3. \A m \in DOMAIN c : c[m] = IF m = n THEN Garbled ELSE b[m] BY <2>1, <2>2
    <2>4. c = [m \in DOMAIN c |-> c[m]] BY <2>1, <2>2, <2>3
    <2>5. DOMAIN c \subseteq Names BY <2>2
    <2>6. \A m \in DOMAIN c : c[m] = Garbled \/ (m \in DOMAIN b /\ c[m] = b[m]) BY <2>2, <2>3
    <2> QED BY <2>4, <2>5, <2>6
  <1>3. \/ \E n \in DOMAIN b : c = Without(b, {n})
        \/ \E n \in Names : c = With(b, n, Garbled)
        BY NamesDiffer DEF Damaged
  <1>4. CASE \E n \in DOMAIN b : c = Without(b, {n})
    <2>1. PICK n \in DOMAIN b : c = Without(b, {n}) BY <1>4
    <2> HIDE DEF Garbled
    <2> QED BY <1>1, <2>1
  <1>5. CASE \E n \in Names : c = With(b, n, Garbled)
    <2>1. PICK n \in Names : c = With(b, n, Garbled) BY <1>5
    <2> QED BY <1>2, <2>1
  <1> QED BY <1>3, <1>4, <1>5

(* What the index is built from is complete, and is in it.                   *)
LEMMA IndexedIsComplete ==
  ASSUME NEW b, DOMAIN b \subseteq Names, NEW tag, NEW sha, IndexAccepts(b, tag, tag, sha)
  PROVE  LET c == Indexed(b, tag, tag, sha) IN
         /\ c = [n \in DOMAIN c |-> c[n]] /\ DOMAIN c \subseteq Names
         /\ ContractFile \in DOMAIN c => c[ContractFile] = b[ContractFile]
         /\ Complete(c, tag, sha)
  <1> DEFINE index == Index(b, tag, tag, sha)  c == Indexed(b, tag, tag, sha)
  <1>1. /\ c = [n \in DOMAIN c |-> c[n]] /\ DOMAIN c = DOMAIN b \cup {IndexFile, IndexSum}
        /\ \A n \in DOMAIN b \ {IndexFile, IndexSum} : c[n] = b[n]
        /\ c[IndexFile] = index
        BY NamesDiffer DEF Indexed, With
  <1>2. \A n \in DOMAIN b \ {IndexFile, IndexSum} : index.files[n] = b[n] BY DEF Index, Without
  <1>3. ASSUME NEW p \in Platforms
        PROVE \E l \in Labels :
                LET m == c[Name("manifest", l)] IN
                /\ {Name("manifest", l), Name("binary", l), Name("checksum", l), Name("sbom", l)}
                     \subseteq DOMAIN c
                /\ m.platform = p /\ m.sha = sha /\ m.version = tag
                /\ c[Name("binary", l)] = m.digest
    <2>1. PICK n \in OfKind(b, "manifest") : b[n].platform = p BY <1>3 DEF IndexAccepts
    <2>2. ManifestHolds(b, n, tag, sha) BY <2>1 DEF IndexAccepts
    <2>3. n \in DOMAIN b /\ n.label \in Labels /\ n = Name("manifest", n.label)
          BY DEF OfKind, Names, Name
    <2>4. /\ b[n].sha = sha /\ b[n].version = tag
          /\ Name("binary", n.label) \in DOMAIN b /\ b[Name("binary", n.label)] = b[n].digest
          /\ Name("checksum", n.label) \in DOMAIN b /\ Name("sbom", n.label) \in DOMAIN b
          BY <2>2 DEF ManifestHolds
    <2>5. c[n] = b[n] /\ c[Name("binary", n.label)] = b[Name("binary", n.label)]
          BY <1>1, <2>3, <2>4, NamesDiffer
    <2> DEFINE l == n.label
    <2>6. {Name("manifest", l), Name("binary", l), Name("checksum", l), Name("sbom", l)}
            \subseteq DOMAIN c
          BY <1>1, <2>3, <2>4
    <2>7. /\ c[Name("manifest", l)].platform = p /\ c[Name("manifest", l)].sha = sha
          /\ c[Name("manifest", l)].version = tag
          /\ c[Name("binary", l)] = c[Name("manifest", l)].digest
          BY <2>1, <2>3, <2>4, <2>5
    <2> HIDE DEF c
    <2> QED BY <2>3, <2>6, <2>7
  <1>4. \A n \in DOMAIN c \ {IndexFile, IndexSum} : c[IndexFile].files[n] = c[n]
        BY <1>1, <1>2
  <1>5. Complete(c, tag, sha) BY <1>3, <1>4 DEF Complete
  <1> QED BY <1>1, <1>5, NamesDiffer

-----------------------------------------------------------------------------
(* The steps *)

(* A step of one run, which leaves what is public alone.                     *)
LEMMA OneRun ==
  ASSUME IInv, NEW r \in Runs, DOMAIN run' = Runs,
         \A q \in Runs \ {r} : run'[q] = run[q],
         RunInv(r)', reruns' \in 0..MaxReruns, faults' \in 0..MaxFaults,
         UNCHANGED <<releases, tags>>
  PROVE  IInv'
  <1>1. \A q \in Runs \ {r} : RunInv(q)'
        BY DEF IInv, RunInv, RunType, Filed, Built, Done, Contract, ContractHolds
  <1>2. \A t \in DOMAIN releases' : ReleaseInv(t)' BY DEF IInv, ReleaseInv, ReleaseType, Sound
  <1>3. \A t \in Tags : OwnTag(t)' BY DEF IInv, OwnTag
  <1>4. \A q \in Runs : RunInv(q)' BY <1>1
  <1>5. TypeOK' BY <1>4, <1>2 DEF IInv, TypeOK, RunInv, ReleaseInv
  <1> QED BY <1>2, <1>3, <1>4, <1>5 DEF IInv

LEMMA ValidateStep == ASSUME IInv, NEW r \in Runs, Validate(r) PROVE IInv'
  <1> USE DEF Active
  <1>1. PICK result \in {"ok", "failed"} :
          /\ result = "ok" => ContractHolds(r)
          /\ run' = [run EXCEPT ![r].validate = result]
        BY DEF Validate
  <1>2. /\ DOMAIN run' = Runs /\ \A q \in Runs \ {r} : run'[q] = run[q]
        /\ run'[r] = [run[r] EXCEPT !.validate = result]
        BY <1>1 DEF IInv, TypeOK
  <1>3. RunType(r) /\ Filed(r) /\ Built(r) /\ Done(r) BY DEF IInv, RunInv, Validate
  <1>4. /\ run'[r].input = run[r].input /\ run'[r].sha = run[r].sha
        /\ run'[r].final = run[r].final /\ run'[r].release = run[r].release
        /\ run'[r].bundle = run[r].bundle /\ run'[r].status = run[r].status
        /\ run'[r].validate = result
        BY <1>2, <1>3 DEF RunType, RunRecords
  <1>5. RunType(r)' BY <1>2, <1>3, <1>4 DEF RunType, RunRecords, JobStates
  <1>6. run[r].release \notin Steps \cup {"ok"} BY <1>3 DEF Validate, Built
  <1>7. Filed(r)' /\ Built(r)' /\ Done(r)'
        BY <1>1, <1>3, <1>4, <1>6 DEF Filed, Built, Done, Steps, Filing, ContractHolds, Validate
  <1> QED BY <1>2, <1>5, <1>7, OneRun DEF RunInv, Validate, IInv, TypeOK

LEMMA BuildStep ==
  ASSUME IInv, NEW r \in Runs, NEW p \in Platforms, Build(r, p) PROVE IInv'
  <1> USE DEF Active
  <1>1. RunType(r) /\ Filed(r) /\ Built(r) /\ Done(r) BY DEF IInv, RunInv, Build
  <1>2. /\ DOMAIN run = Runs
        /\ run[r].build \in [Platforms -> JobStates]
        /\ run[r].package \in [Platforms -> Binaries \cup {None}]
        /\ run[r].sha \in Shas
        BY <1>1 DEF IInv, TypeOK, RunType, RunRecords
  <1> DEFINE Kept == /\ DOMAIN run' = Runs /\ \A q \in Runs \ {r} : run'[q] = run[q]
                     /\ run'[r] \in RunRecords(run[r].bundle)
                     /\ run'[r].input = run[r].input /\ run'[r].sha = run[r].sha
                     /\ run'[r].final = run[r].final /\ run'[r].release = run[r].release
                     /\ run'[r].bundle = run[r].bundle /\ run'[r].status = run[r].status
                     /\ run'[r].validate = run[r].validate
                     /\ \A q \in Platforms : run'[r].build[q] = "ok" =>
                                              run'[r].package[q] \in Binaries
  <1>3. ASSUME run' = [run EXCEPT ![r].build[p] = "failed"] PROVE Kept
    <2> DEFINE build == [run[r].build EXCEPT ![p] = "failed"]
    <2>1. build \in [Platforms -> JobStates] BY <1>2 DEF JobStates
    <2>2. run'[r] = [run[r] EXCEPT !.build = build] BY <1>2, <1>3
    <2>3. DOMAIN run' = Runs /\ \A q \in Runs \ {r} : run'[q] = run[q] BY <1>2, <1>3
    <2>4. \A q \in Platforms : build[q] = "ok" => run[r].package[q] \in Binaries
          BY <1>1, <1>2 DEF RunType
    <2> HIDE DEF build
    <2> QED BY <1>1, <2>1, <2>2, <2>3, <2>4 DEF RunType, RunRecords
  <1>4. ASSUME \E label \in {p, Unknown}, config \in Configs, signature \in Signatures :
                 run' = [run EXCEPT
                          ![r].build[p] = "ok",
                          ![r].package[p] = Binary(label, run[r].sha, signature, config)]
        PROVE  Kept
    <2>1. PICK label \in {p, Unknown}, config \in Configs, signature \in Signatures :
               run' = [run EXCEPT
                        ![r].build[p] = "ok",
                        ![r].package[p] = Binary(label, run[r].sha, signature, config)]
          BY <1>4
    <2> DEFINE bin == Binary(label, run[r].sha, signature, config)
               build == [run[r].build EXCEPT ![p] = "ok"]
               package == [run[r].package EXCEPT ![p] = bin]
    <2>2. bin \in Binaries BY <1>2 DEF Binary, Binaries, Labels
    <2>3. run' = [run EXCEPT ![r].build[p] = "ok", ![r].package[p] = bin] BY <2>1
    <2> HIDE DEF bin
    <2>4. build \in [Platforms -> JobStates] BY <1>2 DEF JobStates
    <2>5. package \in [Platforms -> Binaries \cup {None}] BY <1>2, <2>2
    <2>6. run'[r] = [run[r] EXCEPT !.build = build, !.package = package]
      <3>1. run'[r] = [run[r] EXCEPT !.build[p] = "ok", !.package[p] = bin] BY <1>2, <2>3
      <3> QED BY <3>1, <1>1 DEF RunType, RunRecords
    <2>7. DOMAIN run' = Runs /\ \A q \in Runs \ {r} : run'[q] = run[q] BY <1>2, <2>3
    <2>8. \A q \in Platforms : build[q] = "ok" => package[q] \in Binaries
          BY <1>1, <1>2, <2>2 DEF RunType
    <2> HIDE DEF build, package
    <2> QED BY <1>1, <2>4, <2>5, <2>6, <2>7, <2>8 DEF RunType, RunRecords
  <1>7. Kept
    <2> HIDE DEF Kept
    <2> QED BY <1>3, <1>4 DEF Build
  <1>8. RunType(r)' BY <1>1, <1>7 DEF RunType
  <1>5. Filed(r)' /\ Built(r)' /\ Done(r)'
        BY <1>1, <1>7 DEF Filed, Built, Done, Contract, ContractHolds, Build
  <1>6. faults' \in 0..MaxFaults BY ReleaseAssumption DEF Build, IInv, TypeOK
  <1> QED BY <1>5, <1>6, <1>7, <1>8, OneRun DEF RunInv, Build, IInv, TypeOK

(* A run begins, ends, or a step of its release job fails.                   *)
LEMMA StatusSteps ==
  ASSUME IInv, NEW r \in Runs, Begin(r) \/ End(r) \/ StepFails(r) PROVE IInv'
  <1> USE DEF Active
  <1>1. RunType(r) /\ Filed(r) /\ Built(r) /\ Done(r)
        BY DEF IInv, RunInv, Begin, End, StepFails
  <1>2. CASE Begin(r) \/ End(r)
    <2>1. PICK status \in {"active", "green", "red"} :
            /\ run' = [run EXCEPT ![r].status = status]
            /\ status = "green" => run[r].release = "ok"
          BY <1>2 DEF Begin, End
    <2>2. /\ DOMAIN run' = Runs /\ \A q \in Runs \ {r} : run'[q] = run[q]
          /\ run'[r] = [run[r] EXCEPT !.status = status]
          BY <2>1 DEF IInv, TypeOK
    <2>3. /\ run'[r].input = run[r].input /\ run'[r].sha = run[r].sha
          /\ run'[r].final = run[r].final /\ run'[r].release = run[r].release
          /\ run'[r].bundle = run[r].bundle /\ run'[r].status = status
          /\ run'[r].validate = run[r].validate
          BY <1>1, <2>2 DEF RunType, RunRecords
    <2>4. RunType(r)' BY <1>1, <2>2, <2>3 DEF RunType, RunRecords
    <2>5. Filed(r)' /\ Built(r)' /\ Done(r)'
          BY <1>1, <1>2, <2>1, <2>3 DEF Filed, Built, Done, Contract, ContractHolds, Begin, End
    <2> QED BY <1>2, <2>2, <2>4, <2>5, OneRun DEF RunInv, Begin, End, IInv, TypeOK
  <1>3. CASE StepFails(r)
    <2>1. /\ DOMAIN run' = Runs /\ \A q \in Runs \ {r} : run'[q] = run[q]
          /\ run'[r] = [run[r] EXCEPT !.release = "failed", !.bundle = None]
          BY <1>3 DEF IInv, TypeOK, StepFails, Fail
    <2>2. /\ run'[r].input = run[r].input /\ run'[r].sha = run[r].sha
          /\ run'[r].final = run[r].final /\ run'[r].release = "failed"
          /\ run'[r].bundle = None /\ run'[r].status = run[r].status
          /\ run'[r].validate = run[r].validate
          BY <1>1, <2>1 DEF RunType, RunRecords
    <2>3. RunType(r)' BY <1>1, <2>1, <2>2 DEF RunType, RunRecords, Filing, Steps
    <2>4. Filed(r)' /\ Built(r)' /\ Done(r)'
          BY <1>1, <1>3, <2>2 DEF Filed, Built, Done, Filing, Steps, ContractHolds, StepFails
    <2> QED BY <1>3, <2>1, <2>3, <2>4, OneRun DEF RunInv, StepFails, IInv, TypeOK
  <1> QED BY <1>2, <1>3

(* A run that waits for its turn with nothing published; who waited before   *)
(* it is cancelled.                                                          *)
LEMMA QueuedStep ==
  ASSUME IInv, NEW r \in Runs, NEW record \in RunRecords(None), Queued(r, record),
         record.release = "todo", record.status = "queued",
         \A p \in Platforms : record.build[p] = "ok" => record.package[p] \in Binaries,
         record.validate = "ok" =>
           record.input.version = VersionOf[record.sha] /\ record.sha \in Main,
         reruns' \in 0..MaxReruns, UNCHANGED <<releases, tags, faults>>
  PROVE  IInv'
  <1>1. DOMAIN run' = Runs /\ run'[r] = record BY DEF Queued
  <1>2. record.bundle = None BY DEF RunRecords
  <1>3. RunInv(r)'
        BY <1>1, <1>2 DEF RunInv, RunType, Filed, Built, Done, ContractHolds, Filing, Steps
  <1>4. ASSUME NEW q \in Runs, q # r, run'[q] # None PROVE RunInv(q)'
    <2>1. CASE run'[q] = run[q]
          BY <1>4, <2>1 DEF IInv, RunInv, RunType, Filed, Built, Done, Contract, ContractHolds
    <2>2. CASE run'[q] = [run[q] EXCEPT !.status = "cancelled"] /\ run[q] # None
      <3>1. RunType(q) /\ Filed(q) /\ Built(q) /\ Done(q) BY <2>2 DEF IInv, RunInv
      <3>2. /\ run'[q].input = run[q].input /\ run'[q].sha = run[q].sha
            /\ run'[q].final = run[q].final /\ run'[q].release = run[q].release
            /\ run'[q].bundle = run[q].bundle /\ run'[q].status = "cancelled"
            /\ run'[q].validate = run[q].validate
            BY <2>2, <3>1 DEF RunType, RunRecords
      <3>3. RunType(q)' BY <2>2, <3>1, <3>2 DEF RunType, RunRecords
      <3>4. Filed(q)' /\ Built(q)' /\ Done(q)'
            BY <3>1, <3>2 DEF Filed, Built, Done, Contract, ContractHolds
      <3> QED BY <3>3, <3>4 DEF RunInv
    <2> QED BY <1>4, <2>1, <2>2 DEF Queued
  <1>5. \A q \in Runs : RunInv(q)' BY <1>3, <1>4 DEF RunInv
  <1>6. \A t \in DOMAIN releases' : ReleaseInv(t)' BY DEF IInv, ReleaseInv, ReleaseType, Sound
  <1>7. \A t \in Tags : OwnTag(t)' BY DEF IInv, OwnTag
  <1>8. TypeOK' BY <1>1, <1>5, <1>6 DEF IInv, TypeOK, RunInv, ReleaseInv
  <1> QED BY <1>5, <1>6, <1>7, <1>8 DEF IInv

LEMMA FreshRun ==
  ASSUME NEW ask, ask.input \in Inputs, ask.sha \in Shas, ask.final \in BOOLEAN
  PROVE  /\ Dispatched(ask) \in RunRecords(None)
         /\ Dispatched(ask).release = "todo" /\ Dispatched(ask).status = "queued"
         /\ Dispatched(ask).validate = "todo"
         /\ \A p \in Platforms : Dispatched(ask).build[p] # "ok"
  BY DEF Dispatched, RunRecords, JobStates

LEMMA DispatchStep ==
  ASSUME IInv, NEW r \in Runs, NEW ask \in Asked, Dispatch(r, ask) PROVE IInv'
  <1>1. ask.input \in Inputs /\ ask.sha \in Shas /\ ask.final \in BOOLEAN
        BY ReleaseAssumption DEF Inputs
  <1> QED BY <1>1, FreshRun, QueuedStep DEF Dispatch, IInv, TypeOK

LEMMA RerunStep == ASSUME IInv, NEW r \in Runs, Rerun(r) PROVE IInv'
  <1>1. RunType(r) /\ Built(r) BY DEF IInv, RunInv, Rerun
  <1>2. reruns' \in 0..MaxReruns BY ReleaseAssumption DEF Rerun, IInv, TypeOK
  <1>3. CASE Queued(r, Dispatched(run[r]))
    <2>1. run[r].input \in Inputs /\ run[r].sha \in Shas /\ run[r].final \in BOOLEAN
          BY <1>1 DEF RunType, RunRecords
    <2> QED BY <1>2, <1>3, <2>1, FreshRun, QueuedStep DEF Rerun
  <1> DEFINE record == [run[r] EXCEPT !.status = "queued",
                          !.validate = Retry(@),
                          !.build = [p \in Platforms |-> Retry(run[r].build[p])],
                          !.release = "todo", !.bundle = None]
  <1>4. CASE Queued(r, record)
    <2>1. /\ record \in RunRecords(None)
          /\ record.release = "todo" /\ record.status = "queued"
          /\ record.validate = Retry(run[r].validate)
          /\ record.input = run[r].input /\ record.sha = run[r].sha
          BY <1>1 DEF RunType, RunRecords, Retry, JobStates
    <2>2. record.validate = "ok" => run[r].validate = "ok" BY <2>1 DEF Retry
    <2>3. record.package = run[r].package
          BY <1>1 DEF RunType, RunRecords
    <2>4. \A p \in Platforms : record.build[p] = "ok" => run[r].build[p] = "ok"
          BY <1>1 DEF RunType, RunRecords, Retry
    <2>5. \A p \in Platforms : record.build[p] = "ok" => record.package[p] \in Binaries
          BY <1>1, <2>3, <2>4 DEF RunType
    <2> HIDE DEF record
    <2> QED BY <1>1, <1>2, <1>4, <2>1, <2>2, <2>5, QueuedStep DEF Built, ContractHolds, Rerun
  <1> QED BY <1>3, <1>4 DEF Rerun

(* A step of the release job of r, to another step and other files. *)
JobTo(r, step, b) == run' = [run EXCEPT ![r].release = step, ![r].bundle = b]

(* What a step of the release job keeps. *)
LEMMA JobStep ==
  ASSUME IInv, NEW r \in Runs, run[r] # None,
         NEW step \in {"todo", "ok", "failed"} \cup Steps, NEW b,
         JobTo(r, step, b)
  PROVE  /\ RunType(r) /\ Filed(r) /\ Built(r) /\ Done(r)
         /\ DOMAIN run' = Runs /\ \A q \in Runs \ {r} : run'[q] = run[q]
         /\ run'[r] \in RunRecords(b)
         /\ \A p \in Platforms : run'[r].build[p] = "ok" => run'[r].package[p] \in Binaries
         /\ run'[r].input = run[r].input /\ run'[r].sha = run[r].sha
         /\ run'[r].final = run[r].final /\ run'[r].status = run[r].status
         /\ run'[r].validate = run[r].validate
         /\ run'[r].build = run[r].build /\ run'[r].package = run[r].package
         /\ run'[r].release = step /\ run'[r].bundle = b
  <1>1. RunType(r) /\ Filed(r) /\ Built(r) /\ Done(r) BY DEF IInv, RunInv
  <1>2. /\ DOMAIN run' = Runs /\ \A q \in Runs \ {r} : run'[q] = run[q]
        /\ run'[r] = [run[r] EXCEPT !.release = step, !.bundle = b]
        BY DEF IInv, TypeOK, JobTo
  <1>3. /\ run'[r].input = run[r].input /\ run'[r].sha = run[r].sha
        /\ run'[r].final = run[r].final /\ run'[r].status = run[r].status
        /\ run'[r].validate = run[r].validate
        /\ run'[r].build = run[r].build /\ run'[r].package = run[r].package
        /\ run'[r].release = step /\ run'[r].bundle = b
        BY <1>1, <1>2 DEF RunType, RunRecords
  <1>4. run'[r] \in RunRecords(b) BY <1>1, <1>2 DEF RunType, RunRecords
  <1>5. \A p \in Platforms : run'[r].build[p] = "ok" => run'[r].package[p] \in Binaries
        BY <1>1, <1>3 DEF RunType
  <1> QED BY <1>1, <1>2, <1>3, <1>4, <1>5

(* The merged packages, as they were sent and as they may arrive.            *)
LEMMA MergedShape ==
  ASSUME IInv, NEW r \in Runs, Ready(r)
  PROVE  LET b == Merged(r) IN
         DOMAIN b \subseteq Names /\ b = [n \in DOMAIN b |-> b[n]]
         /\ b[ContractFile] = Contract(r)
  <1> DEFINE labels == {run[r].package[p].platform : p \in Platforms}
             names == {ContractFile} \cup [kind : {"binary", "checksum", "manifest", "sbom"},
                                           label : labels]
  <1>1. labels \subseteq Labels BY DEF Ready, Active, IInv, RunInv, RunType, Binaries
  <1>2. names \subseteq Names BY <1>1, NamesDiffer DEF Names, Kinds
  <1>3. ContractFile \in names OBVIOUS
  <1>4. DOMAIN Merged(r) = names BY DEF Merged
  <1>5. Merged(r) = [n \in names |-> Merged(r)[n]] BY DEF Merged
  <1>6. Merged(r)[ContractFile] = Contract(r) BY DEF Merged
  <1> QED BY <1>2, <1>4, <1>5, <1>6

LEMMA StaleShape ==
  ASSUME NEW r, NEW b, DOMAIN b \subseteq Names, NEW c \in Stale(b, r)
  PROVE  /\ c = [n \in DOMAIN c |-> c[n]] /\ DOMAIN c = DOMAIN b
         /\ ContractFile \in DOMAIN b => c[ContractFile] = b[ContractFile]
  <1>1. PICK p \in Platforms, sha \in Shas :
          c = [n \in DOMAIN b |->
                 IF n.label = p
                   THEN Package(Binary(p, sha, "none", "absent"), Exact(VersionOf[sha]))[n]
                   ELSE b[n]]
        BY DEF Stale
  <1>2. ContractFile.label # p BY ReleaseAssumption DEF ContractFile, Single, Name
  <1>3. DOMAIN c = DOMAIN b BY <1>1
  <1>4. ContractFile \in DOMAIN b => c[ContractFile] = b[ContractFile] BY <1>1, <1>2
  <1>5. c = [n \in DOMAIN c |-> c[n]] BY <1>1, <1>3
  <1> QED BY <1>3, <1>4, <1>5

LEMMA DownloadStep == ASSUME IInv, NEW r \in Runs, Download(r) PROVE IInv'
  <1>1. PICK b :
          /\ b = Merged(r) \/ b \in Damaged(Merged(r)) \/ b \in Stale(Merged(r), r)
          /\ JobTo(r, "check", b)
        BY DEF Download, JobTo
  <1>2. "check" \in {"todo", "ok", "failed"} \cup Steps BY DEF Steps
  <1>3. /\ JobTo(r, "check", b)
        /\ run[r] # None /\ run[r].release = "todo"
        BY <1>1 DEF Download, Ready, Active
  <1>4. /\ RunType(r) /\ Filed(r) /\ Built(r) /\ Done(r)
        /\ DOMAIN run' = Runs /\ \A q \in Runs \ {r} : run'[q] = run[q]
        /\ run'[r] \in RunRecords(b)
        /\ \A p \in Platforms : run'[r].build[p] = "ok" => run'[r].package[p] \in Binaries
        /\ run'[r].input = run[r].input /\ run'[r].sha = run[r].sha
        /\ run'[r].final = run[r].final /\ run'[r].status = run[r].status
        /\ run'[r].validate = run[r].validate
        /\ run'[r].release = "check" /\ run'[r].bundle = b
        BY <1>2, <1>3, JobStep
  <1>5. /\ b = [n \in DOMAIN b |-> b[n]] /\ DOMAIN b \subseteq Names
        /\ ContractFile \in DOMAIN b => b[ContractFile] \in {Contract(r), Garbled}
    <2>1. /\ DOMAIN Merged(r) \subseteq Names
          /\ Merged(r) = [n \in DOMAIN Merged(r) |-> Merged(r)[n]]
          /\ Merged(r)[ContractFile] = Contract(r)
          BY MergedShape DEF Download
    <2> QED BY <1>1, <2>1, DamageShape, StaleShape
  <1>6. Contract(r)' = Contract(r) BY <1>4 DEF Contract
  <1>7. RunType(r)' BY <1>4, <1>5 DEF RunType, Filing, Steps
  <1>8. Filed(r)' BY <1>4, <1>5, <1>6 DEF Filed
  <1>9. Built(r)' /\ Done(r)'
        BY <1>4 DEF Built, Done, ContractHolds, Download, Ready, Active
  <1>10. faults' \in 0..MaxFaults BY ReleaseAssumption DEF Download, IInv, TypeOK
  <1> QED BY <1>4, <1>7, <1>8, <1>9, <1>10, OneRun DEF RunInv, Download, IInv, TypeOK

LEMMA CheckSumsStep == ASSUME IInv, NEW r \in Runs, CheckSums(r) PROVE IInv'
  <1> DEFINE old == run[r].bundle
             sums == [is |-> "sums", lines |-> SumLines(old)]
             b == With(old, Single("sums"), sums)
  <1>1. /\ JobTo(r, "index", b)
        /\ run[r] # None /\ run[r].release = "check"
        BY DEF CheckSums, Step, Active, IInv, TypeOK, RunInv, RunType, RunRecords, JobTo
  <1> HIDE DEF b
  <1>2. "index" \in {"todo", "ok", "failed"} \cup Steps BY DEF Steps
  <1>3. /\ RunType(r) /\ Filed(r) /\ Built(r) /\ Done(r)
        /\ DOMAIN run' = Runs /\ \A q \in Runs \ {r} : run'[q] = run[q]
        /\ run'[r] \in RunRecords(b)
        /\ \A p \in Platforms : run'[r].build[p] = "ok" => run'[r].package[p] \in Binaries
        /\ run'[r].input = run[r].input /\ run'[r].sha = run[r].sha
        /\ run'[r].final = run[r].final /\ run'[r].status = run[r].status
        /\ run'[r].validate = run[r].validate
        /\ run'[r].release = "index" /\ run'[r].bundle = b
        BY <1>1, <1>2, JobStep
  <1>4. /\ DOMAIN old \subseteq Names
        /\ ContractFile \in DOMAIN old => old[ContractFile] \in {Contract(r), Garbled}
        BY <1>1, <1>3 DEF RunType, Filed, Filing, Steps
  <1>5. /\ b = [n \in DOMAIN b |-> b[n]] /\ DOMAIN b = DOMAIN old \cup {Single("sums")}
        /\ \A n \in DOMAIN old : n # Single("sums") => b[n] = old[n]
        BY DEF b, With
  <1>6. /\ DOMAIN b \subseteq Names
        /\ ContractFile \in DOMAIN b => b[ContractFile] \in {Contract(r), Garbled}
        BY <1>4, <1>5, NamesDiffer
  <1>7. Contract(r)' = Contract(r) BY <1>3 DEF Contract
  <1>8. RunType(r)' BY <1>3, <1>6 DEF RunType, Filing, Steps
  <1>9. Filed(r)' BY <1>3, <1>5, <1>6, <1>7 DEF Filed
  <1>10. Built(r)' /\ Done(r)' BY <1>1, <1>3 DEF Built, Done, ContractHolds, Steps
  <1> QED BY <1>1, <1>3, <1>8, <1>9, <1>10, OneRun DEF RunInv, CheckSums, IInv, TypeOK

LEMMA BuildIndexStep == ASSUME IInv, NEW r \in Runs, BuildIndex(r) PROVE IInv'
  <1> DEFINE old == run[r].bundle  tag == run[r].input  sha == run[r].sha
             b == Indexed(old, tag, tag, sha)
  <1>1. /\ JobTo(r, "verify", b)
        /\ run[r] # None /\ run[r].release = "index" /\ IndexAccepts(old, tag, tag, sha)
        BY DEF BuildIndex, Step, Active, IInv, TypeOK, RunInv, RunType, RunRecords, JobTo
  <1> HIDE DEF b
  <1>2. "verify" \in {"todo", "ok", "failed"} \cup Steps BY DEF Steps
  <1>3. /\ RunType(r) /\ Filed(r) /\ Built(r) /\ Done(r)
        /\ DOMAIN run' = Runs /\ \A q \in Runs \ {r} : run'[q] = run[q]
        /\ run'[r] \in RunRecords(b)
        /\ \A p \in Platforms : run'[r].build[p] = "ok" => run'[r].package[p] \in Binaries
        /\ run'[r].input = run[r].input /\ run'[r].sha = run[r].sha
        /\ run'[r].final = run[r].final /\ run'[r].status = run[r].status
        /\ run'[r].validate = run[r].validate
        /\ run'[r].release = "verify" /\ run'[r].bundle = b
        BY <1>1, <1>2, JobStep
  <1>4. /\ DOMAIN old \subseteq Names
        /\ ContractFile \in DOMAIN old => old[ContractFile] \in {Contract(r), Garbled}
        BY <1>1, <1>3 DEF RunType, Filed, Filing, Steps
  <1>5. /\ b = [n \in DOMAIN b |-> b[n]] /\ DOMAIN b \subseteq Names
        /\ ContractFile \in DOMAIN b => b[ContractFile] = old[ContractFile]
        /\ Complete(b, tag, sha)
        BY <1>1, <1>4, IndexedIsComplete DEF b
  <1>6. tag = Exact(VersionOf[sha]) /\ old[ContractFile] = Contract(r)
    <2>1. /\ ContractFile \in DOMAIN old /\ old[ContractFile].is = "contract"
          /\ old[ContractFile].version = tag
          BY <1>1 DEF IndexAccepts, ContractAgrees
    <2>2. Garbled.is = "garbled" BY DEF Garbled
    <2>3. old[ContractFile] = Contract(r) BY <1>4, <2>1, <2>2
    <2>4. tag = Exact(tag.version) BY <2>1, <2>3 DEF Contract
    <2>5. tag.version = VersionOf[sha] BY <1>1, <1>3 DEF Built, ContractHolds, Steps
    <2> QED BY <2>3, <2>4, <2>5
  <1>7. Contract(r)' = Contract(r) BY <1>3 DEF Contract
  <1>8. RunType(r)' BY <1>3, <1>5 DEF RunType, Filing, Steps
  <1>9. Filed(r)' BY <1>3, <1>5, <1>6, <1>7 DEF Filed
  <1>10. Complete(run'[r].bundle, run'[r].input, run'[r].sha) BY <1>3, <1>5
  <1>11. Built(r)' BY <1>1, <1>3, <1>6, <1>10 DEF Built, ContractHolds, Steps
  <1>12. Done(r)' BY <1>1, <1>3 DEF Done
  <1> QED BY <1>1, <1>3, <1>8, <1>9, <1>11, <1>12, OneRun DEF RunInv, BuildIndex, IInv, TypeOK

(* The steps that keep the files as they are, or are done with them.         *)
LEMMA VerifyPayloadStep == ASSUME IInv, NEW r \in Runs, VerifyPayload(r) PROVE IInv'
  <1> DEFINE b == run[r].bundle
  <1>1. /\ run[r] # None /\ run[r].release = "verify" /\ PayloadVerified(b)
        /\ run' = [run EXCEPT ![r].release = "create"]
        BY DEF VerifyPayload, Step, Active
  <1>2. RunType(r) /\ Filed(r) /\ Built(r) /\ Done(r) BY <1>1 DEF IInv, RunInv
  <1>3. /\ DOMAIN run' = Runs /\ \A q \in Runs \ {r} : run'[q] = run[q]
        /\ run'[r] = [run[r] EXCEPT !.release = "create"]
        BY <1>1 DEF IInv, TypeOK
  <1>4. /\ run'[r].input = run[r].input /\ run'[r].sha = run[r].sha
        /\ run'[r].final = run[r].final /\ run'[r].status = run[r].status
        /\ run'[r].validate = run[r].validate
        /\ run'[r].release = "create" /\ run'[r].bundle = run[r].bundle
        BY <1>2, <1>3 DEF RunType, RunRecords
  <1>5. RunType(r)' BY <1>1, <1>2, <1>3, <1>4 DEF RunType, RunRecords, Filing, Steps
  <1>6. Contract(r)' = Contract(r) BY <1>4 DEF Contract
  <1>7. Filed(r)' BY <1>1, <1>2, <1>4, <1>6 DEF Filed, Filing, Steps
  <1>8. PayloadVerified(run'[r].bundle) /\ Complete(run'[r].bundle, run'[r].input, run'[r].sha)
        BY <1>1, <1>2, <1>4 DEF Built
  <1>9. Built(r)' BY <1>1, <1>2, <1>4, <1>8 DEF Built, ContractHolds, Steps
  <1>10. Done(r)' BY <1>1, <1>2, <1>4 DEF Done
  <1> QED BY <1>3, <1>5, <1>7, <1>9, <1>10, OneRun DEF RunInv, VerifyPayload, IInv, TypeOK

LEMMA RecheckStep == ASSUME IInv, NEW r \in Runs, Recheck(r) PROVE IInv'
  <1>1. /\ run[r] # None /\ run[r].release = "recheck" /\ PublicationHolds(r)
        /\ run' = [run EXCEPT ![r].release = "ok"]
        BY DEF Recheck, Step, Active
  <1>2. RunType(r) /\ Filed(r) /\ Built(r) /\ Done(r) BY <1>1 DEF IInv, RunInv
  <1>3. /\ DOMAIN run' = Runs /\ \A q \in Runs \ {r} : run'[q] = run[q]
        /\ run'[r] = [run[r] EXCEPT !.release = "ok"]
        BY <1>1 DEF IInv, TypeOK
  <1>4. /\ run'[r].input = run[r].input /\ run'[r].sha = run[r].sha
        /\ run'[r].final = run[r].final /\ run'[r].status = run[r].status
        /\ run'[r].validate = run[r].validate
        /\ run'[r].release = "ok" /\ run'[r].bundle = run[r].bundle
        BY <1>2, <1>3 DEF RunType, RunRecords
  <1>5. RunType(r)' BY <1>1, <1>2, <1>3, <1>4 DEF RunType, RunRecords, Filing, Steps
  <1>6. Filed(r)' BY <1>4 DEF Filed, Filing, Steps
  <1>7. Built(r)' BY <1>1, <1>2, <1>4 DEF Built, ContractHolds, Steps
  <1>8. releases[run[r].input].whole
        BY <1>1, <1>2 DEF PublicationHolds, IInv, ReleaseInv, Sound
  <1>9. Done(r)' BY <1>1, <1>2, <1>4, <1>8 DEF Done, Recheck
  <1> QED BY <1>3, <1>5, <1>6, <1>7, <1>9, OneRun DEF RunInv, Recheck, IInv, TypeOK

(* The release becomes public: as it was built, unless the upload damaged it *)
(* in a way that a verification would see.                                   *)
LEMMA CreateReleaseStep == ASSUME IInv, NEW r \in Runs, CreateRelease(r) PROVE IInv'
  <1> DEFINE b == run[r].bundle
  <1>0. PICK t : t = run[r].input OBVIOUS
  <1>1. /\ run[r] # None /\ run[r].release = "create" /\ t \notin DOMAIN releases
        BY <1>0 DEF CreateRelease, Step, Active, MayCreate
  <1>2. RunType(r) /\ Filed(r) /\ Built(r) /\ Done(r) BY <1>1 DEF IInv, RunInv
  <1>3. /\ t \in Tags /\ run[r].sha \in Shas /\ run[r].sha \in Main
        /\ t = Exact(VersionOf[run[r].sha]) /\ PayloadVerified(b)
        /\ Complete(b, t, run[r].sha) /\ b = [n \in DOMAIN b |-> b[n]] /\ DOMAIN b \subseteq Names
        BY <1>0, <1>1, <1>2 DEF RunType, RunRecords, Tags, Filed, Built, Filing, Steps, ContractHolds
  <1>4. PICK step \in {"recheck", "failed"} :
          JobTo(r, step, None)
        BY DEF CreateRelease, Fail, JobTo
  <1>5. step \in {"todo", "ok", "failed"} \cup Steps BY DEF Steps
  <1>6. /\ DOMAIN run' = Runs /\ \A q \in Runs \ {r} : run'[q] = run[q]
        /\ run'[r] \in RunRecords(None)
        /\ \A p \in Platforms : run'[r].build[p] = "ok" => run'[r].package[p] \in Binaries
        /\ run'[r].input = run[r].input /\ run'[r].sha = run[r].sha
        /\ run'[r].final = run[r].final /\ run'[r].status = run[r].status
        /\ run'[r].validate = run[r].validate
        /\ run'[r].release = step /\ run'[r].bundle = None
        BY <1>1, <1>4, <1>5, JobStep
  <1>7. PICK files : /\ files = b \/ files \in Damaged(b)
                     /\ releases' = With(releases, t, Published(r, files))
        BY <1>0 DEF CreateRelease
  <1>8. /\ DOMAIN files \subseteq Names
        /\ PayloadVerified(files) => files = b
        BY <1>3, <1>7, DamageShape, DamageIsSeen
  <1> DEFINE new == Published(r, files)
  <1>9. /\ new.files = files /\ new.sha = run[r].sha /\ new.prerelease = ~run[r].final
        /\ new.by = r /\ new.whole = (files = b)
        BY DEF Published
  <1>10. /\ DOMAIN releases' = DOMAIN releases \cup {t} /\ releases'[t] = new
         /\ \A u \in DOMAIN releases : u # t /\ releases'[u] = releases[u]
    <2> HIDE DEF new
    <2>1. releases' = With(releases, t, new) BY <1>7 DEF new
    <2> QED BY <1>1, <2>1 DEF With
  <1> HIDE DEF new
  <1>11. /\ tags' \in [Tags -> [sha : Shas, by : {"maintainer", "release"}] \cup {None}]
         /\ \A u \in Tags : u # t => tags'[u] = tags[u]
         /\ tags'[t] # None
         /\ tags'[t].by = "release" => tags'[t].sha = run[r].sha
    <2>1. tags \in [Tags -> [sha : Shas, by : {"maintainer", "release"}] \cup {None}]
          BY DEF IInv, TypeOK
    <2>2. CASE tags[t] = None
      <3>1. tags' = [tags EXCEPT ![t] = [sha |-> run[r].sha, by |-> "release"]]
            BY <1>0, <2>2 DEF CreateRelease
      <3>2. [sha |-> run[r].sha, by |-> "release"] \in [sha : Shas, by : {"maintainer", "release"}]
            BY <1>3
      <3> QED BY <1>3, <2>1, <3>1, <3>2, ReleaseAssumption
    <2>3. CASE tags[t] # None
      <3>1. tags' = tags BY <1>0, <2>3 DEF CreateRelease
      <3>2. tags[t].by # "release" BY <1>1, <1>3, <2>3 DEF IInv, OwnTag
      <3> QED BY <2>1, <2>3, <3>1, <3>2
    <2> QED BY <2>2, <2>3
  <1>12. RunInv(r)'
    <2>1. RunType(r)' BY <1>4, <1>6 DEF RunType, Filing, Steps
    <2>2. Filed(r)' BY <1>4, <1>6 DEF Filed, Filing, Steps
    <2>3. Built(r)' BY <1>1, <1>2, <1>4, <1>6 DEF Built, ContractHolds, Steps
    <2>4. Done(r)' BY <1>0, <1>1, <1>2, <1>4, <1>6, <1>9, <1>10 DEF Done
    <2> QED BY <2>1, <2>2, <2>3, <2>4 DEF RunInv
  <1>13. ASSUME NEW q \in Runs, q # r PROVE RunInv(q)'
    <2>1. run'[q] = run[q] /\ RunInv(q) BY <1>6, <1>13 DEF IInv
    <2> QED BY <1>10, <2>1 DEF RunInv, RunType, Filed, Built, Done, Contract, ContractHolds
  <1>14. \A q \in Runs : RunInv(q)' BY <1>12, <1>13
  <1>15. ReleaseInv(t)'
    <2>1. ReleaseType(t)' BY <1>3, <1>8, <1>9, <1>10 DEF ReleaseType
    <2>2. Sound(t)' BY <1>3, <1>8, <1>9, <1>10, <1>11 DEF Sound
    <2> QED BY <2>1, <2>2 DEF ReleaseInv
  <1>16. ASSUME NEW u \in DOMAIN releases PROVE ReleaseInv(u)'
    <2>1. u \in Tags /\ u # t /\ releases'[u] = releases[u] /\ ReleaseInv(u)
          BY <1>10 DEF IInv, TypeOK
    <2> QED BY <1>11, <2>1 DEF ReleaseInv, ReleaseType, Sound
  <1>17. \A u \in DOMAIN releases' : ReleaseInv(u)' BY <1>10, <1>15, <1>16
  <1>18. \A u \in Tags : OwnTag(u)' BY <1>10, <1>11 DEF IInv, OwnTag
  <1>19. faults' \in 0..MaxFaults /\ reruns' \in 0..MaxReruns
         BY ReleaseAssumption DEF CreateRelease, IInv, TypeOK
  <1>20. TypeOK'
         BY <1>3, <1>6, <1>10, <1>11, <1>14, <1>17, <1>19 DEF TypeOK, IInv, RunInv, ReleaseInv
  <1> QED BY <1>14, <1>17, <1>18, <1>20 DEF IInv

LEMMA PushTagStep ==
  ASSUME IInv, NEW t \in Tags, NEW sha \in Main, PushTag(t, sha) PROVE IInv'
  <1>1. /\ tags[t] = None /\ UNCHANGED <<run, releases, reruns, faults>>
        /\ tags' = [tags EXCEPT ![t] = [sha |-> sha, by |-> "maintainer"]]
        BY DEF PushTag
  <1>2. [sha |-> sha, by |-> "maintainer"] \in [sha : Shas, by : {"maintainer", "release"}]
        BY ReleaseAssumption
  <1>3. /\ tags' \in [Tags -> [sha : Shas, by : {"maintainer", "release"}] \cup {None}]
        /\ \A u \in Tags : u # t => tags'[u] = tags[u]
        /\ tags'[t] # None /\ tags'[t].by = "maintainer"
        BY <1>1, <1>2, ReleaseAssumption DEF IInv, TypeOK
  <1>4. \A r \in Runs : RunInv(r)'
        BY <1>1 DEF IInv, RunInv, RunType, Filed, Built, Done, Contract, ContractHolds
  <1>5. ASSUME NEW u \in DOMAIN releases PROVE ReleaseInv(u)'
        BY <1>1, <1>3 DEF IInv, TypeOK, ReleaseInv, ReleaseType, Sound
  <1>6. \A u \in Tags : OwnTag(u)' BY <1>1, <1>3 DEF IInv, OwnTag
  <1>7. TypeOK' BY <1>1, <1>3, <1>4, <1>5 DEF TypeOK, IInv, RunInv, ReleaseInv
  <1> QED BY <1>1, <1>4, <1>5, <1>6, <1>7 DEF IInv

-----------------------------------------------------------------------------
(* The theorems *)

LEMMA InitInv == ASSUME Init PROVE IInv
  <1>1. TypeOK BY ReleaseAssumption DEF Init, TypeOK
  <1> QED BY <1>1 DEF Init, IInv, RunInv, ReleaseInv, OwnTag

LEMMA StutterStep == ASSUME IInv, UNCHANGED vars PROVE IInv'
  <1>1. \A r \in Runs : RunInv(r)'
        BY DEF vars, IInv, RunInv, RunType, Filed, Built, Done, Contract, ContractHolds
  <1>2. \A t \in DOMAIN releases' : ReleaseInv(t)'
        BY DEF vars, IInv, ReleaseInv, ReleaseType, Sound
  <1>3. \A t \in Tags : OwnTag(t)' BY DEF vars, IInv, OwnTag
  <1>4. TypeOK' BY <1>1, <1>2 DEF vars, TypeOK, IInv, RunInv, ReleaseInv
  <1> QED BY <1>1, <1>2, <1>3, <1>4 DEF IInv

(* The invariant holds in every reachable state of the workflow.             *)
THEOREM Inductive == Spec => []IInv
  <1>1. Init => IInv BY InitInv
  <1>2. IInv /\ [Next]_vars => IInv'
    <2> SUFFICES ASSUME IInv, [Next]_vars PROVE IInv' OBVIOUS
    <2>1. CASE \E r \in Runs, ask \in Asked : Dispatch(r, ask) BY <2>1, DispatchStep
    <2>2. CASE \E r \in Runs : Begin(r) \/ End(r) BY <2>2, StatusSteps
    <2>3. CASE \E r \in Runs : Rerun(r) BY <2>3, RerunStep
    <2>4. CASE \E r \in Runs : Validate(r) BY <2>4, ValidateStep
    <2>5. CASE \E r \in Runs : ReleaseJob(r)
          BY <2>5, DownloadStep, CheckSumsStep, BuildIndexStep, VerifyPayloadStep,
             CreateReleaseStep, RecheckStep, StatusSteps DEF ReleaseJob
    <2>6. CASE \E r \in Runs, p \in Platforms : Build(r, p) BY <2>6, BuildStep
    <2>7. CASE \E ask \in Asked, sha \in Main : PushTag(ask.input, sha)
      <3>1. \A ask \in Asked : ask.input \in Tags BY ReleaseAssumption DEF Tags, Inputs
      <3> QED BY <2>7, <3>1, PushTagStep
    <2>8. CASE UNCHANGED vars BY <2>8, StutterStep
    <2> QED BY <2>1, <2>2, <2>3, <2>4, <2>5, <2>6, <2>7, <2>8 DEF Next
  <1> QED BY <1>1, <1>2, PTL DEF Spec

(* Types of the runs, the releases and the tags.                             *)
THEOREM Types == Spec => []TypeOK
  <1>1. IInv => TypeOK BY DEF IInv
  <1> QED BY <1>1, Inductive, PTL

(* A public release belongs to a commit of main whose version is exactly its *)
(* tag, and is complete unless the upload damaged it.                        *)
THEOREM Consistent == Spec => []PublicIsConsistent
  <1>1. IInv => PublicIsConsistent BY DEF IInv, ReleaseInv, Sound, PublicIsConsistent
  <1> QED BY <1>1, Inductive, PTL

(* A green run has published what it built.                                  *)
THEOREM GreenIsPublished == Spec => []SuccessIsPublished
  <1>1. IInv => SuccessIsPublished
        BY DEF IInv, RunInv, ReleaseInv, Sound, Done, SuccessIsPublished
  <1> QED BY <1>1, Inductive, PTL

-----------------------------------------------------------------------------
(* Signatures: a second invariant, which stands on the first.  What is        *)
(* indexed are executables that the builds of the run have made (SigningInv), *)
(* since a manifest that names the run's commit can only be one of theirs.    *)

(* An executable that may be published under a label for a commit. *)
MayShip(bin, label, sha) ==
  /\ bin.is = "binary" /\ bin.sha = sha
  /\ label = Windows /\ bin.config # "absent" => bin.signature = "pinned"

(* Every build that is done has one, labelled with its platform or with none. *)
Packaged(r) ==
  \A p \in Platforms : run[r].build[p] = "ok" =>
    /\ run[r].package[p].platform \in {p, Unknown}
    /\ MayShip(run[r].package[p], p, run[r].sha)

(* Among the files that have not been checked, a manifest that names the      *)
(* run's commit is the one of a build, and when none of the platforms lacks   *)
(* its manifest, no executable is without a platform.                         *)
GenuineFiles(b, sha) ==
  /\ \A n \in OfKind(b, "manifest") : b[n].is = "manifest" /\ b[n].sha = sha =>
       b[n].platform = n.label /\ MayShip(b[n].digest, n.label, sha)
  /\ (\A p \in Platforms : Name("manifest", p) \in DOMAIN b) =>
       \A n \in OfKind(b, "binary") : n.label \in Platforms

(* All executables are fit to be published. *)
ShipFiles(b, sha) == \A n \in OfKind(b, "binary") : MayShip(b[n], n.label, sha)

SigningInv(r) ==
  run[r] # None =>
    /\ Packaged(r)
    /\ run[r].release \in {"check", "index"} => GenuineFiles(run[r].bundle, run[r].sha)
    /\ run[r].release \in {"verify", "create"} => ShipFiles(run[r].bundle, run[r].sha)

SInv == (\A r \in Runs : SigningInv(r)) /\ NeverDowngraded

(* The manifest of a package names the platform and the commit of its binary. *)
LEMMA PackagedManifest ==
  ASSUME NEW bin, NEW version, NEW n, n.kind = "manifest",
         n \in [kind : {"binary", "checksum", "manifest", "sbom"}, label : {bin.platform}]
  PROVE  /\ Package(bin, version)[n].platform = bin.platform
         /\ Package(bin, version)[n].sha = bin.sha
         /\ Package(bin, version)[n].digest = bin
  BY DEF Package

(* The files as the builds have sent them. *)
LEMMA MergedGenuine ==
  ASSUME NEW r \in Runs, Ready(r), Packaged(r)
  PROVE  GenuineFiles(Merged(r), run[r].sha)
  <1> DEFINE b == Merged(r)  sha == run[r].sha
             labels == {run[r].package[p].platform : p \in Platforms}
             From(l) == CHOOSE p \in Platforms : run[r].package[p].platform = l
             four == [kind : {"binary", "checksum", "manifest", "sbom"}, label : labels]
  <1>1. \A p \in Platforms : /\ run[r].package[p].platform \in {p, Unknown}
                             /\ MayShip(run[r].package[p], p, sha)
        BY DEF Ready, Packaged
  <1>2. DOMAIN b = {ContractFile} \cup four BY DEF Merged
  <1>3. ContractFile.kind \notin {"manifest", "binary"} BY DEF ContractFile, Single, Name
  <1>4. ASSUME NEW n \in OfKind(b, "manifest")
        PROVE  b[n].platform = n.label /\ MayShip(b[n].digest, n.label, sha)
    <2>1. n \in four /\ n.kind = "manifest" /\ n # ContractFile BY <1>2, <1>3 DEF OfKind
    <2> DEFINE p == From(n.label)
    <2>2. p \in Platforms /\ run[r].package[p].platform = n.label BY <2>1
    <2>3. b[n] = Package(run[r].package[p], Exact(VersionOf[run[r].sha]))[n]
          BY <2>1 DEF Merged
    <2> HIDE DEF p, b
    <2>4. n \in [kind : {"binary", "checksum", "manifest", "sbom"},
                 label : {run[r].package[p].platform}]
          BY <2>1, <2>2
    <2>5. b[n].platform = n.label /\ b[n].digest = run[r].package[p]
          BY <2>1, <2>2, <2>3, <2>4, PackagedManifest
    <2>6. p = n.label \/ n.label = Unknown BY <1>1, <2>2
    <2> QED BY <1>1, <2>2, <2>5, <2>6, ReleaseAssumption DEF MayShip
  <1>5. ASSUME \A p \in Platforms : Name("manifest", p) \in DOMAIN b,
               NEW n \in OfKind(b, "binary")
        PROVE  n.label \in Platforms
    <2>1. \A p \in Platforms : p \in labels
      <3> SUFFICES ASSUME NEW p \in Platforms PROVE p \in labels OBVIOUS
      <3>1. Name("manifest", p) \in four BY <1>2, <1>3, <1>5 DEF Name
      <3> QED BY <3>1 DEF Name
    <2>2. \A p \in Platforms : run[r].package[p].platform = p
          BY <1>1, <2>1, ReleaseAssumption
    <2>3. n \in four BY <1>2, <1>3 DEF OfKind
    <2> QED BY <2>2, <2>3
  <1> HIDE DEF b
  <1> QED BY <1>4, <1>5 DEF GenuineFiles, b

LEMMA DamageBounds ==
  ASSUME NEW b, NEW c \in Damaged(b), NEW n \in DOMAIN c
  PROVE  n = Single("stray") \/ (n \in DOMAIN b /\ c[n] \in {b[n], Garbled})
  <1>1. ASSUME NEW m, c = Without(b, {m}) PROVE n \in DOMAIN b /\ c[n] = b[n]
        BY <1>1 DEF Without
  <1>2. ASSUME NEW m, c = With(b, m, Garbled)
        PROVE  n = m \/ (n \in DOMAIN b /\ c[n] = b[n])
        BY <1>2 DEF With
  <1>3. ASSUME NEW m \in DOMAIN b, c = With(b, m, Garbled), n = m
        PROVE  n \in DOMAIN b /\ c[n] = Garbled
        BY <1>3 DEF With
  <1> QED BY <1>1, <1>2, <1>3 DEF Damaged

LEMMA DamagedGenuine ==
  ASSUME NEW b, NEW sha, GenuineFiles(b, sha), NEW c \in Damaged(b)
  PROVE  GenuineFiles(c, sha)
  <1>1. Single("stray").kind \notin {"manifest", "binary"} BY DEF Single, Name
  <1>2. ASSUME NEW n \in OfKind(c, "manifest"), c[n].is = "manifest"
        PROVE  n \in OfKind(b, "manifest") /\ c[n] = b[n]
    <2>1. Garbled.is = "garbled" BY DEF Garbled
    <2>2. n # Single("stray") /\ n \in DOMAIN c BY <1>1 DEF OfKind
    <2>3. n \in DOMAIN b /\ c[n] \in {b[n], Garbled} BY <2>2, DamageBounds
    <2> QED BY <1>2, <2>1, <2>3 DEF OfKind
  <1>3. ASSUME \A p \in Platforms : Name("manifest", p) \in DOMAIN c
        PROVE  \A p \in Platforms : Name("manifest", p) \in DOMAIN b
    <2> SUFFICES ASSUME NEW p \in Platforms PROVE Name("manifest", p) \in DOMAIN b OBVIOUS
    <2>1. Name("manifest", p) # Single("stray") BY DEF Single, Name
    <2> QED BY <1>3, <2>1, DamageBounds
  <1>4. ASSUME NEW n \in OfKind(c, "binary") PROVE n \in OfKind(b, "binary")
    <2>1. n # Single("stray") /\ n \in DOMAIN c BY <1>1 DEF OfKind
    <2>2. n \in DOMAIN b BY <2>1, DamageBounds
    <2> QED BY <2>2 DEF OfKind
  <1> QED BY <1>2, <1>3, <1>4 DEF GenuineFiles

LEMMA StaleGenuine ==
  ASSUME NEW r, NEW b, DOMAIN b \subseteq Names, GenuineFiles(b, run[r].sha),
         NEW c \in Stale(b, r)
  PROVE  GenuineFiles(c, run[r].sha)
  <1>1. PICK p \in Platforms, sha \in Shas \ {run[r].sha} :
          c = [n \in DOMAIN b |->
                 IF n.label = p
                   THEN Package(Binary(p, sha, "none", "absent"), Exact(VersionOf[sha]))[n]
                   ELSE b[n]]
        BY DEF Stale
  <1>2. DOMAIN c = DOMAIN b BY <1>1
  <1>3. ASSUME NEW n \in OfKind(c, "manifest"), c[n].sha = run[r].sha
        PROVE  n \in OfKind(b, "manifest") /\ c[n] = b[n]
    <2>1. n \in DOMAIN b /\ n.kind = "manifest" /\ n \in Names BY <1>2 DEF OfKind
    <2>2. CASE n.label # p BY <1>1, <2>1, <2>2 DEF OfKind
    <2>3. CASE n.label = p
      <3> DEFINE bin == Binary(p, sha, "none", "absent")
      <3>1. bin.platform = p /\ bin.sha = sha BY DEF Binary
      <3>2. c[n] = Package(bin, Exact(VersionOf[sha]))[n] BY <1>1, <2>1, <2>3
      <3> HIDE DEF bin
      <3>3. n \in [kind : {"binary", "checksum", "manifest", "sbom"}, label : {bin.platform}]
            BY <2>1, <2>3, <3>1 DEF Names
      <3>4. c[n].sha = sha BY <2>1, <3>1, <3>2, <3>3, PackagedManifest
      <3> QED BY <1>3, <3>4
    <2> QED BY <2>2, <2>3
  <1>4. OfKind(c, "binary") = OfKind(b, "binary") BY <1>2 DEF OfKind
  <1> QED BY <1>2, <1>3, <1>4 DEF GenuineFiles

(* What the index accepts: the manifests are those of the platforms, and each *)
(* vouches for its executable.                                                *)
LEMMA AcceptedShips ==
  ASSUME NEW b, DOMAIN b \subseteq Names, NEW tag, NEW sha, GenuineFiles(b, sha),
         IndexAccepts(b, tag, tag, sha)
  PROVE  ShipFiles(b, sha)
  <1>1. ASSUME NEW p \in Platforms
        PROVE  /\ Name("manifest", p) \in DOMAIN b
               /\ MayShip(b[Name("binary", p)], p, sha)
    <2>1. PICK n \in OfKind(b, "manifest") : b[n].platform = p BY <1>1 DEF IndexAccepts
    <2>2. ManifestHolds(b, n, tag, sha) BY <2>1 DEF IndexAccepts
    <2>3. b[n].platform = n.label /\ MayShip(b[n].digest, n.label, sha)
          BY <2>1, <2>2 DEF ManifestHolds, GenuineFiles
    <2>4. b[Name("binary", n.label)] = b[n].digest BY <2>2 DEF ManifestHolds
    <2>5. n = Name("manifest", n.label) /\ n \in DOMAIN b BY DEF OfKind, Names, Name
    <2> QED BY <2>1, <2>3, <2>4, <2>5
  <1>2. ASSUME NEW n \in OfKind(b, "binary") PROVE MayShip(b[n], n.label, sha)
    <2>1. n.label \in Platforms BY <1>1 DEF GenuineFiles
    <2>2. n = Name("binary", n.label) BY DEF OfKind, Names, Name
    <2> QED BY <1>1, <2>1, <2>2
  <1> QED BY <1>2 DEF ShipFiles

(* A step that gives a run no new build and no new files. *)
LEMMA SigningKept ==
  ASSUME NEW r, run[r] # None, SigningInv(r),
         run'[r].sha = run[r].sha, run'[r].package = run[r].package,
         \A p \in Platforms : run'[r].build[p] = "ok" => run[r].build[p] = "ok",
         run'[r].release \in {"check", "index"} =>
           run[r].release \in {"check", "index"} /\ run'[r].bundle = run[r].bundle,
         run'[r].release \in {"verify", "create"} =>
           run[r].release \in {"verify", "create"} /\ run'[r].bundle = run[r].bundle
  PROVE  SigningInv(r)'
  <1>1. Packaged(r)' BY DEF SigningInv, Packaged
  <1>2. run'[r].release \in {"check", "index"} => GenuineFiles(run'[r].bundle, run'[r].sha)
        BY DEF SigningInv
  <1>3. run'[r].release \in {"verify", "create"} => ShipFiles(run'[r].bundle, run'[r].sha)
        BY DEF SigningInv
  <1> QED BY <1>1, <1>2, <1>3 DEF SigningInv

LEMMA OneSigning ==
  ASSUME SInv, NEW r \in Runs, \A q \in Runs \ {r} : run'[q] = run[q],
         SigningInv(r)', UNCHANGED releases
  PROVE  SInv'
  <1>1. ASSUME NEW q \in Runs, q # r PROVE SigningInv(q)'
    <2>1. run'[q] = run[q] /\ SigningInv(q) BY <1>1 DEF SInv
    <2> QED BY <2>1 DEF SigningInv, Packaged
  <1> QED BY <1>1 DEF SInv, NeverDowngraded

(* A step of the release job, with new files. *)
LEMMA SigningJob ==
  ASSUME SInv, NEW r \in Runs, run[r] # None, run'[r].sha = run[r].sha,
         run'[r].build = run[r].build, run'[r].package = run[r].package,
         run'[r].release \in {"check", "index"} => GenuineFiles(run'[r].bundle, run[r].sha),
         run'[r].release \in {"verify", "create"} => ShipFiles(run'[r].bundle, run[r].sha)
  PROVE  SigningInv(r)'
  <1>1. Packaged(r)' BY DEF SInv, SigningInv, Packaged
  <1> QED BY <1>1 DEF SigningInv

LEMMA SigningQueued ==
  ASSUME IInv, SInv, NEW r \in Runs, NEW record, Queued(r, record), record.release = "todo",
         \A p \in Platforms : record.build[p] = "ok" =>
           /\ record.package[p].platform \in {p, Unknown}
           /\ MayShip(record.package[p], p, record.sha),
         UNCHANGED releases
  PROVE  SInv'
  <1>1. run'[r] = record BY DEF Queued
  <1>2. SigningInv(r)' BY <1>1 DEF SigningInv, Packaged
  <1>3. ASSUME NEW q \in Runs, q # r PROVE SigningInv(q)'
    <2>1. SigningInv(q) BY DEF SInv
    <2>2. CASE run'[q] = run[q] BY <2>1, <2>2 DEF SigningInv, Packaged
    <2>3. CASE run'[q] = [run[q] EXCEPT !.status = "cancelled"] /\ run[q] # None
      <3>1. RunType(q) BY <2>3 DEF IInv, RunInv
      <3>2. /\ run'[q].sha = run[q].sha /\ run'[q].build = run[q].build
            /\ run'[q].package = run[q].package
            /\ run'[q].release = run[q].release /\ run'[q].bundle = run[q].bundle
            BY <2>3, <3>1 DEF RunType, RunRecords
      <3> QED BY <2>1, <2>3, <3>2, SigningKept
    <2> QED BY <1>3, <2>2, <2>3 DEF Queued
  <1> QED BY <1>2, <1>3 DEF SInv, NeverDowngraded

LEMMA SigningDispatch ==
  ASSUME IInv, SInv, NEW r \in Runs, NEW ask \in Asked, Dispatch(r, ask) PROVE SInv'
  <1>1. ask.input \in Inputs /\ ask.sha \in Shas /\ ask.final \in BOOLEAN
        BY ReleaseAssumption DEF Inputs
  <1> QED BY <1>1, FreshRun, SigningQueued DEF Dispatch

LEMMA SigningRerun == ASSUME IInv, SInv, NEW r \in Runs, Rerun(r) PROVE SInv'
  <1>1. RunType(r) /\ Packaged(r) BY DEF IInv, RunInv, SInv, SigningInv, Rerun
  <1>2. CASE Queued(r, Dispatched(run[r]))
    <2>1. run[r].input \in Inputs /\ run[r].sha \in Shas /\ run[r].final \in BOOLEAN
          BY <1>1 DEF RunType, RunRecords
    <2> QED BY <1>2, <2>1, FreshRun, SigningQueued DEF Rerun
  <1> DEFINE record == [run[r] EXCEPT !.status = "queued",
                          !.validate = Retry(@),
                          !.build = [p \in Platforms |-> Retry(run[r].build[p])],
                          !.release = "todo", !.bundle = None]
  <1>3. CASE Queued(r, record)
    <2>1. /\ record.release = "todo" /\ record.sha = run[r].sha
          /\ record.package = run[r].package
          BY <1>1 DEF RunType, RunRecords
    <2>2. \A p \in Platforms : record.build[p] = "ok" => run[r].build[p] = "ok"
          BY <1>1 DEF RunType, RunRecords, Retry
    <2> HIDE DEF record
    <2>3. \A p \in Platforms : record.build[p] = "ok" =>
            /\ record.package[p].platform \in {p, Unknown}
            /\ MayShip(record.package[p], p, record.sha)
          BY <1>1, <2>1, <2>2 DEF Packaged
    <2> QED BY <1>3, <2>1, <2>3, SigningQueued DEF Rerun
  <1> QED BY <1>2, <1>3 DEF Rerun

(* A run begins or ends, or its contract is validated. *)
LEMMA SigningStatus ==
  ASSUME IInv, SInv, NEW r \in Runs, Begin(r) \/ End(r) \/ Validate(r) PROVE SInv'
  <1>1. RunType(r) /\ run[r] # None /\ SigningInv(r)
        BY DEF IInv, RunInv, SInv, Begin, End, Validate, Active
  <1>2. \/ \E status : run' = [run EXCEPT ![r].status = status]
        \/ \E result : run' = [run EXCEPT ![r].validate = result]
        BY DEF Begin, End, Validate
  <1>3. \/ \E status : run'[r] = [run[r] EXCEPT !.status = status]
        \/ \E result : run'[r] = [run[r] EXCEPT !.validate = result]
        BY <1>2 DEF IInv, TypeOK
  <1>4. \A q \in Runs \ {r} : run'[q] = run[q] BY <1>2 DEF IInv, TypeOK
  <1>5. /\ run'[r].sha = run[r].sha /\ run'[r].build = run[r].build
        /\ run'[r].package = run[r].package
        /\ run'[r].release = run[r].release /\ run'[r].bundle = run[r].bundle
        BY <1>1, <1>3 DEF RunType, RunRecords
  <1>6. SigningInv(r)' BY <1>1, <1>5, SigningKept
  <1> QED BY <1>4, <1>6, OneSigning DEF Begin, End, Validate

(* Signing an executable: what the script and the step after it let pass. *)
LEMMA SigningBuild ==
  ASSUME IInv, SInv, NEW r \in Runs, NEW p \in Platforms, Build(r, p) PROVE SInv'
  <1>1. RunType(r) /\ run[r] # None /\ SigningInv(r)
        BY DEF IInv, RunInv, SInv, Build, Active
  <1>2. /\ DOMAIN run = Runs /\ run[r].build \in [Platforms -> JobStates]
        /\ run[r].package \in [Platforms -> Binaries \cup {None}]
        BY <1>1 DEF IInv, TypeOK, RunType, RunRecords
  <1>3. CASE run' = [run EXCEPT ![r].build[p] = "failed"]
    <2> DEFINE build == [run[r].build EXCEPT ![p] = "failed"]
    <2>1. run'[r] = [run[r] EXCEPT !.build = build] BY <1>2, <1>3
    <2>2. \A q \in Runs \ {r} : run'[q] = run[q] BY <1>2, <1>3
    <2>3. \A q \in Platforms : build[q] = "ok" => run[r].build[q] = "ok" BY <1>2
    <2> HIDE DEF build
    <2>4. /\ run'[r].sha = run[r].sha /\ run'[r].build = build
          /\ run'[r].package = run[r].package
          /\ run'[r].release = run[r].release /\ run'[r].bundle = run[r].bundle
          BY <1>1, <2>1 DEF RunType, RunRecords
    <2>5. SigningInv(r)' BY <1>1, <2>3, <2>4, SigningKept
    <2> QED BY <2>2, <2>5, OneSigning DEF Build
  <1>4. ASSUME NEW label \in {p, Unknown}, NEW config \in Configs, NEW signature \in Signatures,
               IF p = Windows THEN SigningHolds(config, signature) /\ ReportHolds(signature)
                              ELSE config = "absent" /\ signature = "none",
               run' = [run EXCEPT
                        ![r].build[p] = "ok",
                        ![r].package[p] = Binary(label, run[r].sha, signature, config)]
        PROVE  SInv'
    <2> DEFINE bin == Binary(label, run[r].sha, signature, config)
               build == [run[r].build EXCEPT ![p] = "ok"]
               package == [run[r].package EXCEPT ![p] = bin]
    <2>1. bin.platform \in {p, Unknown} /\ MayShip(bin, p, run[r].sha)
          BY <1>4 DEF Binary, MayShip, SigningHolds, ScriptAccepts, SigningOff, SigningOn
    <2>2. run' = [run EXCEPT ![r].build[p] = "ok", ![r].package[p] = bin] BY <1>4
    <2> HIDE DEF bin
    <2>3. run'[r] = [run[r] EXCEPT !.build = build, !.package = package]
      <3>1. run'[r] = [run[r] EXCEPT !.build[p] = "ok", !.package[p] = bin] BY <1>2, <2>2
      <3> QED BY <3>1, <1>1 DEF RunType, RunRecords
    <2>4. \A q \in Runs \ {r} : run'[q] = run[q] BY <1>2, <2>2
    <2>5. /\ \A q \in Platforms \ {p} : build[q] = run[r].build[q]
          /\ \A q \in Platforms \ {p} : package[q] = run[r].package[q]
          /\ package[p] = bin
          BY <1>2
    <2> HIDE DEF build, package
    <2>6. /\ run'[r].sha = run[r].sha /\ run'[r].build = build /\ run'[r].package = package
          /\ run'[r].release = run[r].release /\ run'[r].bundle = run[r].bundle
          BY <1>1, <2>3 DEF RunType, RunRecords
    <2>7. Packaged(r)'
      <3> SUFFICES ASSUME NEW q \in Platforms, build[q] = "ok"
                   PROVE  package[q].platform \in {q, Unknown} /\ MayShip(package[q], q, run[r].sha)
          BY <2>6 DEF Packaged
      <3>1. CASE q = p BY <3>1, <2>1, <2>5
      <3>2. CASE q # p BY <3>2, <1>1, <2>5 DEF SigningInv, Packaged
      <3> QED BY <3>1, <3>2
    <2>8. SigningInv(r)' BY <1>1, <2>6, <2>7 DEF SigningInv
    <2> QED BY <2>4, <2>8, OneSigning DEF Build
  <1> QED BY <1>3, <1>4 DEF Build

LEMMA SigningDownload == ASSUME IInv, SInv, NEW r \in Runs, Download(r) PROVE SInv'
  <1>1. PICK b :
          /\ b = Merged(r) \/ b \in Damaged(Merged(r)) \/ b \in Stale(Merged(r), r)
          /\ JobTo(r, "check", b)
        BY DEF Download, JobTo
  <1>2. run[r] # None /\ Ready(r) /\ Packaged(r)
        BY DEF Download, Ready, Active, SInv, SigningInv
  <1>3. DOMAIN Merged(r) \subseteq Names BY <1>2, MergedShape
  <1>4. GenuineFiles(Merged(r), run[r].sha) BY <1>2, MergedGenuine
  <1>5. GenuineFiles(b, run[r].sha) BY <1>1, <1>3, <1>4, DamagedGenuine, StaleGenuine
  <1>6. "check" \in {"todo", "ok", "failed"} \cup Steps BY DEF Steps
  <1>7. /\ JobTo(r, "check", b)
        /\ run[r] # None
        BY <1>1, <1>2
  <1>8. /\ \A q \in Runs \ {r} : run'[q] = run[q]
        /\ run'[r].sha = run[r].sha
        /\ run'[r].build = run[r].build /\ run'[r].package = run[r].package
        /\ run'[r].release = "check" /\ run'[r].bundle = b
        BY <1>6, <1>7, JobStep
  <1>9. SigningInv(r)' BY <1>2, <1>5, <1>8, SigningJob
  <1> QED BY <1>8, <1>9, OneSigning DEF Download

LEMMA SigningCheckSums == ASSUME IInv, SInv, NEW r \in Runs, CheckSums(r) PROVE SInv'
  <1> DEFINE old == run[r].bundle
             b == With(old, Single("sums"), [is |-> "sums", lines |-> SumLines(old)])
  <1>1. /\ JobTo(r, "index", b)
        /\ run[r] # None /\ run[r].release = "check"
        BY DEF CheckSums, Step, Active, IInv, TypeOK, RunInv, RunType, RunRecords, JobTo
  <1>2. GenuineFiles(old, run[r].sha) BY <1>1 DEF SInv, SigningInv
  <1>3. /\ OfKind(b, "manifest") = OfKind(old, "manifest")
        /\ OfKind(b, "binary") = OfKind(old, "binary")
        /\ \A n \in OfKind(b, "manifest") : b[n] = old[n]
        /\ \A p \in Platforms : Name("manifest", p) \in DOMAIN b => Name("manifest", p) \in DOMAIN old
        BY DEF With, OfKind, Single, Name
  <1> HIDE DEF b
  <1>4. GenuineFiles(b, run[r].sha) BY <1>2, <1>3 DEF GenuineFiles
  <1>5. "index" \in {"todo", "ok", "failed"} \cup Steps BY DEF Steps
  <1>6. /\ \A q \in Runs \ {r} : run'[q] = run[q]
        /\ run'[r].sha = run[r].sha
        /\ run'[r].build = run[r].build /\ run'[r].package = run[r].package
        /\ run'[r].release = "index" /\ run'[r].bundle = b
        BY <1>1, <1>5, JobStep
  <1>7. SigningInv(r)' BY <1>1, <1>4, <1>6, SigningJob
  <1> QED BY <1>6, <1>7, OneSigning DEF CheckSums

LEMMA SigningBuildIndex == ASSUME IInv, SInv, NEW r \in Runs, BuildIndex(r) PROVE SInv'
  <1> DEFINE old == run[r].bundle  tag == run[r].input  sha == run[r].sha
             b == Indexed(old, tag, tag, sha)
  <1>1. /\ JobTo(r, "verify", b)
        /\ run[r] # None /\ run[r].release = "index" /\ IndexAccepts(old, tag, tag, sha)
        BY DEF BuildIndex, Step, Active, IInv, TypeOK, RunInv, RunType, RunRecords, JobTo
  <1>2. GenuineFiles(old, sha) BY <1>1 DEF SInv, SigningInv
  <1>3. DOMAIN old \subseteq Names BY <1>1 DEF IInv, RunInv, RunType, Filing, Steps
  <1>4. ShipFiles(old, sha) BY <1>1, <1>2, <1>3, AcceptedShips
  <1>5. \A n \in OfKind(b, "binary") : n \in OfKind(old, "binary") /\ b[n] = old[n]
        BY DEF Indexed, With, OfKind, IndexFile, IndexSum, Single, Name
  <1> HIDE DEF b
  <1>6. ShipFiles(b, sha) BY <1>4, <1>5 DEF ShipFiles
  <1>7. "verify" \in {"todo", "ok", "failed"} \cup Steps BY DEF Steps
  <1>8. /\ \A q \in Runs \ {r} : run'[q] = run[q]
        /\ run'[r].sha = run[r].sha
        /\ run'[r].build = run[r].build /\ run'[r].package = run[r].package
        /\ run'[r].release = "verify" /\ run'[r].bundle = b
        BY <1>1, <1>7, JobStep
  <1>9. SigningInv(r)' BY <1>1, <1>6, <1>8, SigningJob
  <1> QED BY <1>8, <1>9, OneSigning DEF BuildIndex

(* The steps of the release job that have no new files. *)
LEMMA SigningQuiet ==
  ASSUME IInv, SInv, NEW r \in Runs, VerifyPayload(r) \/ Recheck(r) \/ StepFails(r) PROVE SInv'
  <1>1. RunType(r) /\ run[r] # None /\ SigningInv(r)
        BY DEF IInv, RunInv, SInv, VerifyPayload, Recheck, StepFails, Step, Active
  <1>2. \/ run' = [run EXCEPT ![r].release = "create"] /\ run[r].release = "verify"
        \/ run' = [run EXCEPT ![r].release = "ok"]
        \/ run' = [run EXCEPT ![r].release = "failed", ![r].bundle = None]
        BY DEF VerifyPayload, Recheck, StepFails, Step, Fail
  <1>3. \A q \in Runs \ {r} : run'[q] = run[q] BY <1>2 DEF IInv, TypeOK
  <1>4. \/ run'[r] = [run[r] EXCEPT !.release = "create"] /\ run[r].release = "verify"
        \/ run'[r] = [run[r] EXCEPT !.release = "ok"]
        \/ run'[r] = [run[r] EXCEPT !.release = "failed", !.bundle = None]
        BY <1>2 DEF IInv, TypeOK
  <1>5. /\ run'[r].sha = run[r].sha /\ run'[r].build = run[r].build
        /\ run'[r].package = run[r].package
        /\ \/ run'[r].release = "create" /\ run[r].release = "verify"
              /\ run'[r].bundle = run[r].bundle
           \/ run'[r].release \in {"ok", "failed"}
        BY <1>1, <1>4 DEF RunType, RunRecords
  <1>6. SigningInv(r)' BY <1>1, <1>5, SigningKept
  <1> QED BY <1>3, <1>6, OneSigning DEF VerifyPayload, Recheck, StepFails

LEMMA SigningCreate == ASSUME IInv, SInv, NEW r \in Runs, CreateRelease(r) PROVE SInv'
  <1>0. PICK t : t = run[r].input OBVIOUS
  <1>1. /\ run[r] # None /\ run[r].release = "create" /\ t \notin DOMAIN releases
        BY <1>0 DEF CreateRelease, Step, Active, MayCreate
  <1>2. ShipFiles(run[r].bundle, run[r].sha) BY <1>1 DEF SInv, SigningInv
  <1>3. PICK step \in {"recheck", "failed"} :
          JobTo(r, step, None)
        BY DEF CreateRelease, Fail, JobTo
  <1>4. step \in {"todo", "ok", "failed"} \cup Steps BY DEF Steps
  <1>5. /\ \A q \in Runs \ {r} : run'[q] = run[q]
        /\ run'[r].sha = run[r].sha
        /\ run'[r].build = run[r].build /\ run'[r].package = run[r].package
        /\ run'[r].release = step /\ run'[r].bundle = None
        BY <1>1, <1>3, <1>4, JobStep
  <1>6. SigningInv(r)' BY <1>1, <1>3, <1>5, SigningJob
  <1>7. ASSUME NEW q \in Runs, q # r PROVE SigningInv(q)'
    <2>1. run'[q] = run[q] /\ SigningInv(q) BY <1>5, <1>7 DEF SInv
    <2> QED BY <2>1 DEF SigningInv, Packaged
  <1>8. PICK files : releases' = With(releases, t, Published(r, files))
        BY <1>0 DEF CreateRelease
  <1> DEFINE new == Published(r, files)
  <1>9. new.files = files /\ new.sha = run[r].sha /\ new.whole = (files = run[r].bundle)
        BY DEF Published
  <1>10. releases' = With(releases, t, new) BY <1>8
  <1> HIDE DEF new
  <1>11. /\ DOMAIN releases' = DOMAIN releases \cup {t} /\ releases'[t] = new
         /\ \A u \in DOMAIN releases : u # t /\ releases'[u] = releases[u]
         BY <1>1, <1>10 DEF With
  <1>12. new.whole => ShipFiles(new.files, new.sha) BY <1>2, <1>9
  <1>13. \A u \in DOMAIN releases : releases[u].whole => ShipFiles(releases[u].files, releases[u].sha)
         BY DEF SInv, NeverDowngraded, ShipFiles, MayShip
  <1>14. \A u \in DOMAIN releases' :
           releases'[u].whole => ShipFiles(releases'[u].files, releases'[u].sha)
         BY <1>11, <1>12, <1>13
  <1>15. NeverDowngraded' BY <1>14 DEF NeverDowngraded, ShipFiles, MayShip
  <1> QED BY <1>7, <1>15, <1>6 DEF SInv

(* docs/WINDOWS_SIGNING.md: whatever fails, is run again or is damaged on its *)
(* way, an executable in a whole public release was built from the release's  *)
(* own commit, and is signed if any signing input was set when it was built.  *)
THEOREM SigningLasts == Spec => []NeverDowngraded
  <1>1. Init => SInv BY DEF Init, SInv, SigningInv, NeverDowngraded
  <1>2. IInv /\ SInv /\ [Next]_vars => SInv'
    <2> SUFFICES ASSUME IInv, SInv, [Next]_vars PROVE SInv' OBVIOUS
    <2>1. CASE \E r \in Runs, ask \in Asked : Dispatch(r, ask) BY <2>1, SigningDispatch
    <2>2. CASE \E r \in Runs : Begin(r) \/ End(r) \/ Validate(r) BY <2>2, SigningStatus
    <2>3. CASE \E r \in Runs : Rerun(r) BY <2>3, SigningRerun
    <2>4. CASE \E r \in Runs : ReleaseJob(r)
          BY <2>4, SigningDownload, SigningCheckSums, SigningBuildIndex, SigningQuiet,
             SigningCreate DEF ReleaseJob
    <2>5. CASE \E r \in Runs, p \in Platforms : Build(r, p) BY <2>5, SigningBuild
    <2>6. CASE UNCHANGED <<run, releases>>
          BY <2>6 DEF SInv, SigningInv, Packaged, NeverDowngraded
    <2> QED BY <2>1, <2>2, <2>3, <2>4, <2>5, <2>6 DEF Next, PushTag, vars
  <1>3. SInv => NeverDowngraded BY DEF SInv
  <1> QED BY <1>1, <1>2, <1>3, Inductive, PTL DEF Spec

=============================================================================
