-------------------------- MODULE SourceSealProofs --------------------------
(***************************************************************************)
(* Proofs about SourceSeal, for any names, files, contents and threads.    *)
(* The argument: the hash handler keeps the displayed digest and the seal  *)
(* of the shown path equal whenever it is not running (Agreement); the     *)
(* gate therefore hands the worker a seal of the required digest; and the  *)
(* worker's snapshot, once intact, equals the digest of the seal it took   *)
(* (JobInv), from which both phases read.  Then unsealed writes, which read *)
(* the path (UnsealedInv).  At the end: a worker only goes forward, and    *)
(* one cancelled early never gets to the target.                           *)
(***************************************************************************)
EXTENDS SourceSeal, SequenceTheorems, TLAPS

(* The empty reading is a content.                                           *)
LEMMA EmptyContent == << >> \in Contents
  BY DEF Contents

(* A worker that has not started has a well-typed record.                    *)
LEMMA NoJobType ==
  ASSUME NEW p \in Names
  PROVE  NoJob(p) \in JobType /\ NoJob(p).pc = "none"
  BY EmptyContent DEF NoJob, JobType

(* Every action of the program and of its environment keeps the types of     *)
(* the window, the hash threads, the seals and the worker (TypeOK).          *)
LEMMA TypeInit == Init => TypeOK
<1> SUFFICES ASSUME Init PROVE TypeOK
  OBVIOUS
<1>1. bytes \in [Inodes -> Contents]
  BY SourceAssumption DEF Init
<1>2. Strip[text] \in Names
  BY SourceAssumption DEF Init
<1>3. posted \in Seq(Events)
  BY DEF Init
<1> QED BY <1>1, <1>2, <1>3, NoJobType DEF Init, TypeOK

(* What _identity makes of an existing file is an identity.                  *)
LEMMA IdentityType ==
  ASSUME TypeOK, NEW i \in Inodes
  PROVE  Identity(i) \in Identities /\ Stat(i) \in Nat \X Nat
  BY DEF TypeOK, Identity, Stat, Identities, Contents

(* Edits by other programs keep the types.                                   *)
LEMMA TypeEnvironment == TypeOK /\ Environment => TypeOK'
<1> SUFFICES ASSUME TypeOK, Environment PROVE TypeOK'
  OBVIOUS
<1>1. ASSUME NEW n \in RealNames, NEW e \in Editions, RewriteFile(n, e) PROVE TypeOK'
  BY <1>1, SourceAssumption
  DEF TypeOK, RewriteFile, IsFile, NewStamp, Seen, window, hashing, RealNames
<1>2. ASSUME NEW n \in RealNames, NEW e \in Editions, ReplaceFile(n, e) PROVE TypeOK'
  BY <1>2, SourceAssumption
  DEF TypeOK, ReplaceFile, Free, IsFile, NewStamp, Seen, window, hashing, RealNames
<1>3. ASSUME NEW n \in RealNames, RemoveFile(n) PROVE TypeOK'
  BY <1>3 DEF TypeOK, RemoveFile, IsFile, Seen, window, hashing, RealNames
<1> QED BY <1>1, <1>2, <1>3 DEF Environment

(* The HashWorker threads keep the types.                                    *)
LEMMA TypeHash == ASSUME TypeOK, NEW h \in Hashers, HashThread(h) PROVE TypeOK'
<1>1. ASSUME NEW d \in Contents \cup {None}, hasher[h] # None, Post(h, d)
      PROVE  hasher' \in [Hashers -> HashRuns \cup {None}] /\ posted' \in Seq(Events)
  BY <1>1 DEF TypeOK, Post, HashRuns, Events
<1>2. CASE HashOpen(h)
  <2>1. hasher' \in [Hashers -> HashRuns \cup {None}] /\ posted' \in Seq(Events)
    <3>1. CASE IsFile(hasher[h].path)
      <4>1. hasher[h] \in HashRuns /\ dir[hasher[h].path] \in Inodes
        BY <1>2, <3>1 DEF TypeOK, HashOpen, HashRuns, IsFile
      <4>2. [hasher[h] EXCEPT !.inode = dir[hasher[h].path]] \in HashRuns
        BY <4>1 DEF HashRuns
      <4> QED BY <1>2, <3>1, <4>2 DEF TypeOK, HashOpen
    <3>2. CASE ~IsFile(hasher[h].path)
      BY <1>1, <1>2, <3>2 DEF HashOpen
    <3> QED BY <3>1, <3>2
  <2> QED BY <1>2, <2>1 DEF HashOpen, TypeOK, files, window, history
<1>3. CASE HashRead(h)
  <2> DEFINE at == Len(hasher[h].read) + 1
             file == bytes[hasher[h].inode]
  <2>1. hasher' \in [Hashers -> HashRuns \cup {None}] /\ posted' \in Seq(Events)
    <3>0. hasher[h] \in HashRuns /\ hasher[h].inode \in Inodes
      BY <1>3 DEF TypeOK, HashRead, HashRuns
    <3>1. CASE at \in 1..Len(file)
      <4>1. file[at] \in Chunks
        BY <3>0, <3>1 DEF TypeOK, Contents
      <4>2. Append(hasher[h].read, file[at]) \in Contents
        BY <3>0, <4>1 DEF HashRuns, Contents
      <4>3. [hasher[h] EXCEPT !.read = Append(hasher[h].read, file[at])] \in HashRuns
        BY <3>0, <4>2 DEF HashRuns
      <4>4. /\ hasher' = [hasher EXCEPT ![h] =
                            [hasher[h] EXCEPT !.read = Append(hasher[h].read, file[at])]]
            /\ posted' = posted
        BY <1>3, <3>1 DEF TypeOK, HashRead
      <4> QED BY <4>3, <4>4 DEF TypeOK
    <3>2. CASE at \notin 1..Len(file)
      BY <1>1, <1>3, <3>0, <3>2 DEF HashRead, HashRuns
    <3> QED BY <3>1, <3>2
  <2> QED BY <1>3, <2>1 DEF HashRead, TypeOK, files, window, history
<1> QED BY <1>2, <1>3 DEF HashThread

(* The handlers of the window keep the types.                                *)
LEMMA TypeWindow == TypeOK /\ Window => TypeOK'
<1> SUFFICES ASSUME TypeOK, Window PROVE TypeOK'
  OBVIOUS
<1>1. ASSUME NEW t \in Names, SetText(t) PROVE TypeOK'
  <2>1. [path |-> t, inode |-> None, read |-> << >>] \in HashRuns
    BY EmptyContent DEF HashRuns
  <2>2. hasher' \in [Hashers -> HashRuns \cup {None}]
    BY <1>1, <2>1 DEF TypeOK, SetText
  <2> QED BY <1>1, <2>2 DEF TypeOK, SetText, files, history
<1>2. CASE HashReady
  <2>1. Head(posted) \in Events /\ Tail(posted) \in Seq(Events)
    BY <1>2 DEF TypeOK, HashReady
  <2>3. Head(posted).digest # None => Head(posted) \in [path : Names, digest : Contents]
    BY <2>1 DEF Events
  <2>2. IsFile(text) => Stat(dir[text]) \in Nat \X Nat
    BY IdentityType DEF TypeOK, IsFile
  <2> QED BY <1>2, <2>1, <2>2, <2>3
          DEF TypeOK, HashReady, StatNow, PopSeal, Events, files, history
<1>3. CASE HashReadySeal
  <2>1. IsFile(ready.path) => Identity(dir[ready.path]) \in Identities
    BY <1>3, IdentityType DEF TypeOK, HashReadySeal, IsFile, Events
  <2>2. seals' \in [Names -> Seals \cup {None}]
    BY <1>3, <2>1 DEF TypeOK, HashReadySeal, Seals, Events
  <2> QED BY <1>3, <2>2 DEF TypeOK, HashReadySeal, files, window, history
<1>4. ASSUME NEW m \in Editions \cup {None}, StartWrite(m) PROVE TypeOK'
  <2>1. Strip[text] \in Names /\ m \in Contents \cup {None}
    BY SourceAssumption DEF TypeOK
  <2>2. job' \in JobType /\ job'.pc = "none"
    BY <1>4, <2>1, NoJobType DEF StartWrite
  <2>3. seals[Strip[text]] \in Seals \cup {None}
    BY <2>1 DEF TypeOK
  <2> QED BY <1>4, <2>1, <2>2, <2>3 DEF TypeOK, StartWrite, files, hashing
<1>5. CASE Decline
  BY <1>5, NoJobType DEF TypeOK, Decline, files, hashing, JobType
<1>6. CASE Confirm
  BY <1>6 DEF TypeOK, Confirm, files, hashing, history, JobType
<1>7. CASE CancelWrite
  BY <1>7 DEF TypeOK, CancelWrite, files, window, hashing, history
<1>8. CASE WriteFinished
  BY <1>8, NoJobType DEF TypeOK, WriteFinished, files, hashing, JobType
<1> QED BY <1>1, <1>2, <1>3, <1>4, <1>5, <1>6, <1>7, <1>8 DEF Window

(* What a worker step must establish about job for the types to hold. *)
JobOK == job \in JobType /\ (job.pc \in {"copy", "seal"} => job.src # None)

(* A finished worker has a well-typed record.                                *)
LEMMA FinishType ==
  ASSUME TypeOK, NEW r \in {"ok", "failed", "cancelled"}, Finish(r)
  PROVE  JobOK'
  BY DEF TypeOK, Finish, JobType, JobOK

(* The steps of the write worker keep the types.                             *)
LEMMA TypeWorker == TypeOK /\ Worker => TypeOK'
<1> SUFFICES ASSUME TypeOK, Worker PROVE TypeOK'
  OBVIOUS
<1>a. /\ job \in JobType
      /\ job.path \in Names
      /\ job.snap \in Contents /\ job.written \in Contents
      /\ job.checked \in Nat
      /\ seals[job.path] \in Seals \cup {None}
      /\ IsFile(job.path) => dir[job.path] \in Inodes /\ Len(bytes[dir[job.path]]) \in Nat
  BY DEF TypeOK, JobType, IsFile, Contents
<1>b. SUFFICES JobOK' /\ UNCHANGED rest
  BY DEF TypeOK, JobOK, rest, files, window, hashing, history
<1>c. UNCHANGED rest
  BY DEF Worker, Lookup, SnapshotOpen, SnapshotRead, SnapshotDone, Prepare, WriteOpen,
         Write, Measure, VerifyOpen, Verify, TargetError, Interrupt
<1> SUFFICES JobOK'
  BY <1>b, <1>c
<1>1. CASE Lookup
  BY <1>a, <1>1 DEF Lookup, JobType, JobOK
<1>2. CASE SnapshotOpen
  <2>1. CASE Finish("failed")
    BY <2>1, FinishType
  <2>2. CASE IsFile(job.path) /\ job' = [job EXCEPT !.pc = "copy", !.src = dir[job.path]]
    BY <1>a, <2>2 DEF IsFile, JobType, JobOK
  <2> QED BY <1>2, <2>1, <2>2 DEF SnapshotOpen
<1>3. CASE SnapshotRead
  <2> DEFINE at == Len(job.snap) + 1
             file == bytes[job.src]
  <2>1. job.src \in Inodes /\ file \in Contents
    BY <1>3 DEF SnapshotRead, TypeOK, JobType
  <2>2. at \in 1..Len(file) => Append(job.snap, file[at]) \in Contents
    BY <1>a, <2>1 DEF Contents
  <2>3. CASE Finish("cancelled")
    BY <2>3, FinishType
  <2>4. CASE at \in 1..Len(file) /\ job' = [job EXCEPT !.snap = Append(job.snap, file[at])]
    <3>1. Append(job.snap, file[at]) \in Contents
      BY <2>2, <2>4
    <3>2. [job EXCEPT !.snap = Append(job.snap, file[at])] \in JobType
      BY <1>a, <3>1 DEF JobType
    <3>3. job'.src = job.src /\ job'.pc = job.pc
      BY <1>a, <2>4 DEF JobType
    <3>4. job'.src # None
      BY <1>3, <3>3 DEF SnapshotRead, TypeOK
    <3> QED BY <2>4, <3>2, <3>4 DEF JobOK
  <2>5. CASE job' = [job EXCEPT !.pc = "seal"]
    <3>1. job' \in JobType /\ job'.src = job.src
      BY <1>a, <2>5 DEF JobType
    <3>2. job'.src # None
      BY <1>3, <3>1 DEF SnapshotRead, TypeOK
    <3> QED BY <3>1, <3>2 DEF JobOK
  <2> QED BY <1>3, <2>3, <2>4, <2>5 DEF SnapshotRead
<1>4. CASE SnapshotDone
  BY <1>a, <1>4, FinishType DEF SnapshotDone, JobType, JobOK
<1>5. CASE Prepare
  BY <1>a, <1>5, FinishType DEF Prepare, JobType, JobOK
<1>6. CASE WriteOpen
  BY <1>a, <1>6, FinishType DEF WriteOpen, JobType, JobOK
<1>7. CASE Write
  <2> DEFINE at == Len(job.written) + 1
  <2>1. Stream \in Contents
    BY <1>a, <1>7 DEF Write, Stream, TypeOK, JobType
  <2>2. at \in 1..Len(Stream) => Append(job.written, Stream[at]) \in Contents
    BY <1>a, <2>1 DEF Contents
  <2>3. Len(job.snap) \in Nat
    BY <1>a DEF Contents
  <2> QED BY <1>a, <1>7, <2>2, <2>3 DEF Write, JobType, JobOK
<1>8. CASE Measure
  BY <1>a, <1>8, FinishType DEF Measure, JobType, JobOK
<1>9. CASE VerifyOpen
  BY <1>a, <1>9, FinishType DEF VerifyOpen, JobType, JobOK
<1>10. CASE Verify
  BY <1>a, <1>10, FinishType DEF Verify, JobType, JobOK
<1>11. CASE TargetError \/ Interrupt
  BY <1>11, FinishType DEF TargetError, Interrupt
<1> QED BY <1>1, <1>2, <1>3, <1>4, <1>5, <1>6, <1>7, <1>8, <1>9, <1>10, <1>11 DEF Worker

(* Every variable keeps its type in every behaviour (TypeOK).                *)
THEOREM Types == Spec => []TypeOK
<1>1. TypeOK /\ [Next]_vars => TypeOK'
  <2>1. TypeOK /\ UNCHANGED vars => TypeOK'
    BY DEF TypeOK, vars, files, window, hashing, history
  <2> QED BY <2>1, TypeEnvironment, TypeWindow, TypeHash, TypeWorker DEF Next
<1> QED BY <1>1, TypeInit, PTL DEF Spec

-----------------------------------------------------------------------------
(* Sequences of chunks: a prefix grows by the next element, and a prefix as  *)
(* long as the whole is the whole.                                           *)

(* Appending the next element of t keeps s a prefix of t.                    *)
LEMMA PrefixGrows ==
  ASSUME NEW s \in Contents, NEW t \in Contents, Prefix(s, t), Len(s) + 1 \in 1..Len(t)
  PROVE  Prefix(Append(s, t[Len(s) + 1]), t)
  BY DEF Prefix, Contents

(* A prefix of t that is as long as t is t.                                  *)
LEMMA PrefixWhole ==
  ASSUME NEW s \in Contents, NEW t \in Contents, Prefix(s, t), Len(s) + 1 \notin 1..Len(t)
  PROVE  s = t
<1>1. Len(s) = Len(t)
  BY DEF Prefix, Contents
<1>2. s = [k \in 1..Len(s) |-> s[k]] /\ t = [k \in 1..Len(t) |-> t[k]]
  BY DEF Contents
<1> QED BY <1>1, <1>2 DEF Prefix

(* The empty sequence is a prefix of every content.                          *)
LEMMA EmptyPrefix == ASSUME NEW t \in Contents PROVE Prefix(<< >>, t)
  BY DEF Prefix, Contents

(* A content is a prefix of itself.                                          *)
LEMMA PrefixSelf == ASSUME NEW t \in Contents PROVE Prefix(t, t)
  BY DEF Prefix, Contents

-----------------------------------------------------------------------------
(* The actors that do not touch a conjunct of IInv *)

(* The worker changes only its own record.                                   *)
LEMMA WorkerFrame == Worker => UNCHANGED rest
  BY DEF Worker, Lookup, SnapshotOpen, SnapshotRead, SnapshotDone, Prepare, WriteOpen,
         Write, Measure, VerifyOpen, Verify, TargetError, Interrupt

(* Other programs change only the files.                                     *)
LEMMA EnvironmentFrame ==
  Environment => UNCHANGED <<window, hashing, seals, cancel, job, required, gateSeal>>
  BY DEF Environment, RewriteFile, ReplaceFile, RemoveFile

(* A HashWorker changes only its own run and the event queue.                *)
LEMMA HashFrame ==
  ASSUME NEW h \in Hashers, HashThread(h)
  PROVE  UNCHANGED <<files, window, ready, seals, cancel, job, history>>
  BY DEF HashThread, HashOpen, HashRead

-----------------------------------------------------------------------------
(* Padded texts never come to be hashed or gated.                            *)
LEMMA PathsStep == TypeOK /\ IInv /\ [Next]_vars => PathsAreReal'
<1> SUFFICES ASSUME TypeOK, IInv, [Next]_vars PROVE PathsAreReal'
  OBVIOUS
<1>0. PathsAreReal
  BY DEF IInv
<1>1. CASE Environment
  <2>1. \A n \in Names : IsFile(n)' => Strip[n] = n
    BY <1>0, <1>1
    DEF Environment, RewriteFile, ReplaceFile, RemoveFile, IsFile, PathsAreReal, RealNames, TypeOK
  <2> QED BY <1>0, <1>1, <2>1, EnvironmentFrame DEF PathsAreReal, window, hashing
<1>2. CASE Worker
  BY <1>0, <1>2, WorkerFrame DEF PathsAreReal, rest, files, window, hashing, IsFile
<1>3. ASSUME NEW h \in Hashers, HashThread(h) PROVE PathsAreReal'
  <2>1. /\ \A g \in Hashers :
             hasher'[g] # None =>
               hasher[g] # None /\ hasher'[g].path = hasher[g].path
        /\ \/ posted' = posted
           \/ \E d \in Contents \cup {None} :
                hasher[h] # None /\ posted' = Append(posted, [path |-> hasher[h].path, digest |-> d])
    <3>0. hasher \in [Hashers -> HashRuns \cup {None}]
      BY DEF TypeOK
    <3>1. ASSUME NEW d \in Contents \cup {None}, hasher[h] # None, Post(h, d)
          PROVE  /\ hasher' = [hasher EXCEPT ![h] = None]
                 /\ posted' = Append(posted, [path |-> hasher[h].path, digest |-> d])
      BY <3>1 DEF Post
    <3>2. CASE HashOpen(h) /\ IsFile(hasher[h].path)
      <4>1. /\ hasher' = [hasher EXCEPT ![h] = [hasher[h] EXCEPT !.inode = dir[hasher[h].path]]]
            /\ hasher[h] \in HashRuns /\ posted' = posted
        BY <3>0, <3>2 DEF HashOpen
      <4>2. [hasher[h] EXCEPT !.inode = dir[hasher[h].path]].path = hasher[h].path
        BY <4>1 DEF HashRuns
      <4> QED BY <3>0, <3>2, <4>1, <4>2 DEF HashOpen
    <3>3. CASE HashOpen(h) /\ ~IsFile(hasher[h].path)
      BY <3>0, <3>1, <3>3 DEF HashOpen
    <3>4. CASE HashRead(h)
      <4> DEFINE at == Len(hasher[h].read) + 1
                 file == bytes[hasher[h].inode]
                 run == [hasher[h] EXCEPT !.read = Append(hasher[h].read, file[at])]
      <4>1. hasher[h] # None /\ hasher[h] \in HashRuns /\ hasher[h].read \in Contents
        BY <3>0, <3>4 DEF HashRead, HashRuns
      <4>2. CASE at \in 1..Len(file)
        <5>1. hasher' = [hasher EXCEPT ![h] = run] /\ posted' = posted
          BY <3>0, <3>4, <4>2 DEF HashRead
        <5>2. run.path = hasher[h].path
          BY <4>1 DEF HashRuns
        <5> QED BY <3>0, <4>1, <5>1, <5>2
      <4>3. CASE at \notin 1..Len(file)
        BY <3>0, <3>1, <3>4, <4>1, <4>3 DEF HashRead
      <4> QED BY <4>2, <4>3
    <3> QED BY <1>3, <3>2, <3>3, <3>4 DEF HashThread
  <2>2. \A k \in 1..Len(posted') : Strip[posted'[k].path] = posted'[k].path
    <3>1. posted \in Seq(Events) /\ \A k \in 1..Len(posted) : Strip[posted[k].path] = posted[k].path
      BY <1>0 DEF PathsAreReal, TypeOK
    <3>2. CASE posted' = posted
      BY <3>1, <3>2
    <3>3. ASSUME NEW d \in Contents \cup {None}, hasher[h] # None,
                 posted' = Append(posted, [path |-> hasher[h].path, digest |-> d])
          PROVE  \A k \in 1..Len(posted') : Strip[posted'[k].path] = posted'[k].path
      <4>1. [path |-> hasher[h].path, digest |-> d] \in Events
        BY <3>3 DEF TypeOK, Events, HashRuns
      <4>2. Strip[hasher[h].path] = hasher[h].path
        BY <1>0, <3>3 DEF PathsAreReal
      <4> QED BY <3>1, <3>3, <4>1, <4>2, AppendProperties
    <3> QED BY <2>1, <3>2, <3>3
  <2> QED BY <1>0, <1>3, <2>1, <2>2, HashFrame DEF PathsAreReal, files, window, IsFile
<1>4. ASSUME NEW t \in Names, SetText(t) PROVE PathsAreReal'
  BY <1>0, <1>4 DEF PathsAreReal, SetText, files, IsFile, TypeOK
<1>5. CASE HashReady
  <2>1. /\ Strip[Head(posted).path] = Head(posted).path
        /\ \A k \in 1..Len(Tail(posted)) : Tail(posted)[k] = posted[k + 1] /\ k + 1 \in 1..Len(posted)
    <3>1. posted \in Seq(Events) /\ posted # << >>
      BY <1>5 DEF HashReady, TypeOK
    <3>2. \A k \in 1..Len(posted) : Strip[posted[k].path] = posted[k].path
      BY <1>0 DEF PathsAreReal
    <3>3. Len(posted) \in Nat /\ Len(posted) >= 1 /\ Head(posted) = posted[1]
      BY <3>1, EmptySeq, LenProperties
    <3> QED BY <3>1, <3>2, <3>3, HeadTailProperties
  <2> QED BY <1>0, <1>5, <2>1 DEF PathsAreReal, HashReady, files, IsFile
<1>6. CASE \/ HashReadySeal \/ Decline \/ Confirm \/ CancelWrite \/ WriteFinished
           \/ \E m \in Editions \cup {None} : StartWrite(m)
  BY <1>0, <1>6
  DEF PathsAreReal, HashReadySeal, Decline, Confirm, CancelWrite, WriteFinished, StartWrite,
      files, window, hashing, IsFile
<1>7. CASE UNCHANGED vars
  BY <1>0, <1>7 DEF PathsAreReal, vars, files, window, hashing, IsFile
<1> QED BY <1>1, <1>2, <1>3, <1>4, <1>5, <1>6, <1>7 DEF Next, Window

(* _hash_ready of the provenance layer and of the seal layer keep the digest *)
(* the gate reads and the seal of the shown path together.                   *)
LEMMA HandlerStep == TypeOK /\ IInv /\ [Next]_vars => HandlerInv'
<1> SUFFICES ASSUME TypeOK, IInv, [Next]_vars PROVE HandlerInv'
  OBVIOUS
<1>0. HandlerInv
  BY DEF IInv
<1>1. CASE Environment \/ Worker \/ \E h \in Hashers : HashThread(h)
  <2>1. UNCHANGED <<text, digest, ready, seals>>
    BY <1>1, EnvironmentFrame, WorkerFrame, HashFrame DEF rest, window, hashing
  <2> QED BY <1>0, <2>1 DEF HandlerInv, GateAndSealAgree
<1>2. ASSUME NEW t \in Names, SetText(t) PROVE HandlerInv'
  BY <1>0, <1>2 DEF HandlerInv, GateAndSealAgree, SetText
<1>3. CASE HashReady
  <2> DEFINE ev == Head(posted)
  <2>1. ev \in Events
    BY <1>3 DEF HashReady, TypeOK
  <2>2. CASE ev.path = text
    BY <1>3, <2>1, <2>2
    DEF HashReady, HandlerInv, GateAndSealAgree, PopSeal, TypeOK, Events
  <2>3. CASE ev.path # text
    BY <1>0, <1>3, <2>1, <2>3
    DEF HashReady, HandlerInv, GateAndSealAgree, PopSeal, TypeOK, Events
  <2> QED BY <2>2, <2>3
<1>4. CASE HashReadySeal
  BY <1>0, <1>4 DEF HashReadySeal, HandlerInv, GateAndSealAgree, TypeOK, window
<1>5. CASE \/ Decline \/ Confirm \/ CancelWrite \/ WriteFinished
           \/ \E m \in Editions \cup {None} : StartWrite(m)
  BY <1>0, <1>5
  DEF HandlerInv, GateAndSealAgree, Decline, Confirm, CancelWrite, WriteFinished, StartWrite,
      window, hashing
<1>6. CASE UNCHANGED vars
  BY <1>0, <1>6 DEF HandlerInv, GateAndSealAgree, vars, window, hashing
<1> QED BY <1>1, <1>2, <1>3, <1>4, <1>5, <1>6 DEF Next, Window

(* The gate of start_write passes a manifest only with the digest that the   *)
(* seal of the image carries.                                                *)
LEMMA GateStep == TypeOK /\ IInv /\ [Next]_vars => GateInv'
<1> SUFFICES ASSUME TypeOK, IInv, [Next]_vars PROVE GateInv'
  OBVIOUS
<1>0. GateInv /\ GateAndSealAgree /\ PathsAreReal
  BY DEF IInv, HandlerInv
<1>1. ASSUME NEW m \in Editions \cup {None}, StartWrite(m) PROVE GateInv'
  BY <1>0, <1>1 DEF StartWrite, GateAllows, GateInv, GateAndSealAgree, PathsAreReal
<1>2. CASE Decline \/ WriteFinished
  BY <1>2 DEF Decline, WriteFinished, GateInv
<1>3. CASE UNCHANGED <<required, gateSeal>>
  BY <1>0, <1>3 DEF GateInv
<1>4. \/ UNCHANGED <<required, gateSeal>> \/ Decline \/ WriteFinished
      \/ \E m \in Editions \cup {None} : StartWrite(m)
  BY EnvironmentFrame, WorkerFrame, HashFrame
  DEF Next, Window, SetText, HashReady, HashReadySeal, Confirm, CancelWrite, vars, rest, history
<1> QED BY <1>1, <1>2, <1>3, <1>4

-----------------------------------------------------------------------------
(* The worker *)

(* Between two writes nothing has been done. *)
LEMMA NoJobInv == ASSUME NEW p \in Names, job' = NoJob(p) PROVE JobInv'
  BY DEF NoJob, JobInv, Early, Sealed, SealedBytes

(* The steps that end a job leave what it wrote alone. *)
LEMMA FinishInv ==
  ASSUME TypeOK, JobInv, NEW r \in {"failed", "cancelled"}, Finish(r),
         job.pc \in Early \cup {"write", "measure", "verify"}, UNCHANGED rest
  PROVE  JobInv'
<1>1. /\ job'.pc = "done" /\ job'.result = r /\ job'.written = job.written
      /\ job'.approved = job.approved
  BY DEF Finish, TypeOK, JobType
<1>2. gui' = gui /\ gui = "busy"
  BY DEF JobInv, Early, rest, window
<1> QED BY <1>1, <1>2 DEF JobInv, Sealed, SealedBytes, Early

(* The part of the invariant about the worker is preserved.                  *)
LEMMA JobStep == TypeOK /\ IInv /\ [Next]_vars => JobInv'
<1> SUFFICES ASSUME TypeOK, IInv, [Next]_vars PROVE JobInv'
  OBVIOUS
<1>0. JobInv
  BY DEF IInv
<1>a. /\ job \in JobType
      /\ job.snap \in Contents /\ job.written \in Contents /\ job.checked \in Nat
      /\ Sealed => job.approved \in Seals /\ job.approved.digest \in Contents
      /\ Len(job.snap) \in Nat
  BY DEF TypeOK, JobType, Sealed, Seals, Contents
<1>1. CASE Environment \/ \E h \in Hashers : HashThread(h)
  <2>1. UNCHANGED <<job, gui>>
    BY <1>1, EnvironmentFrame, HashFrame DEF window
  <2> QED BY <1>0, <2>1 DEF JobInv, Sealed, SealedBytes
<1>2. CASE Window
  <2>1. CASE UNCHANGED <<job, gui>>
    BY <1>0, <2>1 DEF JobInv, Sealed, SealedBytes
  <2>2. CASE \E p \in Names : job' = NoJob(p)
    BY <2>2, NoJobInv
  <2>3. CASE Confirm
    BY <1>0, <1>a, <2>3 DEF Confirm, JobInv, Sealed, SealedBytes, Early, JobType
  <2>4. UNCHANGED <<job, gui>> \/ (\E p \in Names : job' = NoJob(p)) \/ Confirm
    <3>1. Strip[text] \in Names /\ job.path \in Names
      BY SourceAssumption DEF TypeOK, JobType
    <3> QED BY <1>2, <3>1
            DEF Window, SetText, HashReady, HashReadySeal, StartWrite, Decline, CancelWrite,
                WriteFinished, window
  <2> QED BY <2>1, <2>2, <2>3, <2>4
<1>3. CASE Worker
  <2>0. UNCHANGED rest /\ gui' = gui
    BY <1>3, WorkerFrame DEF rest, window
  <2>1. CASE Lookup
    BY <1>0, <1>a, <2>0, <2>1 DEF Lookup, JobInv, Sealed, SealedBytes, Early, JobType, Prefix
  <2>2. CASE SnapshotOpen
    BY <1>0, <1>a, <2>0, <2>2, FinishInv
    DEF SnapshotOpen, JobInv, Sealed, SealedBytes, Early, JobType
  <2>3. CASE SnapshotRead
    BY <1>0, <1>a, <2>0, <2>3, FinishInv
    DEF SnapshotRead, JobInv, Sealed, SealedBytes, Early, JobType
  <2>4. CASE SnapshotDone
    BY <1>0, <1>a, <2>0, <2>4, FinishInv
    DEF SnapshotDone, SnapshotIntact, JobInv, Sealed, SealedBytes, Early, JobType
  <2>5. CASE Prepare
    <3>1. CASE job.pc = "prepare" /\ job' = [job EXCEPT !.pc = "write"]
      BY <1>0, <1>a, <2>0, <3>1, EmptyPrefix DEF JobInv, Sealed, SealedBytes, Early, JobType
    <3> QED BY <1>0, <2>0, <2>5, <3>1, FinishInv DEF Prepare, Early
  <2>6. CASE WriteOpen \/ VerifyOpen
    BY <1>0, <1>a, <2>0, <2>6, FinishInv
    DEF WriteOpen, VerifyOpen, JobInv, Sealed, SealedBytes, Early, JobType
  <2>7. CASE Write
    <3> DEFINE at == Len(job.written) + 1
    <3>1. CASE Sealed /\ at \in 1..Len(Stream)
      <4>1. Prefix(Append(job.written, Stream[at]), job.snap)
        BY <1>0, <1>a, <2>0, <2>7, <3>1, PrefixGrows DEF JobInv, Write, Stream
      <4> QED BY <1>0, <1>a, <2>0, <2>7, <3>1, <4>1
              DEF Write, JobInv, Sealed, SealedBytes, Early, JobType
    <3>2. CASE Sealed /\ at \notin 1..Len(Stream)
      <4>1. job.written = job.snap
        BY <1>0, <1>a, <2>0, <2>7, <3>2, PrefixWhole DEF JobInv, Write, Stream
      <4>2. job' = [job EXCEPT !.pc = "verify", !.limit = Len(job.snap)]
        BY <2>7, <3>2 DEF Write
      <4>3. /\ job'.pc = "verify" /\ job'.limit = Len(job.snap)
            /\ job'.approved = job.approved /\ job'.snap = job.snap
            /\ job'.written = job.written /\ job'.checked = job.checked
            /\ job'.result = job.result
        BY <1>a, <4>2 DEF JobType
      <4>4. /\ job.checked = 0 /\ job.result = "none" /\ gui = "busy"
            /\ job.snap = job.approved.digest
        BY <1>0, <2>7, <3>2 DEF JobInv, Write
      <4>5. Prefix(job.written, job.approved.digest)
        BY <1>0, <3>2 DEF JobInv, SealedBytes
      <4> QED BY <1>a, <2>0, <4>1, <4>3, <4>4, <4>5 DEF JobInv, Sealed, SealedBytes, Early
    <3>3. CASE ~Sealed
      BY <1>0, <1>a, <2>0, <2>7, <3>3 DEF Write, JobInv, Sealed, SealedBytes, Early, JobType
    <3> QED BY <3>1, <3>2, <3>3
  <2>8. CASE Measure
    BY <1>0, <1>a, <2>0, <2>8, FinishInv
    DEF Measure, JobInv, Sealed, SealedBytes, Early, JobType
  <2>9. CASE Verify
    <3>1. CASE job.checked + 1 > job.limit /\ Finish("ok")
      BY <1>0, <1>a, <2>0, <2>9, <3>1
      DEF Verify, Finish, JobInv, Sealed, SealedBytes, Early, JobType
    <3>2. CASE ~(job.checked + 1 > job.limit) /\ job' = [job EXCEPT !.checked = job.checked + 1]
      BY <1>0, <1>a, <2>0, <2>9, <3>2 DEF Verify, JobInv, Sealed, SealedBytes, Early, JobType
    <3> QED BY <1>0, <2>0, <2>9, <3>1, <3>2, FinishInv DEF Verify
  <2>10. CASE TargetError \/ Interrupt
    BY <1>0, <2>0, <2>10, FinishInv DEF TargetError, Interrupt
  <2> QED BY <1>3, <2>1, <2>2, <2>3, <2>4, <2>5, <2>6, <2>7, <2>8, <2>9, <2>10 DEF Worker
<1>4. CASE UNCHANGED vars
  BY <1>0, <1>4 DEF JobInv, Sealed, SealedBytes, vars, window
<1> QED BY <1>1, <1>2, <1>3, <1>4 DEF Next

-----------------------------------------------------------------------------
(* The inductive invariant holds initially.                                  *)
LEMMA InvInit == Init => IInv
<1> SUFFICES ASSUME Init PROVE IInv
  OBVIOUS
<1>1. PathsAreReal /\ HandlerInv /\ GateInv
  BY DEF Init, PathsAreReal, HandlerInv, GateAndSealAgree, GateInv, RealNames
<1>2. JobInv
  BY DEF Init, NoJob, JobInv, Sealed, SealedBytes, Early
<1> QED BY <1>1, <1>2 DEF IInv

(* The strengthening that makes the three properties inductive: paths,       *)
(* handler, gate and worker together.                                        *)
THEOREM Inductive == Spec => []IInv
<1>1. TypeOK /\ IInv /\ [Next]_vars => IInv'
  BY PathsStep, HandlerStep, GateStep, JobStep DEF IInv
<1> QED BY <1>1, InvInit, Types, PTL DEF Spec

(* hash_ready: whatever the order of hash events and edits, the digest the   *)
(* manifest gate compares and the seal of the shown path are of the same     *)
(* bytes between two handlers.                                               *)
THEOREM Agreement == Spec => []GateAndSealAgree
<1>1. IInv => GateAndSealAgree
  BY DEF IInv, HandlerInv
<1> QED BY <1>1, Inductive, PTL

(* snapshot_verified_source: a sealed write puts only approved bytes on the  *)
(* target, and succeeds only when all were written and compared.             *)
THEOREM SealedWrites == Spec => []SealedBytes
<1>1. IInv => SealedBytes
  BY DEF IInv, JobInv
<1> QED BY <1>1, Inductive, PTL

(* The manifest gate binds the target as long as the seal it saw is the one  *)
(* the worker takes.                                                         *)
THEOREM GateBinds == Spec => []GateBindsTarget
<1>1. IInv => GateBindsTarget
  BY DEF IInv, JobInv, GateInv, GateBindsTarget, SealedBytes, Sealed
<1> QED BY <1>1, Inductive, PTL

-----------------------------------------------------------------------------
(* Unsealed writes *)

(* What UnsealedInv says depends on nothing but the job, the file and edited. *)
LEMMA UnsealedFrame ==
  ASSUME UnsealedInv, UNCHANGED <<job, dir, bytes, edited>>
  PROVE  UnsealedInv'
  BY DEF UnsealedInv, UnsealedMatches, Sealed, IsFile, Agrees

(* A job that fails or is cancelled promises nothing.                        *)
LEMMA UnsealedEnd ==
  ASSUME TypeOK, NEW r \in {"failed", "cancelled"}, Finish(r)
  PROVE  UnsealedInv'
<1>1. job'.pc = "done" /\ job'.result = r
  BY DEF Finish, TypeOK, JobType
<1> QED BY <1>1 DEF UnsealedInv, UnsealedMatches

(* A change of the file is noted in the phase that it disturbs.              *)
LEMMA UnsealedEnvironment ==
  ASSUME IInv, UnsealedInv, Environment
  PROVE  UnsealedInv'
<1>1. Seen /\ job' = job
  BY DEF Environment, RewriteFile, ReplaceFile, RemoveFile
<1>2. CASE Sealed
  BY <1>1, <1>2 DEF UnsealedInv, Sealed
<1>3. CASE ~Sealed
  <2>1. /\ job.pc = "measure" \/ (job.pc = "write" /\ job.src # None) => "write" \in edited'
        /\ job.pc \in {"verify", "done"} => "verify" \in edited'
    BY <1>1, <1>3 DEF Seen, Sealed
  <2>2. job.pc # "done" => job.result # "ok"
    BY DEF IInv, JobInv
  <2>3. UnsealedMatches'
    BY <1>1, <2>1, <2>2 DEF UnsealedMatches
  <2> QED BY <1>1, <1>3, <2>1, <2>3 DEF UnsealedInv, Sealed
<1> QED BY <1>2, <1>3

(* The worker's steps: dd copies the file it opened, cmp reads what is there. *)
LEMMA UnsealedWorker ==
  ASSUME TypeOK, IInv, UnsealedInv, Worker
  PROVE  UnsealedInv'
<1>0. UNCHANGED <<dir, bytes, edited>>
  BY WorkerFrame DEF rest, files, history
<1>a. /\ job \in JobType /\ job.written \in Contents
      /\ job.checked \in Nat /\ job.limit \in Nat
      /\ job.path \in Names
      /\ IsFile(job.path) =>
           dir[job.path] \in Inodes /\ bytes[dir[job.path]] \in Contents
      /\ job.pc # "done" => job.result = "none"
  BY DEF TypeOK, JobType, IsFile, IInv, JobInv
<1>1. CASE Lookup \/ SnapshotOpen \/ SnapshotRead \/ SnapshotDone
  <2>1. CASE Lookup
    <3>1. job.pc = "lookup" /\ job.src = None
      BY <2>1 DEF Lookup, UnsealedInv, IInv, JobInv
    <3>2. job'.pc \in {"prepare", "open"} /\ job'.src = job.src /\ job'.result = job.result
      BY <1>a, <2>1 DEF Lookup, JobType
    <3> QED BY <1>a, <3>1, <3>2 DEF UnsealedInv, UnsealedMatches
  <2>2. CASE job.pc # "done" /\ job'.pc \in {"copy", "seal"} /\ job'.result = job.result
    BY <1>a, <2>2 DEF UnsealedInv, UnsealedMatches
  <2>3. CASE SnapshotOpen \/ SnapshotRead
    <3>1. \/ \E r \in {"failed", "cancelled"} : Finish(r)
          \/ job.pc # "done" /\ job'.pc \in {"copy", "seal"} /\ job'.result = job.result
      BY <1>a, <2>3 DEF SnapshotOpen, SnapshotRead, JobType
    <3>2. CASE \E r \in {"failed", "cancelled"} : Finish(r)
      BY <3>2, UnsealedEnd
    <3> QED BY <2>2, <3>1, <3>2
  <2>4. CASE SnapshotDone
    <3>1. CASE job.pc = "seal" /\ job' = [job EXCEPT !.pc = "prepare", !.src = None]
      BY <1>a, <3>1 DEF UnsealedInv, UnsealedMatches, JobType
    <3> QED BY <2>4, <3>1, UnsealedEnd DEF SnapshotDone
  <2> QED BY <1>1, <2>1, <2>3, <2>4
<1>2. CASE Prepare
  <2>1. CASE job.pc = "prepare" /\ job' = [job EXCEPT !.pc = "write"]
    <3>1. job.written = << >>
      BY <2>1 DEF IInv, JobInv, Early
    <3> QED BY <1>a, <2>1, <3>1 DEF UnsealedInv, UnsealedMatches, Sealed, JobType
  <2> QED BY <1>2, <2>1, UnsealedEnd DEF Prepare
<1>3. CASE WriteOpen
  <2>1. CASE IsFile(job.path) /\ job' = [job EXCEPT !.src = dir[job.path]]
    <3>1. job.written = << >> /\ job.pc = "write"
      BY <1>3 DEF WriteOpen, UnsealedInv
    <3> QED BY <1>0, <1>a, <2>1, <3>1, EmptyPrefix
            DEF UnsealedInv, UnsealedMatches, Sealed, JobType, IsFile
  <2> QED BY <1>3, <2>1, UnsealedEnd DEF WriteOpen
<1>4. CASE Write
  <2> DEFINE at == Len(job.written) + 1
  <2>1. CASE Sealed
    BY <1>a, <1>4, <2>1 DEF Write, UnsealedInv, Sealed, JobType
  <2>2. CASE ~Sealed /\ at \in 1..Len(Stream)
    <3>1. /\ job'.pc = "write" /\ job'.src = job.src /\ job.src # None
          /\ job'.written = Append(job.written, bytes[job.src][at])
          /\ job'.path = job.path /\ job'.result = job.result
          /\ job'.approved = job.approved
      BY <1>a, <1>4, <2>2 DEF Write, Stream, Sealed, JobType
    <3>2. "write" \notin edited =>
            Prefix(job'.written, bytes[dir[job.path]]) /\ job.src = dir[job.path]
      BY <1>4, <1>a, <2>2, <3>1, PrefixGrows DEF UnsealedInv, Write, Stream, IsFile
    <3>3. job'.result # "ok"
      BY <1>a, <1>4, <3>1 DEF Write
    <3> QED BY <1>0, <3>1, <3>2, <3>3 DEF UnsealedInv, UnsealedMatches, Sealed
  <2>3. CASE ~Sealed /\ at \notin 1..Len(Stream)
    <3>1. /\ job' = [job EXCEPT !.pc = "measure", !.src = None]
          /\ job.src # None /\ job.pc = "write"
      BY <1>4, <2>3 DEF Write, Sealed
    <3>2. "write" \notin edited => IsFile(job.path) /\ job.written = bytes[dir[job.path]]
      BY <1>a, <2>3, <3>1, PrefixWhole DEF UnsealedInv, Stream, IsFile
    <3>3. job.checked = 0
      BY <3>1 DEF IInv, JobInv
    <3> QED BY <1>0, <1>a, <3>1, <3>2, <3>3
            DEF UnsealedInv, UnsealedMatches, Sealed, JobType, IsFile
  <2> QED BY <2>1, <2>2, <2>3
<1>5. CASE Measure
  <2>1. CASE /\ job.pc = "measure" /\ IsFile(job.path)
             /\ job' = [job EXCEPT !.pc = "verify", !.limit = Len(bytes[dir[job.path]])]
    <3>1. Len(bytes[dir[job.path]]) \in Nat
      BY <1>a, <2>1 DEF Contents
    <3> QED BY <1>0, <1>a, <2>1, <3>1
            DEF UnsealedInv, UnsealedMatches, Sealed, JobType, IsFile, Agrees
  <2> QED BY <1>5, <2>1, UnsealedEnd DEF Measure
<1>6. CASE VerifyOpen
  <2>1. CASE IsFile(job.path) /\ job' = [job EXCEPT !.src = dir[job.path]]
    BY <1>0, <1>6, <1>a, <2>1
    DEF VerifyOpen, UnsealedInv, UnsealedMatches, Sealed, JobType, IsFile, Agrees
  <2> QED BY <1>6, <2>1, UnsealedEnd DEF VerifyOpen
<1>7. CASE Verify
  <2> DEFINE at == job.checked + 1
             file == bytes[dir[job.path]]
  <2>1. CASE Sealed
    BY <1>a, <1>7, <2>1 DEF Verify, Finish, UnsealedInv, Sealed, JobType
  <2>2. CASE ~Sealed /\ at > job.limit /\ Finish("ok")
    <3>1. /\ job'.pc = "done" /\ job'.path = job.path /\ job'.checked = job.checked
          /\ job'.written = job.written /\ job.pc = "verify"
      BY <1>a, <1>7, <2>2 DEF Verify, Finish, JobType
    <3>2. "verify" \notin edited =>
            /\ IsFile(job.path) /\ job.checked = Len(file) /\ Agrees(file)
            /\ "write" \notin edited => job.written = file
      BY <1>a, <2>2, <3>1 DEF UnsealedInv
    <3> QED BY <1>0, <3>1, <3>2 DEF UnsealedInv, UnsealedMatches, Agrees, IsFile
  <2>3. CASE ~Sealed /\ ~(at > job.limit) /\ ByteAgrees(at) /\ job' = [job EXCEPT !.checked = at]
    <3>1. /\ job'.pc = "verify" /\ job'.path = job.path /\ job'.checked = at
          /\ job'.written = job.written /\ job.pc = "verify" /\ job'.src = job.src
          /\ job'.limit = job.limit /\ job'.approved = job.approved
          /\ job'.result = "none" /\ job.src # None
      BY <1>a, <1>7, <2>3 DEF Verify, JobType
    <3>2. "verify" \notin edited =>
            /\ IsFile(job.path) /\ job.src = dir[job.path]
            /\ job.limit = Len(file) /\ at <= job.limit
            /\ "write" \notin edited => job.written = file
      BY <1>a, <2>3, <3>1 DEF UnsealedInv
    <3>3. "verify" \notin edited =>
            \A k \in 1..at : k <= Len(job.written) => job.written[k] = file[k]
      <4>1. SUFFICES ASSUME "verify" \notin edited, NEW k \in 1..at, k <= Len(job.written)
                     PROVE  job.written[k] = file[k]
        OBVIOUS
      <4>2. CASE k = at
        <5>1. at \in 1..Len(job.written)
          BY <1>a, <4>1, <4>2 DEF Contents
        <5> QED BY <2>3, <3>2, <4>1, <4>2, <5>1 DEF ByteAgrees, Stream
      <4>3. CASE k # at
        <5>1. k \in 1..job.checked
          BY <1>a, <4>3
        <5>2. Agrees(file)
          BY <2>3, <3>1, <4>1 DEF UnsealedInv
        <5> QED BY <4>1, <5>1, <5>2 DEF Agrees
      <4> QED BY <4>2, <4>3
    <3> QED BY <1>0, <1>a, <2>3, <3>1, <3>2, <3>3
            DEF UnsealedInv, UnsealedMatches, Agrees, IsFile, Sealed
  <2> QED BY <1>7, <2>1, <2>2, <2>3, UnsealedEnd DEF Verify
<1>8. CASE TargetError \/ Interrupt
  BY <1>8, UnsealedEnd DEF TargetError, Interrupt
<1> QED BY <1>1, <1>2, <1>3, <1>4, <1>5, <1>6, <1>7, <1>8 DEF Worker

(* A job that has not begun has no file open.                                *)
LEMMA UnsealedWindow ==
  ASSUME TypeOK, IInv, UnsealedInv, Window
  PROVE  UnsealedInv'
<1>1. CASE UNCHANGED <<job, dir, bytes, edited>>
  BY <1>1, UnsealedFrame
<1>2. CASE \E p \in Names : job' = NoJob(p)
  BY <1>2 DEF NoJob, UnsealedInv, UnsealedMatches
<1>3. CASE Confirm
  <2>1. job \in JobType /\ job.pc = "none" /\ job.result = "none"
    BY <1>3 DEF Confirm, TypeOK, IInv, JobInv
  <2>2. /\ job'.pc = "lookup" /\ job'.result = "none" /\ job'.src = job.src
        /\ job'.approved = job.approved
    BY <1>3, <2>1 DEF Confirm, JobType
  <2> QED BY <2>1, <2>2 DEF UnsealedInv, UnsealedMatches, Sealed
<1>4. Strip[text] \in Names /\ job.path \in Names
  BY SourceAssumption DEF TypeOK, JobType
<1> QED BY <1>1, <1>2, <1>3, <1>4
        DEF Window, SetText, HashReady, HashReadySeal, StartWrite, Decline, CancelWrite,
            WriteFinished, files, history

(* linux_write and linux_verify without a seal: unless the file changes after *)
(* its size was taken for verification, a success has compared all of it with *)
(* the target; unless it changes after dd opened it, the target is the file.  *)
THEOREM UnsealedWrites == Spec => []UnsealedMatches
<1>1. Init => UnsealedInv
  BY DEF Init, NoJob, UnsealedInv, UnsealedMatches
<1>2. TypeOK /\ IInv /\ UnsealedInv /\ [Next]_vars => UnsealedInv'
  <2> SUFFICES ASSUME TypeOK, IInv, UnsealedInv, [Next]_vars PROVE UnsealedInv'
    OBVIOUS
  <2>1. ASSUME NEW h \in Hashers, HashThread(h) PROVE UnsealedInv'
    BY <2>1, HashFrame, UnsealedFrame DEF files, history
  <2>2. CASE UNCHANGED vars
    BY <2>2, UnsealedFrame DEF vars, files, history
  <2> QED BY <2>1, <2>2, UnsealedEnvironment, UnsealedWorker, UnsealedWindow DEF Next
<1>3. UnsealedInv => UnsealedMatches
  BY DEF UnsealedInv, UnsealedMatches
<1> QED BY <1>1, <1>2, <1>3, Types, Inductive, PTL DEF Spec

-----------------------------------------------------------------------------
(* The halves of EarlyCancelIsClean and WriteEnds that do not need fairness.  *)

(* Between its start and its end the record changes by steps of the worker.   *)
LEMMA RunningJob ==
  ASSUME TypeOK, IInv, Next, job.pc \notin {"none", "done"}
  PROVE  UNCHANGED job \/ (Worker /\ cancel' = cancel)
<1>1. gui = "busy"
  BY DEF IInv, JobInv
<1>2. CASE Environment \/ \E h \in Hashers : HashThread(h)
  BY <1>2, EnvironmentFrame, HashFrame
<1>3. CASE Window
  BY <1>1, <1>3 DEF Window, SetText, HashReady, HashReadySeal, StartWrite, Decline, Confirm,
                    CancelWrite, WriteFinished
<1>4. CASE Worker
  BY <1>4, WorkerFrame DEF rest
<1> QED BY <1>2, <1>3, <1>4 DEF Next

LEMMA CancelLasts ==
  ASSUME TypeOK, IInv, Next, cancel, job.pc \notin {"none", "done"}
  PROVE  cancel'
<1>1. CASE Worker
  BY <1>1, WorkerFrame DEF rest
<1>2. CASE Environment \/ \E h \in Hashers : HashThread(h)
  BY <1>2, EnvironmentFrame, HashFrame
<1>3. CASE Window
  BY <1>3 DEF Window, SetText, HashReady, HashReadySeal, StartWrite, Decline, Confirm,
              CancelWrite, WriteFinished
<1> QED BY <1>1, <1>2, <1>3 DEF Next

Untouched(j) == j.result # "ok" /\ j.written = << >>

(* The cancel event is set while the source is sealed or the target prepared: *)
(* the worker never gets from there to the target, however the checks of the  *)
(* event, the copy and edits of the file interleave; whenever it ends, it is  *)
(* without success and with no byte written.                                  *)
CancelledBefore ==
  [][cancel /\ job.pc \in Early =>
       Untouched(job') /\ (job'.pc = "done" \/ (cancel' /\ job'.pc \in Early))]_vars

THEOREM CancelNeverWrites == Spec => CancelledBefore
<1> DEFINE Kept ==
      cancel /\ job.pc \in Early =>
        Untouched(job') /\ (job'.pc = "done" \/ (cancel' /\ job'.pc \in Early))
<1>1. ASSUME TypeOK, IInv, Next, cancel, job.pc \in Early
      PROVE  Untouched(job') /\ (job'.pc = "done" \/ (cancel' /\ job'.pc \in Early))
  <2>0. /\ job \in JobType /\ job.written = << >> /\ job.result = "none"
        /\ job.pc \notin {"none", "done"} /\ cancel'
    <3>1. job.pc \notin {"none", "done"}
      BY <1>1 DEF Early
    <3> QED BY <1>1, <3>1, CancelLasts DEF TypeOK, IInv, JobInv
  <2>1. CASE UNCHANGED job
    BY <1>1, <2>0, <2>1 DEF Untouched
  <2>2. ASSUME NEW r \in {"failed", "cancelled"}, Finish(r)
        PROVE  Untouched(job') /\ job'.pc = "done"
    BY <2>0, <2>2 DEF Finish, JobType, Untouched
  <2>3. CASE Lookup
    BY <2>0, <2>3 DEF Lookup, JobType, Untouched, Early
  <2>4. CASE SnapshotOpen
    BY <2>0, <2>2, <2>4 DEF SnapshotOpen, JobType, Untouched, Early
  <2>5. CASE SnapshotRead
    BY <1>1, <2>0, <2>2, <2>5 DEF SnapshotRead, JobType, Untouched, Early
  <2>6. CASE SnapshotDone \/ Prepare
    BY <1>1, <2>0, <2>2, <2>6 DEF SnapshotDone, Prepare, CancelSeen
  <2>7. CASE WriteOpen \/ Write \/ Measure \/ VerifyOpen \/ Verify \/ TargetError \/ Interrupt
    BY <1>1, <2>7 DEF WriteOpen, Write, Measure, VerifyOpen, Verify, TargetError, Interrupt, Early
  <2> QED BY <1>1, <2>0, <2>1, <2>3, <2>4, <2>5, <2>6, <2>7, RunningJob DEF Worker
<1>2. TypeOK /\ IInv /\ [Next]_vars => [Kept]_vars
  BY <1>1
<1> QED BY <1>2, Types, Inductive, PTL DEF Spec, CancelledBefore

(* The phases of WriteWorker.run, by what is still to come. *)
Remaining(p) ==
  CASE p = "lookup" -> 8 [] p = "open" -> 7 [] p = "copy" -> 6 [] p = "seal" -> 5
    [] p = "prepare" -> 4 [] p = "write" -> 3 [] p = "measure" -> 2 [] p = "verify" -> 1
    [] OTHER -> 0

(* One chunk more within a phase, and no more than there are; or the source   *)
(* that the phase reads is opened, which is once.                             *)
OneMore ==
  \/ job.pc = "copy" /\ Len(job'.snap) = Len(job.snap) + 1 /\ Len(job'.snap) <= Len(bytes[job.src])
  \/ /\ job.pc = "write" /\ job'.src = job.src
     /\ Len(job'.written) = Len(job.written) + 1 /\ Len(job'.written) <= Len(Stream)
  \/ /\ job.pc = "verify" /\ job'.src = job.src
     /\ job'.checked = job.checked + 1 /\ job'.checked <= job.limit
  \/ /\ job.pc \in {"write", "verify"} /\ job.src = None /\ job'.src # None
     /\ UNCHANGED <<job.written, job.checked>>

(* A worker never goes back to an earlier phase, and never repeats a chunk:   *)
(* every step leaves less to do, whatever happens to the file meanwhile.      *)
WriteDescends ==
  [][job.pc \notin {"none", "done"} =>
       \/ UNCHANGED job
       \/ Remaining(job'.pc) < Remaining(job.pc)
       \/ job'.pc = job.pc /\ OneMore]_vars

THEOREM WriteIsFinite == Spec => WriteDescends
<1> DEFINE Nearer ==
      job.pc \notin {"none", "done"} =>
        \/ UNCHANGED job
        \/ Remaining(job'.pc) < Remaining(job.pc)
        \/ job'.pc = job.pc /\ OneMore
<1>1. ASSUME TypeOK, IInv, Next, job.pc \notin {"none", "done"}
      PROVE  \/ UNCHANGED job
             \/ Remaining(job'.pc) < Remaining(job.pc)
             \/ job'.pc = job.pc /\ OneMore
  <2>0. /\ job \in JobType /\ job.snap \in Contents /\ job.written \in Contents
        /\ job.checked \in Nat /\ job.limit \in Nat
    BY <1>1 DEF TypeOK, JobType
  <2>1. ASSUME NEW r, Finish(r) PROVE Remaining(job'.pc) < Remaining(job.pc)
    BY <1>1, <2>0, <2>1 DEF Finish, Remaining, JobType
  <2>2. CASE Lookup
    BY <2>0, <2>2 DEF Lookup, Remaining, JobType
  <2>3. CASE SnapshotOpen
    <3>1. job.pc = "open" /\ (Finish("failed") \/ job'.pc = "copy")
      BY <2>0, <2>3 DEF SnapshotOpen, JobType
    <3>2. CASE job'.pc = "copy"
      BY <3>1, <3>2 DEF Remaining
    <3> QED BY <2>1, <3>1, <3>2
  <2>4. CASE SnapshotRead
    <3> DEFINE at == Len(job.snap) + 1
               file == bytes[job.src]
    <3>1. CASE Finish("cancelled")
      BY <2>1, <3>1
    <3>2. CASE job' = [job EXCEPT !.pc = "seal"]
      BY <2>0, <2>4, <3>2 DEF SnapshotRead, Remaining, JobType
    <3>3. CASE at \in 1..Len(file) /\ job' = [job EXCEPT !.snap = Append(@, file[at])]
      <4>1. job'.snap = Append(job.snap, file[at]) /\ job'.pc = job.pc
        BY <2>0, <3>3 DEF JobType
      <4>2. Len(job'.snap) = Len(job.snap) + 1
        BY <2>0, <4>1 DEF Contents
      <4>3. Len(job'.snap) <= Len(file)
        BY <3>3, <4>2
      <4> QED BY <2>4, <4>1, <4>2, <4>3 DEF SnapshotRead, OneMore
    <3> QED BY <2>4, <3>1, <3>2, <3>3 DEF SnapshotRead
  <2>5. CASE SnapshotDone \/ Prepare
    <3>1. \/ \E r \in {"failed", "cancelled"} : Finish(r)
          \/ job.pc = "seal" /\ job'.pc = "prepare"
          \/ job.pc = "prepare" /\ job'.pc = "write"
      BY <2>0, <2>5 DEF SnapshotDone, Prepare, JobType
    <3>2. CASE \E r \in {"failed", "cancelled"} : Finish(r)
      BY <2>1, <3>2
    <3>3. CASE \/ job.pc = "seal" /\ job'.pc = "prepare"
               \/ job.pc = "prepare" /\ job'.pc = "write"
      BY <3>3 DEF Remaining
    <3> QED BY <3>1, <3>2, <3>3
  <2>6. CASE WriteOpen \/ VerifyOpen
    <3>1. CASE Finish("failed")
      BY <2>1, <3>1
    <3>2. CASE IsFile(job.path) /\ job' = [job EXCEPT !.src = dir[job.path]]
      BY <2>0, <2>6, <3>2 DEF WriteOpen, VerifyOpen, OneMore, IsFile, JobType
    <3> QED BY <2>6, <3>1, <3>2 DEF WriteOpen, VerifyOpen
  <2>7. CASE Write
    <3> DEFINE at == Len(job.written) + 1
    <3>1. CASE at \in 1..Len(Stream) /\ job' = [job EXCEPT !.written = Append(@, Stream[at])]
      <4>1. /\ job'.written = Append(job.written, Stream[at])
            /\ job'.pc = job.pc /\ job'.src = job.src
        BY <2>0, <3>1 DEF JobType
      <4>2. Len(job'.written) = Len(job.written) + 1
        BY <2>0, <4>1 DEF Contents
      <4>3. Len(job'.written) <= Len(Stream)
        BY <3>1, <4>2
      <4> QED BY <2>7, <4>1, <4>2, <4>3 DEF Write, OneMore
    <3>2. CASE at \notin 1..Len(Stream)
      <4>1. job.pc = "write" /\ job'.pc \in {"verify", "measure"}
        BY <2>0, <2>7, <3>2 DEF Write, JobType
      <4> QED BY <4>1 DEF Remaining
    <3> QED BY <2>7, <3>1, <3>2 DEF Write
  <2>8. CASE Measure
    <3>1. job.pc = "measure" /\ (Finish("failed") \/ job'.pc = "verify")
      BY <2>0, <2>8 DEF Measure, JobType
    <3>2. CASE job'.pc = "verify"
      BY <3>1, <3>2 DEF Remaining
    <3> QED BY <2>1, <3>1, <3>2
  <2>9. CASE Verify
    <3>1. CASE \E r \in {"ok", "failed"} : Finish(r)
      BY <2>1, <3>1
    <3>2. CASE job.checked + 1 <= job.limit /\ job' = [job EXCEPT !.checked = job.checked + 1]
      BY <2>0, <2>9, <3>2 DEF Verify, OneMore, JobType
    <3> QED BY <2>0, <2>9, <3>1, <3>2 DEF Verify
  <2>10. CASE TargetError \/ Interrupt
    BY <2>1, <2>10 DEF TargetError, Interrupt
  <2> QED BY <1>1, <2>2, <2>3, <2>4, <2>5, <2>6, <2>7, <2>8, <2>9, <2>10, RunningJob DEF Worker
<1>2. TypeOK /\ IInv /\ [Next]_vars => [Nearer]_vars
  BY <1>1
<1> QED BY <1>2, Types, Inductive, PTL DEF Spec, WriteDescends

=============================================================================
