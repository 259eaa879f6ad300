----------------------------- MODULE SourceSeal -----------------------------
(***************************************************************************)
(* Boot It's source seal: how the bytes of an image file get from a path   *)
(* in the window to a target device.  Four actors interleave:              *)
(*   - other programs, which rewrite, replace and remove the file;         *)
(*   - HashWorker threads, each reading the file chunk by chunk and then   *)
(*     posting an event to the window's queue;                             *)
(*   - the UI thread: edits of the path, delivery of hash events (with the *)
(*     layers that runtime patches put around _hash_ready), the manifest   *)
(*     gate of start_write and its modal confirmation;                     *)
(*   - the write worker, which looks the seal up, copies the sealed file   *)
(*     into a private snapshot, then writes and verifies the target.       *)
(* A SHA-256 digest is represented by the content it is the digest of      *)
(* (hashing is assumed collision free).                                    *)
(***************************************************************************)
EXTENDS Naturals, Sequences

CONSTANTS
  Names,       \* texts of the image field; some name files
  Strip,       \* [Names -> Names], str.strip()
  Inodes,      \* identities the file system gives to files
  Chunks,      \* values of one CHUNK_SIZE read
  Editions,    \* contents a file may have
  Hashers,     \* HashWorker threads alive at once (bound)
  MaxEdits,    \* changes made by other programs (bound)
  MaxPosted,   \* undelivered hash events (bound)
  None

Contents == Seq(Chunks)

ASSUME SourceAssumption ==
  /\ Strip \in [Names -> Names]
  /\ \A n \in Names : Strip[Strip[n]] = Strip[n]
  /\ Editions \subseteq Contents
  /\ MaxEdits \in Nat /\ MaxPosted \in Nat
  /\ None \notin Inodes /\ None \notin Contents

VARIABLES
  dir,       \* [Names -> Inodes \cup {None}]: which file a path names
  bytes,     \* [Inodes -> Contents]
  stamp,     \* [Inodes -> Nat]: st_mtime_ns
  edits,     \* number of changes made so far
  text,      \* image_edit.text()
  digest,    \* _boot_it_image_digest
  imgStat,   \* _boot_it_image_stat
  hasher,    \* [Hashers -> a running HashWorker or None]
  posted,    \* queued HashWorker.completed events
  ready,     \* the event whose handler has popped but not yet set the seal
  seals,     \* [Names -> a seal or None]: the dict of install_source_seal
  gui,       \* "idle", "confirm" (modal dialog open) or "busy"
  cancel,    \* WriteWorker._cancel_event
  job,       \* the WriteWorker
  required,  \* history: the digest the selected manifest requires of this write
  gateSeal,  \* history: the seal of the image when the gate was passed
  edited     \* history: the phases of an unsealed write that saw the file changed

files == <<dir, bytes, stamp, edits>>
window == <<text, digest, imgStat, gui>>
hashing == <<hasher, posted, ready>>
history == <<required, gateSeal, edited>>
vars == <<files, window, hashing, seals, cancel, job, history>>

-----------------------------------------------------------------------------
(* Files, as the program sees them *)

Stat(i) == <<Len(bytes[i]), stamp[i]>>

NoInode(i) == [size |-> Len(bytes[i]), mtime |-> stamp[i]]
Identity(i) == [size |-> Len(bytes[i]), mtime |-> stamp[i], inode |-> i]

Identities == [size : Nat, mtime : Nat, inode : Inodes]
Seals == [digest : Contents, identity : Identities]
Events == [path : Names, digest : Contents \cup {None}]
HashRuns == [path : Names, inode : Inodes \cup {None}, read : Contents]

IsFile(n) == dir[n] # None

(* A real name has no padding: validate_image wants the suffix .iso or .img. *)
RealNames == {n \in Names : Strip[n] = n}

(* Inodes a thread still holds open are not reused. *)
Open == {hasher[h].inode : h \in {x \in Hashers : hasher[x] # None}} \cup {job.src}
Free == {i \in Inodes : i \notin Open /\ \A n \in Names : dir[n] # i}

NewStamp(i) == {stamp[i], edits + 1}    \* mtime kept (touch -r, cp -p) or bumped

(* A change while an unsealed write reads the path: before it has taken the  *)
(* size to verify, or after.                                                 *)
Seen ==
  edited' = edited \cup
    (IF job.approved # None THEN {}
     ELSE IF job.pc = "measure" \/ (job.pc = "write" /\ job.src # None) THEN {"write"}
     ELSE IF job.pc \in {"verify", "done"} THEN {"verify"} ELSE {})

RewriteFile(n, e) ==
  /\ edits < MaxEdits /\ IsFile(n)
  /\ \E s \in NewStamp(dir[n]) : stamp' = [stamp EXCEPT ![dir[n]] = s]
  /\ bytes' = [bytes EXCEPT ![dir[n]] = e]
  /\ edits' = edits + 1 /\ Seen
  /\ UNCHANGED <<dir, window, hashing, seals, cancel, job, required, gateSeal>>

ReplaceFile(n, e) ==
  /\ edits < MaxEdits
  /\ \E i \in Free :
       /\ dir' = [dir EXCEPT ![n] = i]
       /\ bytes' = [bytes EXCEPT ![i] = e]
       /\ \E s \in IF IsFile(n) THEN NewStamp(dir[n]) ELSE NewStamp(i) :
            stamp' = [stamp EXCEPT ![i] = s]
  /\ edits' = edits + 1 /\ Seen
  /\ UNCHANGED <<window, hashing, seals, cancel, job, required, gateSeal>>

RemoveFile(n) ==
  /\ edits < MaxEdits /\ IsFile(n)
  /\ dir' = [dir EXCEPT ![n] = None]
  /\ edits' = edits + 1 /\ Seen
  /\ UNCHANGED <<bytes, stamp, window, hashing, seals, cancel, job, required, gateSeal>>

-----------------------------------------------------------------------------
(* The image field and the HashWorker threads *)

(* textChanged: clear_provenance forgets the digest, _image_changed starts a *)
(* HashWorker for a valid file.  The field is disabled while a write runs,   *)
(* but its Browse button is not; a modal dialog shuts out both.              *)
SetText(t) ==
  /\ gui # "confirm" /\ ready = None /\ t # text
  /\ text' = t
  /\ digest' = None
  /\ imgStat' = None
  /\ IF IsFile(t)
       THEN \E h \in Hashers :
              /\ hasher[h] = None
              /\ hasher' = [hasher EXCEPT ![h] = [path |-> t, inode |-> None, read |-> << >>]]
       ELSE UNCHANGED hasher
  /\ UNCHANGED <<files, gui, posted, ready, seals, cancel, job, history>>

Post(h, d) ==
  /\ Len(posted) < MaxPosted
  /\ posted' = Append(posted, [path |-> hasher[h].path, digest |-> d])
  /\ hasher' = [hasher EXCEPT ![h] = None]

HashOpen(h) ==
  /\ hasher[h] # None /\ hasher[h].inode = None
  /\ IF IsFile(hasher[h].path)
       THEN /\ hasher' = [hasher EXCEPT ![h].inode = dir[hasher[h].path]]
            /\ UNCHANGED posted
       ELSE Post(h, None)
  /\ UNCHANGED <<files, window, ready, seals, cancel, job, history>>

HashRead(h) ==
  /\ hasher[h] # None /\ hasher[h].inode # None
  /\ LET at == Len(hasher[h].read) + 1
         file == bytes[hasher[h].inode]
     IN IF at \in 1..Len(file)
          THEN /\ hasher' = [hasher EXCEPT ![h].read = Append(@, file[at])]
               /\ UNCHANGED posted
          ELSE Post(h, hasher[h].read)
  /\ UNCHANGED <<files, window, ready, seals, cancel, job, history>>

StatNow(n) == IF IsFile(n) THEN Stat(dir[n]) ELSE None

(* Which seals survive the delivery of an event for path n: seals.pop(path). *)
KeepSeals(n) == seals
PopSeal(n) == [seals EXCEPT ![n] = None]

(* The chain of _hash_ready layers up to the pop; the handler goes on to set *)
(* the seal only for a digest of the path the window still shows.            *)
HashReady ==
  /\ ready = None /\ posted # << >>
  /\ LET ev == Head(posted)
     IN /\ IF ev.path = text
             THEN digest' = ev.digest /\ imgStat' = StatNow(text)
             ELSE UNCHANGED <<digest, imgStat>>
        /\ seals' = PopSeal(ev.path)
        /\ ready' = IF ev.digest = None \/ ev.path # text THEN None ELSE ev
  /\ posted' = Tail(posted)
  /\ UNCHANGED <<files, text, gui, hasher, cancel, job, history>>

(* seals[path] = (digest, _identity(path)), unless the file has gone. *)
HashReadySeal ==
  /\ ready # None
  /\ seals' = IF IsFile(ready.path)
                THEN [seals EXCEPT ![ready.path] =
                        [digest |-> ready.digest, identity |-> Identity(dir[ready.path])]]
                ELSE seals
  /\ ready' = None
  /\ UNCHANGED <<files, window, hasher, posted, cancel, job, history>>

-----------------------------------------------------------------------------
(* start_write, its gate and its dialog *)

NoJob(p) == [pc |-> "none", path |-> p, approved |-> None, src |-> None, limit |-> 0,
             snap |-> << >>, written |-> << >>, checked |-> 0, result |-> "none"]

(* The manifest gate: m is the digest the manifest binds to the image, None  *)
(* when no manifest is selected.                                             *)
UncheckedGate(m) == m # None => digest # None
GateAllows(m) ==
  m # None => /\ digest # None
              /\ imgStat = StatNow(Strip[text])
              /\ digest = m

StartWrite(m) ==
  /\ gui = "idle" /\ ready = None
  /\ IsFile(Strip[text]) /\ GateAllows(m)
  /\ gui' = "confirm"
  /\ required' = m /\ edited' = {}
  /\ gateSeal' = seals[Strip[text]]
  /\ job' = NoJob(Strip[text])
  /\ UNCHANGED <<files, text, digest, imgStat, hashing, seals, cancel>>

Decline ==
  /\ gui = "confirm" /\ ready = None
  /\ gui' = "idle"
  /\ required' = None /\ gateSeal' = None /\ edited' = {}
  /\ job' = NoJob(job.path)
  /\ UNCHANGED <<files, text, digest, imgStat, hashing, seals, cancel>>

Confirm ==
  /\ gui = "confirm" /\ ready = None
  /\ gui' = "busy"
  /\ job' = [job EXCEPT !.pc = "lookup"]
  /\ UNCHANGED <<files, text, digest, imgStat, hashing, seals, cancel, history>>

CancelWrite ==
  /\ gui = "busy" /\ job.pc # "done" /\ ~cancel
  /\ cancel' = TRUE
  /\ UNCHANGED <<files, window, hashing, seals, job, history>>

WriteFinished ==
  /\ gui = "busy" /\ job.pc = "done" /\ ready = None
  /\ gui' = "idle"
  /\ cancel' = FALSE
  /\ required' = None /\ gateSeal' = None /\ edited' = {}
  /\ job' = NoJob(job.path)
  /\ UNCHANGED <<files, text, digest, imgStat, hashing, seals>>

-----------------------------------------------------------------------------
(* The write worker.  Its steps change nothing but job. *)

rest == <<files, window, hashing, seals, cancel, history>>

Sealed == job.approved # None

FailsSilently(r) ==
  job' = [job EXCEPT !.pc = IF r = "failed" THEN "none" ELSE "done", !.src = None, !.result = r]
Finish(r) == job' = [job EXCEPT !.pc = "done", !.src = None, !.result = r]

(* approved = seals.get(self.image) *)
Lookup ==
  /\ job.pc = "lookup"
  /\ job' = [job EXCEPT !.approved = seals[job.path],
                        !.pc = IF seals[job.path] = None THEN "prepare" ELSE "open"]
  /\ UNCHANGED rest

(* snapshot_verified_source: open, and compare fstat with the approved one. *)
SnapshotOpen ==
  /\ job.pc = "open"
  /\ IF IsFile(job.path) /\ Identity(dir[job.path]) = job.approved.identity
       THEN job' = [job EXCEPT !.pc = "copy", !.src = dir[job.path]]
       ELSE Finish("failed")
  /\ UNCHANGED rest

SnapshotRead ==
  /\ job.pc = "copy"
  /\ LET at == Len(job.snap) + 1
         file == bytes[job.src]
     IN IF at \notin 1..Len(file) THEN job' = [job EXCEPT !.pc = "seal"]
        ELSE IF cancel THEN Finish("cancelled")
        ELSE job' = [job EXCEPT !.snap = Append(@, file[at])]
  /\ UNCHANGED rest

(* What the end of the copy checks: identity, digest and size. *)
SnapshotUnhashed == Identity(job.src) = job.approved.identity
SnapshotIntact ==
  /\ Identity(job.src) = job.approved.identity
  /\ job.snap = job.approved.digest
  /\ Len(job.snap) = Len(bytes[job.src])

SnapshotDone ==
  /\ job.pc = "seal"
  /\ IF cancel THEN Finish("cancelled")
     ELSE IF SnapshotIntact THEN job' = [job EXCEPT !.pc = "prepare", !.src = None]
     ELSE Finish("failed")
  /\ UNCHANGED rest

(* Target revalidation and unmounting (module TargetSession), each followed  *)
(* by _check_cancel.                                                         *)
CancelIgnored == FALSE
CancelSeen == cancel

Prepare ==
  /\ job.pc = "prepare"
  /\ \/ Finish("failed")
     \/ IF CancelSeen THEN Finish("cancelled") ELSE job' = [job EXCEPT !.pc = "write"]
  /\ UNCHANGED rest

(* Without a seal, the writer (dd if=image) opens the path itself. *)
WriteOpen ==
  /\ job.pc = "write" /\ ~Sealed /\ job.src = None
  /\ IF IsFile(job.path) THEN job' = [job EXCEPT !.src = dir[job.path]] ELSE Finish("failed")
  /\ UNCHANGED rest

Stream == IF Sealed THEN job.snap ELSE bytes[job.src]

(* A chunk reaches the target.  The sealed stream checks for cancellation   *)
(* before each one; dd runs on until its parent kills it.  At the end the   *)
(* sealed stream is verified against the snapshot, the other against the    *)
(* file as linux_verify finds it.                                           *)
Write ==
  /\ job.pc = "write"
  /\ IF Sealed THEN ~cancel ELSE job.src # None
  /\ LET at == Len(job.written) + 1
     IN IF at \in 1..Len(Stream)
          THEN job' = [job EXCEPT !.written = Append(@, Stream[at])]
          ELSE IF Sealed
            THEN job' = [job EXCEPT !.pc = "verify", !.limit = Len(job.snap)]
            ELSE job' = [job EXCEPT !.pc = "measure", !.src = None]
  /\ UNCHANGED rest

(* linux_verify: size = Path(image).stat().st_size, then cmp opens the path. *)
Measure ==
  /\ job.pc = "measure"
  /\ IF IsFile(job.path)
       THEN job' = [job EXCEPT !.pc = "verify", !.limit = Len(bytes[dir[job.path]])]
       ELSE Finish("failed")
  /\ UNCHANGED rest

VerifyOpen ==
  /\ job.pc = "verify" /\ ~Sealed /\ job.src = None
  /\ IF IsFile(job.path) THEN job' = [job EXCEPT !.src = dir[job.path]] ELSE Finish("failed")
  /\ UNCHANGED rest

(* cmp -n limit: past what this job wrote the target holds older bytes,     *)
(* which may or may not agree.                                              *)
NeverDiffers(at) == TRUE
ByteAgrees(at) ==
  at \in 1..Len(Stream) /\ (at \in 1..Len(job.written) => Stream[at] = job.written[at])

Verify ==
  /\ job.pc = "verify"
  /\ IF Sealed THEN ~cancel ELSE job.src # None
  /\ LET at == job.checked + 1
     IN IF at > job.limit THEN Finish("ok")
        ELSE \/ /\ ByteAgrees(at)
                /\ job' = [job EXCEPT !.checked = at]
             \/ /\ ~(ByteAgrees(at) /\ at \in 1..Len(job.written))
                /\ Finish("failed")
  /\ UNCHANGED rest

TargetError ==
  /\ job.pc \in {"write", "verify"}
  /\ Finish("failed")
  /\ UNCHANGED rest

Interrupt ==
  /\ job.pc \in {"write", "verify"} /\ cancel
  /\ Finish("cancelled")
  /\ UNCHANGED rest

Worker ==
  \/ Lookup \/ SnapshotOpen \/ SnapshotRead \/ SnapshotDone \/ Prepare
  \/ WriteOpen \/ Write \/ Measure \/ VerifyOpen \/ Verify
  \/ TargetError \/ Interrupt

-----------------------------------------------------------------------------
Init ==
  /\ dir \in [Names -> Inodes \cup {None}]
  /\ \A n \in Names : IsFile(n) => n \in RealNames
  /\ \A m, n \in Names : IsFile(m) /\ dir[m] = dir[n] => m = n
  /\ bytes \in [Inodes -> Editions]
  /\ stamp = [i \in Inodes |-> 0]
  /\ edits = 0
  /\ text \in {n \in Names : ~IsFile(n)}
  /\ digest = None /\ imgStat = None
  /\ hasher = [h \in Hashers |-> None]
  /\ posted = << >> /\ ready = None
  /\ seals = [n \in Names |-> None]
  /\ gui = "idle" /\ cancel = FALSE
  /\ job = NoJob(Strip[text])
  /\ required = None /\ gateSeal = None /\ edited = {}

Environment ==
  \E n \in RealNames :
    \/ \E e \in Editions : RewriteFile(n, e) \/ ReplaceFile(n, e)
    \/ RemoveFile(n)

Window ==
  \/ \E t \in Names : SetText(t)
  \/ HashReady \/ HashReadySeal
  \/ \E m \in Editions \cup {None} : StartWrite(m)
  \/ Decline \/ Confirm \/ CancelWrite \/ WriteFinished

HashThread(h) == HashOpen(h) \/ HashRead(h)

Next == Environment \/ Window \/ (\E h \in Hashers : HashThread(h)) \/ Worker

(* The steps the worker takes alone: the dictionary and the image file.      *)
Sealing == Lookup \/ SnapshotOpen \/ SnapshotRead \/ SnapshotDone

(* Threads run and the UI thread drains its queue; nobody is obliged to     *)
(* edit a file, press a button or answer a dialog.  WriteFinished competes  *)
(* with hash events for the UI thread, whose queue is first in first out.   *)
Fairness ==
  /\ WF_vars(Sealing)
  /\ WF_vars(HashReadySeal)
  /\ SF_vars(WriteFinished)

(* What the code cannot promise: revalidating and unmounting the target      *)
(* (subprocess.run without a timeout), a write into the pipe of a child that *)
(* does not read, and the prompt of the macOS helper wait without a bound.   *)
(* Liveness beyond the sealing is stated under the premise that they return. *)
CallsReturn == WF_vars(Worker)

Spec == Init /\ [][Next]_vars
FairSpec == Spec /\ Fairness

-----------------------------------------------------------------------------
(* Properties *)

Prefix(s, t) == Len(s) <= Len(t) /\ \A k \in 1..Len(s) : s[k] = t[k]

JobType ==
  [pc : {"none", "lookup", "open", "copy", "seal", "prepare", "write", "measure",
         "verify", "done"},
   path : Names, approved : Seals \cup {None}, src : Inodes \cup {None},
   limit : Nat, snap : Contents, written : Contents, checked : Nat,
   result : {"none", "ok", "failed", "cancelled"}]

(* Every variable keeps its type: the window, the threads, the dictionary of *)
(* seals (_boot_it_source_seals) and the worker.                             *)
TypeOK ==
  /\ dir \in [Names -> Inodes \cup {None}]
  /\ bytes \in [Inodes -> Contents]
  /\ stamp \in [Inodes -> Nat] /\ edits \in Nat
  /\ text \in Names
  /\ digest \in Contents \cup {None}
  /\ imgStat \in (Nat \X Nat) \cup {None}
  /\ hasher \in [Hashers -> HashRuns \cup {None}]
  /\ posted \in Seq(Events)
  /\ ready \in [path : Names, digest : Contents] \cup {None}
  /\ seals \in [Names -> Seals \cup {None}]
  /\ gui \in {"idle", "confirm", "busy"}
  /\ cancel \in BOOLEAN
  /\ job \in JobType
  /\ job.pc \in {"copy", "seal"} => job.src # None
  /\ required \in Contents \cup {None}
  /\ gateSeal \in Seals \cup {None}
  /\ edited \subseteq {"write", "verify"}

(* snapshot_verified_source and the streaming writer: however other programs *)
(* edit, replace or tear the file, a sealed write puts on the target only    *)
(* the approved bytes in order, and reports success only when all of them    *)
(* were written and read back.                                               *)
SealedBytes ==
  Sealed =>
    /\ Prefix(job.written, job.approved.digest)
    /\ job.result = "ok" =>
         job.written = job.approved.digest /\ job.checked = Len(job.written)

(* The manifest gate and the seal are separate layers with separate state    *)
(* (_boot_it_image_digest; the seals dict).  When the seal the worker takes  *)
(* is the one that was there when the gate was passed, the target receives   *)
(* the bytes the manifest lists and no others.                               *)
GateBindsTarget ==
  required # None /\ Sealed /\ job.approved = gateSeal =>
    /\ Prefix(job.written, required)
    /\ job.result = "ok" => job.written = required

(* hash_ready: between two handlers, the digest the gate would compare and   *)
(* the seal the worker would honour are digests of the same bytes.           *)
GateAndSealAgree ==
  ready = None /\ digest # None /\ seals[text] # None => seals[text].digest = digest

Early == {"lookup", "open", "copy", "seal", "prepare"}

(* What an unsealed target and the file at the path have in common.           *)
Agrees(file) == \A k \in 1..job.checked : k <= Len(job.written) => job.written[k] = file[k]

(* Without a seal dd, the stat and cmp each read the path for themselves      *)
(* (linux_write, linux_verify).  When nobody has changed the file since the   *)
(* stat, success means that all of the file was compared and that nothing     *)
(* that was written differs from it; when nobody has since dd opened it,      *)
(* that what was written is the file, no more and no less.                    *)
UnsealedMatches ==
  ~Sealed /\ job.result = "ok" /\ "verify" \notin edited =>
    LET file == bytes[dir[job.path]]
    IN /\ IsFile(job.path) /\ job.checked = Len(file) /\ Agrees(file)
       /\ "write" \notin edited => job.written = file

Clean == job.pc = "done" /\ job.result # "ok" /\ job.written = << >>

(* A cancel that arrives while the source is being sealed ends the operation *)
(* with no byte written, by the worker's own steps alone (cancel_check of    *)
(* the copy); one that arrives before the worker has looked, or while the    *)
(* target is being prepared, does so when those calls return, because each   *)
(* is followed by _check_cancel.                                             *)
EarlyCancelIsClean ==
  /\ (cancel /\ job.pc \in {"open", "copy", "seal"}) ~> Clean
  /\ CallsReturn => ((cancel /\ job.pc \in Early) ~> Clean)

(* As long as the calls it waits for return, every confirmed write comes to  *)
(* an end and gives the window back (completed is emitted on every path of   *)
(* worker_run, and handled whatever hash events queue up).                   *)
WriteEnds == CallsReturn => (gui = "busy" ~> gui = "idle")

(* docs/CHECKSUM_PROVENANCE.md: once a manifest is selected, a successful    *)
(* match is required before the write.  Here for sealed writes: what they    *)
(* put on the target is what the gate matched.                               *)
ManifestBindsTarget == required # None /\ Sealed => Prefix(job.written, required)

-----------------------------------------------------------------------------
(* The inductive invariant behind SealedBytes, GateAndSealAgree and          *)
(* GateBindsTarget: see SourceSealProofs.                                    *)

(* Only unpadded texts name files, so only they are hashed and gated. *)
PathsAreReal ==
  /\ \A n \in Names : IsFile(n) => Strip[n] = n
  /\ \A h \in Hashers : hasher[h] # None => Strip[hasher[h].path] = hasher[h].path
  /\ \A k \in 1..Len(posted) : Strip[posted[k].path] = posted[k].path
  /\ digest # None => Strip[text] = text

(* Inside the handler the shown path has no seal and the digest is new. *)
HandlerInv ==
  /\ GateAndSealAgree
  /\ ready # None => /\ ready.path = text /\ digest = ready.digest
                     /\ seals[text] = None

GateInv == required # None /\ gateSeal # None => gateSeal.digest = required

JobInv ==
  /\ gui # "busy" => job.pc = "none"
  /\ job.pc \in {"none", "lookup", "measure"} => ~Sealed
  /\ job.pc \in Early \cup {"none"} => job.written = << >>
  /\ job.pc \in Early \cup {"none", "write"} => job.checked = 0
  /\ job.pc # "done" => job.result = "none"
  /\ Sealed /\ job.pc \in {"prepare", "write", "verify"} => job.snap = job.approved.digest
  /\ Sealed /\ job.pc = "write" => Prefix(job.written, job.snap)
  /\ Sealed /\ job.pc = "verify" =>
       job.written = job.snap /\ job.limit = Len(job.snap) /\ job.checked <= job.limit
  /\ SealedBytes

IInv == PathsAreReal /\ HandlerInv /\ GateInv /\ JobInv

(* The one behind UnsealedMatches: what the target and the file at the path  *)
(* have in common in each phase, for as long as nobody changes the file.     *)
UnsealedInv ==
  ~Sealed =>
    LET file == bytes[dir[job.path]]
    IN /\ job.pc \in {"none", "lookup", "prepare", "measure"} => job.src = None
       /\ job.pc = "write" =>
            IF job.src = None THEN job.written = << >>
            ELSE "write" \notin edited =>
                   job.src = dir[job.path] /\ Prefix(job.written, file)
       /\ job.pc = "measure" =>
            /\ job.checked = 0
            /\ "write" \notin edited => IsFile(job.path) /\ job.written = file
       /\ job.pc = "verify" /\ "verify" \notin edited =>
            /\ IsFile(job.path) /\ job.src \in {None, dir[job.path]}
            /\ job.limit = Len(file) /\ job.checked <= job.limit /\ Agrees(file)
            /\ "write" \notin edited => job.written = file
       /\ UnsealedMatches

=============================================================================
