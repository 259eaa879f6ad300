# Boot It: a TLA+ model of the writer

Boot It writes an ISO or IMG file to a removable USB device and verifies it.
This directory holds TLA+ modules translated from its Python code, TLC
configurations that check them on small instances, and TLAPS proofs of the main
safety properties for all instances. Line numbers refer to the sources beside
this directory.

- [Inventory](#inventory): the parts of the program
- [Modules](#modules): what each module models, and how it maps to the code
- [Runs](#runs): what TLC checks, with which bounds
- [Fairness](#fairness)
- [Theorems](#theorems): what is proved, and along which argument
- [What the model shows about the code](#what-the-model-shows-about-the-code)
- [Limits](#limits)
- [Plan](#plan)

## Inventory

The program is a PySide window, worker threads (`QThread`), and child processes.
The launcher `boot-it.py` installs *runtime layers* over the classes of
`boot_it.py`: each one replaces a method by a closure that calls the previous
one (`_hash_ready`, `start_write`, `WriteWorker.run`, `linux_write`, ...). The
behaviour of a method is therefore the stack of all its layers, which is how
the modules below are written.

| component | state | operations | talks to | hard part | correct when |
|---|---|---|---|---|---|
| Source seal and snapshot (`boot_it_source*.py`) | `seals` dict; a private unlinked snapshot | pop/set a seal on a hash event, look it up, copy and check | hash threads, window, worker, file system | hash events against path edits, file edits during hash and copy | a sealed write puts only approved bytes on the target |
| Linux child processes (`boot_it.py`, `boot_it_source_runtime.py`) | `Popen`, its stdin pipe, `sent` | stream, poll, cancel, terminate | dd, cmp, pkexec, the cancel event | full pipe, hangs, refused signals, timeouts, a cancel at any point | success means the child consumed everything; "cancelled" means it is gone |
| Window and write worker (`boot_it.py`) | drive list, selection, enabled state, worker | refresh, select, start, confirm, cancel, finish, close | discovery, worker, dialogs | a modal dialog delivers queued events; completion on every path | the window always comes back; what was confirmed is what is written |
| Target identity (`boot_it_models.py`, `boot_it.py`) | `DriveInfo` | identity, revalidate | discovery before a write | a path is not a device: swaps between the phases | only the confirmed device is written |
| Linux topology (`boot_it_topology*.py`) | device graph, protected set | climb from each critical mount, classify | lsblk, findmnt | several parents, loops, partial failures | no system disk is offered; nothing else is withheld |
| Windows raw I/O (`boot_it.py`, `boot_it_source_runtime.py`) | raw handle | block loops | WriteWorker | a raw write may accept less than it is given; its result is ignored | as for the session |
| macOS backend (`boot_it_macos.py`) | FIFO, osascript helper; protected disks | plist inventory, climb from "/" to the hardware, stream, settle, eject | diskutil, dd, cmp | nonblocking FIFO, helper that never opens it, 5 s settle; one of many diskutil calls fails | as for the Linux children; the helper ends too; no disk of the system is offered |
| Provenance (`boot_it_provenance.py`, `boot_it_runtime.py`) | manifest, match, digest and stat of the image | parse, match by name, gate | hash events, file system | stale digest, ambiguous names | no write past a manifest that does not match |
| OpenPGP (`boot_it_openpgp.py`, `boot_it_auth_runtime.py`) | key, signature, result | authenticate, invalidate | provenance | two reads of the manifest | no write without the signature that was asked for; no result of other fields |
| Publisher profiles | a fixed table | apply a profile | OpenPGP fields | a profile replaces fields that results rest on | no result survives it |
| Image inspection (`boot_it_image.py`) | none | boot sector, GPT, volume descriptors, file system marks | `validate_image` of the window | a file that is still arriving; ends that coincide | refuses what its own tables say is cut off; takes what is well made |
| Release pipeline (`scripts/release_*.py`, `release.yml`) | runs, bundle, public releases, tags | validate, build, index, verify, publish, verify again | GitHub Actions, gh | failures between any two steps, re-runs, a queue of runs, damaged files | what is public is complete and belongs to its commit |
| Packaging and signing (`scripts/package_artifact.py`, `scripts/windows_authenticode.py`) | none | package, sign, verify, report | the build job | inputs that are partly set | configured signing is not silently dropped |
| Launcher, metadata | none | install the layers, print | - | - | - |

`PROJECT.json` lists the same components with their status, and under `hazards`
each thing that is hard to test, at its line, with the properties that are
about it.

## Modules

```
SourceSeal      --- SourceSealProofs      MCSourceSeal       MCSeal*.cfg
StreamProcess   --- StreamProcessProofs   MCStreamProcess    MCStreamChild.cfg
MacStream       --- MacStreamProofs       MCMacStream        MCMacHelper.cfg
Provenance      --- ProvenanceProofs      MCProvenance       MCProvenanceGates.cfg
TargetSession   --- TargetSessionProofs   MCTargetSession    MCSession*.cfg
    implements VerifiedMedia
Topology, MacTopology --- Discovery --- TopologyProofs
                                          MCTopology         MCTopologyBlocked.cfg
ImageInspection --- ImageProofs           MCImageInspection  MCImage.cfg
ReleaseBundle --- Release --- ReleaseProofs   MCRelease      MCRelease.cfg
```

The components meet in `start_write` and in the write worker. Each module models the whole
control of its own component, and abstracts what the others do to the outcomes
they can have: in `SourceSeal` the target phases are one `Prepare` step and a
stream of chunks; in `TargetSession` an image is one value and a child process
is the blocks it writes; `StreamProcess` and `MacStream` open up one child,
`Discovery` one discovery by the backend of the system (`Topology` on Linux,
`MacTopology` on macOS), `ImageInspection` the look at an image, and `Provenance`
the manifest gate, which in `SourceSeal` is the comparison with one required
digest. `Release` stands apart: it is how the program itself is published.

### SourceSeal

How bytes get from a path in the window to the target. Actors: other programs
(`RewriteFile`, `ReplaceFile`, `RemoveFile`; an edit may keep the mtime),
`HashWorker` threads (`HashOpen`, `HashRead` chunk by chunk, then a queued
event), the UI thread (`SetText`, `HashReady`, `HashReadySeal`, `StartWrite`
with the manifest gate `GateAllows`, `Confirm`, `Decline`, `CancelWrite`,
`WriteFinished`) and the write worker (`Lookup` ... `Verify`).

- `seals` is the dictionary of `install_source_seal`, `digest`/`imgStat` the
  attributes of the provenance layer. They are two records of one hash event,
  set in different layers, cleared at different times: hence `GateAndSealAgree`.
- A hash event is handled in two steps, because the file can change between the
  pop of the seal and `_identity(path)`.
- `StartWrite` is the gate, `Confirm` the dialog's answer. Between them the modal
  dialog runs an event loop, so `HashReady` stays possible, `SetText` does not.
- `text` may be padded (`Strip`): the window hashes and seals the text as typed
  and writes the stripped path.
- A digest is the content it is a digest of (SHA-256 taken as collision free).
- The manifest is the digest it requires of the image, or none. Which entry of
  the file that is belongs to `Provenance`.
- Without a seal, `WriteOpen`, `Measure` and `VerifyOpen` find the path anew, as dd, the
  stat of `linux_verify` and cmp do. `edited` is a history variable: whether another
  program changed a file before that stat or after it.

### StreamProcess

One dd or cmp: streamed through stdin (`_stream_to_process`) or reading the path
itself (`_fixed_linux_write`, `linux_verify`), alone or under pkexec. `pc` is
the parent's place in the function, `raising` the exception on its way out,
`back` the caller `_terminate_process_group` returns to: that function is called
from the body and again from `finally`, and `Escape` is an exception that passes
through both. The pipe holds `PipeCap` pieces, so that `stdin.write` blocks
inside a chunk; the pipe is unbuffered, so that a write which is interrupted by
the child's exit comes back short and is counted as sent (`ShortWrite`). The
child may hang in the kernel, fail, be stuck at the prompt, or have become root,
in which case signals are refused.

### MacStream

`_run_privileged_stream`: three processes, of which the parent sees one. The
parent opens a FIFO without blocking (`OpenFifo`, possible once the helper is
opening its end), pushes pieces, closes, and waits for osascript. osascript (the
`wrapper`) asks for the password and waits for the root helper, dd or cmp. A
cancel ends the wrapper at most; the helper ends at the end of its input. Hence
`fd`, the parent's end, is state, and closing it an action whose omission the
mutant of `NoHelperForever` shows. `settle` and `stop` are
`_settle_cancelled_process` and `_stop_privileged_process`; the latter is called
from two places (`back`).

### Provenance

The manifest and signature part of the window. `Candidates` and `Status` are
`_candidate_entries` and `_verify_entries` on sets of entries; `Lists` is the
reference definition they are compared with. Above them the window: two layers
with fields of their own (`mode`, `fields` of `boot_it_runtime.py`; `authMode`,
`authFields` of `boot_it_auth_runtime.py`), one slot for the checksum result and
one that both layers use for the OpenPGP result. Each edit action clears what the
connected slots clear. A button's handler is a sequence of stages (`todo`: check,
sign, gate) and of reads of the manifest file, between which another program may
rewrite it (`EditManifest`); the UI thread does nothing else meanwhile. `calm` and
`passed` are history variables: the file was left alone since the button was
pressed, and what the gate matched. gpg is a relation (`Genuine`) between the
key and fingerprint in the fields and the contents it accepts; a cleartext-signed
file yields only the lines the signature covers (`Covered`).

### TargetSession and VerifiedMedia

From the drive list to a written device. `port` says what an open of a device
path reaches; the user plugs, unplugs and mounts at any step. The worker opens
the path anew in each phase, as the code does; an open handle belongs to a
device, and is dead once that device is gone. dd as root creates a regular file
when the device has gone (`Open`). A device may acknowledge a block and not keep
it (`WriteBlock`). A raw write on Windows may take less than it is given and be
counted whole, which is such a block too.

A writer may outlive its session (`Unstoppable`, `Abandon`, `OrphanBlock`), and then writes on
as far as its input reaches. On Linux that is a child which has become root and refuses the
signal, or one that hangs beyond SIGKILL's timeout; the session ends as an error. On macOS only
osascript is ended, so that root's dd may use what the FIFO still holds after a clean
"cancelled" too. A helper that a cancel leaves in the open of the FIFO has not opened its
target and gets no input (`MacStream`), so it is no orphan here; a child that is past its prompt
opens its target in the same step (`Open`). cmp left behind writes nothing. One orphan is kept
at a time, which is a bound. `strayed` is a history variable: what the orphan wrote to after
verification had begun, when verification may have passed the block already.

`sealed` says whether the worker found a seal for its image. It matters on Linux, to what a
cancel before the verification does (`LooksFirst`): the sealed stream, the FIFO of macOS and
the loop on Windows look at the event before their first block, whereas the unsealed
`linux_verify` starts cmp and polls it first, so that a cmp which has exited by then is not
asked about a cancel. Closing the window (`CloseEvent`) is
refused while a worker runs, and possible once it has ended, also before its
completion is delivered. `Admin` is the administrator check of `start_write`.

`VerifiedMedia` is the promise: a device changes only during a confirmed write, or by a writer
that such a write left behind when it ended without success; a write and what it leaves
behind change one device and only to the chosen image; success means that a device holds it
all, but for a device that such a writer changed meanwhile (`escaped`).
`TargetSession!KeepsPromise` is that promise under the refinement mapping (`media` restricted to
devices, `phase` from the worker, `target` from the history of writes, `strays` from the orphan,
`escaped` from `strayed`).

### Topology, MacTopology and Discovery

`Topology` is one run of `discover_linux_drives`: the graph (`_flatten`: nesting and
`PKNAME` together), the outcome of findmnt for each critical mount, the climb
(`_ancestors`), the early returns that leave the topology unresolved, and the
classification. `pending` is a set where the code has a list: the order of visits
does not matter to what is reached, and a device that is pending twice is
visited once and then skipped. `backing` is a history variable: the device that
really holds a mount, which findmnt need not name. `source` distinguishes the ways
in which findmnt may not name it: an error, no such mount, a source that is not
under /dev/, a device that is absent from lsblk.

`MacTopology` is one run of `discover_macos_drives`. The search of
`_physical_backing_disks` is recursive; `frames` is the stack of its open calls, each
with the stores it has yet to look at (`todo`) and what it has resolved (`found`), and
`visited` the set that they share. One action is one diskutil call with what follows it:
`LookAtStore` for the loop over APFS stores, `LookAtParent` for the tail call, and
`ReturnResolved`, `ReturnDisk` for the returns in between. Any call may fail: one for "/"
leaves the topology unresolved, one further down is passed over and counted in `lost`.
The order of the stores does not matter, so `todo` is a set. `Worlds` is what diskutil
can say; the only thing assumed of it (`MacAssumption`) is that a physical whole disk is
not itself made of APFS stores. `Holds` and `Leads` are the references: what a volume is
stored on, and what the search may reach from it, without recursion.

`Discovery` is `discover_drives`: one of the two, by `platform.system()`.

### ImageInspection

`validate_image` on a file that is still being copied or downloaded: `image` is what
the file will be in the end, `length` how much of it is there, and every operator of
the inspection is a function of both. A table is abstracted to what the checks
compare: where partitions start and end, where a GPT header says that its
entries and its backup lie, whether its checksums are sound, which volume descriptors
follow each other, and up to which byte a file system mark reaches. `Described` and
`WellMade` are the references. The mark of a file system is assumed to lie within its
own image (`ImageAssumption`); whether it is within the file is what `Hinted` asks.

### ReleaseBundle and Release

`ReleaseBundle` is the files of a release, as a function from names to contents, and
the checks of `release_index.py`. A digest is the content it is a digest of. The
checks are operators, so that the same ones are used before publication and of what
is public.

`Release` is the workflow. A run is a record: what was dispatched, the state of its
jobs, what each build handed over (`package`), and the step that its release job is at
with the files at hand (`bundle`). Runs of the same version queue; one that waits is
replaced by a later one. Any step may fail, a run may be run again (failed jobs only,
or all), maintainers may push the tag first. Files may be lost, damaged, added or
belong to another commit's build when they are downloaded into the release job, and
lost, damaged or added when they are uploaded; `gh release create` may report an error after
the release is out. The typed version may be padded, which `release_contract.py`
strips while the tag of the workflow is not stripped. `whole` is a history field: the
upload changed nothing.

The four Windows signing inputs are `Configs`: absent, all blank, some set, all set.
`ScriptAccepts` is what `windows_authenticode.py` takes, `SigningHolds` adds the second
look of the workflow step, `ReportHolds` the one of `package_artifact.py`.

## Runs

Passing runs:

| run | instance | states | shows |
|---|---|---|---|
| `seal` | one path and its padded form, one inode, contents of two chunks that differ in the first, one hash thread, two file edits, one queued event | 4.8 M | `SealedBytes`, `GateBindsTarget`, `GateAndSealAgree`, `UnsealedMatches` |
| `seal_ends` | as `seal`, with one chunk and one edit, fair | 0.34 M | `WriteEnds`: a confirmed write ends; `EarlyCancelIsClean` |
| `stream` | two chunks of two pieces, a pipe of one piece, every mode | 2.3 k | `OkMeansComplete`, `CancelledMeansStopped`, `CancelEnds`, `NoChildForever` |
| `mac_helper` | two chunks of two pieces, a FIFO of one, dd and cmp, fair | 1.6 k | `OkMeansComplete`, `CancelEnds`, `NoHelperForever` |
| `gates` | two images, one manifest path, five contents, two keys of which one does not fit | 0.37 M | `ResultsAreCurrent`, `GateMatches`, `GateIsSigned` |
| `target` | two devices of different size and fingerprint, one path, images of two and one block, all platforms, one abandoned writer | 2.5 M | `ConfirmedUnlessSwapped`, `SuccessOnTarget`, `EarlyCancelNeverOk` |
| `target_promise` | two devices of different size, one path, images of two and one block, macOS and Windows, one abandoned writer, fair | 0.76 M | `KeepsPromise`, `SessionEnds` |
| `topology` | Linux: two disks, two layers over them stacked in every way and one loop, "/" and "/boot" with every outcome of findmnt. macOS: "/" in a container on one or two partitions of two disks, a nested container, one lost call. Fair | 68 k | three safety properties of Linux, two of macOS, and `EverySystemEnds` |
| `release` | two runs, four commits (two with one version, one with another, one outside main), two platforms, five ways to dispatch, one re-run, one damaged delivery | 0.80 M | `PublicIsConsistent`, `SuccessIsPublished`, `NeverDowngraded` |
| `image` | sectors of two bytes, optical ones of four, images of 11 to 14 bytes with every combination of tables that fit, end one sector beyond the end or are damaged | 0.15 M | `NothingMissing`, `WholeIsAccepted`, `AcceptedStays` |

Runs in which TLC finds a violation of what a document of the repository says:
`seal_swapped` and `target_ghost`; see [below](#what-the-model-shows-about-the-code).

Why the bounds are enough to be of interest:

- *Two chunks* are the least for a torn read: one chunk from before an edit, one
  from after it. *Two edits* are the least in which a stale seal can outlive its
  digest (a hash, an edit, another hash, a removal before the seal is set).
- The contents of `seal` are of one length, so that a rewrite can keep both size and mtime. A
  file that also shrinks or grows between the open of dd, the stat and the open of cmp is the
  matter of the theorem about `UnsealedMatches`.
- One hash thread restarts for each edit of the path, so old and new events do
  mix in the queue; two threads at once, several inodes and any number of edits
  are covered by the theorems, not by the runs.
- A chunk of two pieces over a pipe of one blocks the parent inside a chunk, the
  case in which cancelling, short writes and broken pipes are delicate. A second
  chunk tells a finished chunk from a finished source.
- The five contents of a manifest are the ways to list an image: by name beside a
  path that disagrees, by two paths that disagree, by two names that disagree, by
  a path beside a bare digest, by a single bare digest. The second image is listed
  in none by name. One manifest path is enough, since only the selected one is
  read; the theorems are about any number.
- Two devices on one path make every swap; two images make an abandoned writer of
  another image than the one being written. With a second path the state space is
  out of reach of these runs; the theorems are about any number of paths. Two
  blocks separate a partial image from a whole one, and the smaller device is full
  after one.
- Two layers over two disks are the least with a diamond, a volume on several
  disks and a path of length two; two mounts the least in which one resolves and
  the other does not. On macOS two partitions are the least in which one store is
  found and the other is lost (`MaxLost` is one call), and the nested container and
  the loop through "/" are what the shared visited set is for.
- Two runs of one version are the least that queue for the same tag, one re-run
  (`MaxReruns`) the least in which a run meets the release it has made itself, and
  one damaged delivery (`MaxFaults`, on the files of `Fragile`: a checksum, a manifest
  and the index) the least that a check could miss; damage to two files at once that
  agree with each other is another build's package, and is among the deliveries
  (`Stale`). `Asked` holds a dispatch for each way in which the contract may hold or
  not: exact, padded, wrong version, outside main, prerelease or final. The
  theorems are about any number of each. The runs are symmetric.
- Two optical sectors are the least with a descriptor after the terminator. An image of
  seven sectors has room for a GPT with entries, a partition and a backup in sectors
  of their own, and the file is inspected at every length up to its own.

`CHECK_DEADLOCK` is off except in `gates`: an idle window with its file edits used
up, an ended child, an ended discovery and a repository without further dispatches
may stop.

## Fairness

- `SourceSeal`: weak fairness of the steps that the worker takes alone (`Sealing`: the
  dictionary, and reading the image into the snapshot) and of the step that sets a
  seal (the second half of a handler that runs). Strong fairness of
  `WriteFinished`, which competes with hash events for the UI thread: Qt's queue
  is first in, first out, so it is delivered in the end. Nobody is obliged to
  press a button, answer a dialog or edit a file. Nothing is assumed of the calls
  that the worker waits for without a bound: revalidation and unmounting
  (`subprocess.run` without a timeout, boot_it.py:222 and 251-272), a write into the pipe of
  a child that does not read (boot_it_source_runtime.py:81), a device that does not
  answer, `communicate()` on macOS (boot_it_macos.py:368). That they return is the premise `CallsReturn`
  of `WriteEnds` and of the half of `EarlyCancelIsClean` about the phases around the sealing;
  a cancel during the sealing itself ends the operation without it. Which cancels
  end an operation although a child hangs is `CancelEnds`, of the stream modules.
- `StreamProcess`: weak fairness of the parent, whose thread runs, and of
  `TermTimeout`, since the clock runs; `KillTimeout` is among the parent's
  steps. Nothing is assumed of the child: `CancelEnds` holds
  with a child that hangs for ever. `NoChildForever` is an implication with the
  child's own fairness as premise (it is scheduled, gets its signals, does not
  hang for ever, its prompt is answered), since a process in an uninterruptible
  wait does not end by anything the program does.
- `MacStream`: weak fairness of the parent and of the clock (its three timeouts).
  Nothing is assumed of osascript or the helper, except as the premise of
  `NoHelperForever`.
- `Provenance`, `ImageInspection`, `Release`: only safety.
- `TargetSession`: weak fairness of `WriteFinished` only. Every step of the worker waits for
  one of the calls above, so that `SessionEnds` has the same premise `CallsReturn`: what it shows is
  that no sequence of swaps, cancels and errors leaves the session without a way to go on.
  It ends with the window idle, or closed by the user after the worker has ended.
- `Discovery`: weak fairness of a sequential program. This assumes that lsblk, findmnt
  and diskutil return, since the code calls them without a timeout; what the run shows
  is that the climb over what they said ends.

## Theorems

`tlapm` proves all of these from the ASSUMEs of the modules, for every value of
the constants.

**SourceSealProofs.** `Types`, `Inductive`, `Agreement`, `SealedWrites`,
`GateBinds`, `UnsealedWrites`. The properties are not inductive: `IInv` adds

- `PathsAreReal`: only unpadded texts name files, so everything that is hashed,
  queued or gated has an unpadded path. Without it the stripped path of a write
  could be another text than the one whose digest the gate compared;
- `HandlerInv`: between the pop and the set of a seal the shown path has none, and
  the digest of the gate is that of the event in the handler;
- `GateInv`: a seal that exists at the gate is of the bytes the gate required
  (from `GateAndSealAgree`);
- `JobInv`: what the worker holds at each place, in particular that the snapshot
  is the approved digest from `prepare` on, that `written` is a prefix of it, and
  equal to it when verification begins.

There is one lemma per conjunct, with one step per action. `UnsealedWrites` has an invariant of
its own, `UnsealedInv`: what the target and the file at the path have in common in each phase of
an unsealed write (a prefix while dd writes, all of it at the stat, the compared part under cmp), as long as
`edited` says that nobody changed a file. `CancelNeverWrites` and
`WriteIsFinite`: see the paragraph on endings below.

**StreamProcessProofs.** `Types`, `Inductive`, `OkComplete`, `CancelledStopped`,
`CancelIsShort`.
The parent counts chunks it put into the pipe, the child pieces it used.
`Accounting` ties them: while the child lives, used + piped = pushed. `EndSeen`:
a child that took the end of input for the end of the source used all that was
pushed. `Unwinding`: no exception leaves the function as success. `OkComplete`
follows: `sent = Size` and the child's exit code zero give `used = Total`, even
with short writes, because a short write means that the child had exited before
its input ended, and dd and cmp then exit nonzero.

**MacStreamProofs.** `Types`, `Inductive`, `OkComplete`, `CancelIsShort`. Most steps of the parent
move no bytes (`QuietSteps`). `Accounting`: used + in the FIFO = pushed. `EndSeen`: a
helper that ended well used all, or saw the end of a closed and empty FIFO, and its
status reaches the parent only through a wrapper that waited for it; so an exit
status zero together with `sent = Size` means that everything was used.

**ProvenanceProofs.** `VerifiedMeansListed` is about the pure algorithm: for every
name, digest and set of entries, the cascade in `_candidate_entries` with the
comparison in `_verify_entries` accepts exactly what `Lists` says. `Inductive`,
`Types`, `ResultsCurrent`, `GateMatching`, `GateSigned` are about the window.
`StepInv` says what each step between two reads rests on, `StageInv` what
`authenticate()` has established when only the gate is left; an edit of a file
ends `calm`, so each of them is about the file as it is now or promises nothing.
There is one lemma per step, and one (`MatchKeeps`) for what a match may lead to.

**TargetSessionProofs.** `TypeCorrect`, `ConfirmedTarget`, `SuccessIsOnTarget`,
`EarlyCancelIsNoSuccess`, `Refinement`, `SessionIsFinite`. The first four rest on one
invariant:

- `Identity`: what a phase has open is the vetted device, as long as its path has not
  been re-plugged since the revalidation;
- `Reach`: under the same condition a write only reaches that device;
- `Progress`: the blocks that verification has passed hold the image, as long as
  nothing but the session wrote to the device;
- `CancelSeen`: the step into verification is the last at which a cancel is seen, by all
  writers but the unsealed one on Linux, which `EarlyCancelNeverOk` excepts.

`Refinement` says that every behaviour is one of `VerifiedMedia`, the writers that macOS leaves
behind included, from the assumption that Linux is not among the platforms: there dd may create
a file in place of a device (`target_ghost`), so the promise does not hold. Its own invariant says that a
session touches one device at most (`OneTarget`) and that verification reads one device,
whichever it is (`Verified`). A step of the orphan is one of `VerifiedMedia`'s stray writer, on
the device and with the image it was left behind with (`StrayStep`).

**TopologyProofs.** On Linux: `Types`, `Inductive`, `SystemSafe`, `NothingElseBlocked`,
`Closes`. `Climbing` says that the visited set is closed under parents up to
what is pending, and that everything in it is forced by the start; `Protecting`
carries that over the mounts, and `Truthful` says when the source that findmnt names
is the device that really holds the mount. `Backs` is defined without recursion (every
closed set that holds the source holds the disk), which is what makes the theorem about
arbitrary graphs provable.

On macOS: `MacInductive`, `MacSystemSafe`, `MacCloses`, for every arrangement of disks that
diskutil can describe, loops included, and any number of failing calls. `MacInv` is about
the stack:

- `FoundBelow`: "/" leads to every node that was visited, and what a call has found is
  physical and was visited; a call whose node has no stores has found nothing, so that
  only a call in its loop over the stores has an open call above it;
- `AllPursued`: as long as no call was lost, what a visited node is stored on was visited
  too, or is still in the `todo` of an open call, or is the parent that such a call will
  turn to. With an empty stack that makes the visited set closed;
- `NoneForgotten`: a physical disk that was visited is on the stack, as the node of a call
  or in what one has found, until it is in the protected set. This is what a return of the
  wrong set, or a loop that ends at the first store, would break.

Each return hands back a set with what its call had found and its own disk, if it is one;
`CallReturns` is the one lemma about that, for a return to the loop of a caller and for
the last one. `DiscoverySafe` takes the theorems of both systems to `discover_drives`.

**ImageProofs.** `Inductive`, `CutsNoticed`, `WholeTaken`, `AcceptanceLasts`, for every
sector size, set of marks and set of images. A verdict is about a length (`at`) that the file
had, which is a prefix of the image for good; the rest is arithmetic on whole sectors
(`WholeSectors`: k sectors are in n bytes exactly when k times their size is at most n).
Each part of the inspection keeps what it accepts as the length grows (`MbrGrows`,
`GptGrows`, `OpticalGrows`, `HintGrows`), once the two sectors with the tables are there. The
premise `at >= 2 * Sector` says that; in the program the minimum of 1 MiB (`MinSize`) implies
it; on the instance, where `MinSize` is no more than a sector, it does not.

**ReleaseProofs.** `Inductive`, `Types`, `Consistent`, `GreenIsPublished`,
`SigningLasts`, for any number of runs, commits, platforms, re-runs and damaged deliveries. The invariant:

- `Filed`: the contract among the files of a job is its own, or is damaged;
- `Built`: once indexed, the files are complete and the tag is the exact version of a
  commit of main: the typed version agrees with a contract whose version was stripped,
  hence was not padded;
- `Sound`: what is public is what was built, unless it would not pass another
  verification (`DamageIsSeen`, about the pure checks);
- `Done`: so the run that sees its release pass has published what it built. A tag
  made by a release (`OwnTag`) leads to that release's commit.

`SigningLasts` rests on a second invariant, `SigningInv`, which follows an executable from its
build to the release:

- `Packaged`: what a build hands over is an executable of the run's commit, labelled with
  its platform or with none, and signed when signing was configured;
- `GenuineFiles`: among files that nobody has checked, a manifest that names the run's
  commit can only come from a build of that commit, so what it describes may ship. Files
  that were damaged, added or taken from another build cannot forge one;
- `ShipFiles`: so once the index has been built, and the manifests therefore agree with the
  executables, every executable may ship, and stays so up to the release.

**Endings.** Each liveness property about an ending has a half that is safety: every step
of the actor that is to end brings it nearer. That half is proved, as an action property with
a measure, for every value of the constants; TLC checks the other half, that under the
fairness assumed the steps are taken (that some step is enabled wherever the actor has not
ended, and that the scheduler does not starve it).

| theorem | for | a step may only |
|---|---|---|
| `SourceSealProofs!CancelNeverWrites` | `EarlyCancelIsClean` | stay before the write, or end without success and with nothing written |
| `SourceSealProofs!WriteIsFinite` | `WriteEnds` | go on to a later phase, open the source of this one, or do one chunk more of those there are |
| `TargetSessionProofs!SessionIsFinite` | `SessionEnds` | go on to a later phase or to the next block, with the drive and the image that were confirmed |
| `StreamProcessProofs!CancelIsShort` | `CancelEnds` (Linux) | lower `Stage`, of which there are eleven, wherever the child, the prompt and the pipe are |
| `MacStreamProofs!CancelIsShort` | `CancelEnds` (macOS) | lower `Stage`, never into `communicate`, and not to a success |
| `TopologyProofs!ClimbEnds` | `EverySystemEnds` (Linux) | go on to the next mount, climb to a device not seen for this mount, or drop one that was |
| `TopologyProofs!SearchEnds` | `EverySystemEnds` (macOS) | go on to the next stage, call for a node not visited, look at one store less, or return to a caller |

The last two say that a loop in the device graph, or among APFS stores and parents, does not
keep a discovery going: with finitely many devices there are finitely many steps.

Only model-checked, all of them liveness: `WriteEnds`, `EarlyCancelIsClean`, `SessionEnds`,
`CancelEnds` (of both children), `EverySystemEnds`, beyond the halves above, and
`NoChildForever` and `NoHelperForever`.

## What the model shows about the code

| run | the document says | what the code does |
|---|---|---|
| `seal_swapped` | CHECKSUM_PROVENANCE.md:35, a write requires a successful match | the gate compares when the button is pressed; a hash event delivered during the dialog replaces the seal, and the worker takes the new one |
| `target_ghost` | README.md:18, every successful write is verified | dd creates a regular file at the path of a missing device, which then verifies |

Observations without a run of their own. About writing:

- README.md:17 says that cancelled writes are never presented as successful. A cancel after an
  unsealed write on Linux, before its verification, is not seen when cmp exits before
  `linux_verify` first looks, or within the 0.1 s between two looks (boot_it.py:370), and the operation
  is reported as successful: verified, but not cancelled. `EarlyCancelNeverOk` excepts it.
- On macOS a cancel ends osascript; root's dd may write the rest of the FIFO to the device after
  "cancelled" has been reported (boot_it_macos.py:251-271). `VerifiedMedia` has such a writer as
  an actor of its own.
- README.md:16 says that Linux child process groups are terminated. A child that has
  become root refuses the signal; the `PermissionError` escapes
  `_terminate_process_group` and the child lives on until its input ends
  (`NoChildForever`, `CancelledMeansStopped` is about the result "cancelled" only).
- README.md:90 says that system disks are excluded. A critical mount whose source is not
  under /dev/ (and which is not "/") is skipped without a reason on the drives;
  `SystemDisksBlocked` excepts exactly these.
- On macOS, a diskutil call that fails for one of several physical stores leaves the disk
  behind that store unprotected, while the others make the topology count as
  resolved (boot_it_macos.py:68); `MacRootProtected` carries the exception.
- docs/SOURCE_STREAMING.md:37 says of the GUI that the path is not reopened for
  either phase. A write confirmed before the hash event, after a failed hash or
  for a padded path has no seal, and dd and cmp open the path (`Lookup`). On this
  path `linux_verify` measures the file again, so a file that shrank after the
  write is verified up to its new size only (`UnsealedMatches` promises more only
  when the file was left alone).
- README.md:116 says that a replacement device does not inherit an earlier
  decision. After revalidation only the path is used; `ConfirmedUnlessSwapped`
  carries the exception in its name.
- The exception in `SuccessOnTarget` is real: a writer left behind by a cancelled
  session can write to the device beside the next session, after the blocks it
  damages have been compared. What it writes before the verification begins is noticed.
- docs/CHECKSUM_PROVENANCE.md:27 calls paths that share the basename and disagree
  ambiguous. An entry of exactly the name decides alone, whatever the paths say
  (`Lists`).
- The first layer's OpenPGP label turns green in `authenticate_manifest`, before
  the signed text is compared with the image; the second layer avoids that order
  on purpose (boot_it_auth_runtime.py:90). The write is blocked all the same.
- Both layers name a method `_boot_it_browse_signature`. The first layer's
  "Signature…" button is connected by that name when the window is built, after
  the second layer has replaced it, so it fills in the field of the second layer.
  The model has no widgets; the edit this makes is one of `ConfigureAuth`.

About images. `NothingMissing` is about what a partition table describes. A truncated
.iso whose volume descriptors are there, a truncated image that begins with a file system
(ext, NTFS or FAT boot sector), and a download into a pre-allocated file whose head has
arrived are accepted: the inspection does not read the size of a volume, and the
end of a sparse file is there. UDF descriptors behind the ISO 9660 terminator, as bridge
images have them, are not reached by the scan. The image is inspected when a button is
pressed, and not again before the worker opens it; what is written of it is the matter of
`SourceSeal`.

About releases:

- docs/RELEASES.md:24 says that collisions fail. A release that exists makes
  `gh release create` fail (`MayCreate`, external); a tag that exists without a release
  does not: gh uses it as it is, whatever commit it leads to. `SuccessIsPublished`
  excepts the tags that maintainers pushed.
- The release is public before it is downloaded and verified again. When that fails,
  or only the job's runner does, a re-run meets its own release and is refused for good,
  so the repair is by hand.
- A checksum sidecar may be about another file of the release than the one it is named
  after: its entry has to be true and there have to be as many sidecars as platforms.
- `sha256sum --check` passes over lines that do not parse, as long as one does; the
  damaged sidecar is caught by `_parse_checksum` when the index is built.

About cancelling. `CancelEnds` excludes a cancel that finds the parent in `stdin.write`: with an
unanswered pkexec prompt or a hung device and a full pipe, the code has no bound
for that wait. On macOS the same holds for `communicate()` after the last chunk.
`NoHelperForever` excepts a helper that a cancel left in the open of the FIFO: it
has no input to end.

## Limits

Not modelled, and why:

- `scripts/qualify_macos_usb.py` (a manual check on real hardware) and
  `scripts/package_macos_app.py` (no workflow publishes its result): straight-line scripts
  around external tools, without state between two calls.
- The launcher `boot-it.py`, `boot_it_meta.py` and the runtime installers: they install
  the layers in a fixed order, which is built into `SourceSeal!HashReady` and
  `Provenance`.
- The lifetime of Qt objects: a superseded `HashWorker` loses its Python reference while
  it runs, and whether its thread object is destroyed is up to PySide.
- The page cache through which cmp reads the device; whether it is dropped depends on
  what other openers do.
- A btrfs on several devices: findmnt names one member, and lsblk does not relate the
  others to it.
- Texts: progress, log, dialogs, the summary of an image, the hash label of the window, and
  the syntax of lsblk, plist and checksum lines beyond what they are parsed to.

Collision freedom of SHA-256 is assumed. GitHub Actions and gh are modelled as far as
the workflow relies on them: jobs run after the jobs they need, a concurrency group holds one
run and one waiting run, a release can be created once for a tag.

Out of the prover's reach: liveness under fairness, `ENABLED`, and induction over
data. No module declares a recursive operator: searches are a pending set (`Topology`) or a
stack (`MacTopology`), and what they find is stated by closed sets.

## Plan

Done, in this order of importance: the bytes (`SourceSeal`), the children
(`StreamProcess`, `MacStream`), the device (`TargetSession`, `VerifiedMedia`), what
may be offered at all (`Topology`, `MacTopology`, `Discovery`), what a write must pass
(`Provenance`, `ImageInspection`), how the program is published (`ReleaseBundle`,
`Release`).

Next:

1. A composition of `SourceSeal` and `TargetSession` in which the worker is one: the
   approved bytes on the confirmed device.
