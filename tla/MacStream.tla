------------------------------ MODULE MacStream ------------------------------
(***************************************************************************)
(* The macOS writer: _run_privileged_stream feeds an image through a FIFO  *)
(* to dd (or to cmp, for verification).  There are three processes: the    *)
(* WriteWorker thread (the parent), osascript (the wrapper), which asks    *)
(* for the administrator's password and waits, and the helper dd or cmp,   *)
(* which the system starts as root.  The parent can end the wrapper but    *)
(* not the helper, which only the end of its input stops.                  *)
(***************************************************************************)
EXTENDS Naturals

CONSTANTS
  Size,        \* chunks in the source
  ChunkUnits,  \* FIFO-sized pieces in a chunk
  FifoCap      \* pieces the FIFO holds

ASSUME MacAssumption ==
  /\ Size \in Nat /\ ChunkUnits \in Nat \ {0} /\ FifoCap \in Nat \ {0}

VARIABLES
  mode,     \* "write" (dd) or "verify" (cmp -n)
  pc,       \* the parent: where it is in the function
  back,     \* where _stop_privileged_process was called: "open" or "settle"
  aborted,  \* an OperationCancelled was caught
  broken,   \* broken_pipe
  sent,     \* chunks sent
  left,     \* pieces of the current chunk still to be written
  outcome,  \* of the function: "none", "ok", "cancelled", "error"
  fd,       \* the parent's end of the FIFO is open
  fifo,     \* pieces in the FIFO
  wrapper,  \* "prompt", "wait" (for the helper), "exited"
  code,     \* exit status of helper and wrapper: "zero" or "nonzero"
  signal,   \* a signal is pending for the wrapper
  helper,   \* "none", "started", "blocked" (opening the FIFO), "run", "sync", "gone"
  stuck,    \* the helper is in an uninterruptible wait
  used,     \* pieces the helper has written to, or compared with, the target
  cancel    \* the worker's cancel event

parent == <<pc, back, aborted, broken, outcome>>
feed == <<sent, left, fd>>
script == <<wrapper, signal>>
disk == <<helper, stuck, used>>
vars == <<mode, parent, feed, fifo, script, code, disk, cancel>>

Total == Size * ChunkUnits

-----------------------------------------------------------------------------
(* The parent *)

Goto(p) == pc' = p /\ UNCHANGED <<back, aborted, broken, outcome>>
Abort == pc' = "close" /\ aborted' = TRUE /\ UNCHANGED <<back, broken, outcome>>
Finish(r) == pc' = "done" /\ outcome' = r /\ UNCHANGED <<back, aborted, broken>>
Stop(from) == pc' = "stop" /\ back' = from /\ UNCHANGED <<aborted, broken, outcome>>

(* _open_fifo_writer: a nonblocking open works once the helper is opening    *)
(* its end; until then the loop looks at the cancel event and at the wrapper.*)
CancelOpen ==
  /\ pc = "open" /\ cancel
  /\ Stop("open")
  /\ UNCHANGED <<mode, feed, fifo, script, code, disk, cancel>>

OpenFifo ==
  /\ pc = "open" /\ ~cancel /\ helper = "blocked"
  /\ fd' = TRUE /\ helper' = "run"
  /\ Goto("loop")
  /\ UNCHANGED <<mode, sent, left, fifo, script, code, stuck, used, cancel>>

OpenFails ==
  /\ pc = "open" /\ ~cancel /\ helper # "blocked" /\ wrapper = "exited"
  /\ Finish("error")
  /\ UNCHANGED <<mode, feed, fifo, script, code, disk, cancel>>

(* Between chunks, and before each piece in _write_nonblocking. *)
Uninterruptible == FALSE
CancelStream ==
  /\ pc \in {"loop", "push"} /\ cancel
  /\ Abort
  /\ UNCHANGED <<mode, feed, fifo, script, code, disk, cancel>>

ReadPastEnd ==
  /\ pc = "loop" /\ ~cancel
  /\ IF sent <= Size THEN Goto("push") /\ left' = ChunkUnits ELSE Goto("close") /\ UNCHANGED left
  /\ UNCHANGED <<mode, sent, fd, fifo, script, code, disk, cancel>>
ReadChunk ==
  /\ pc = "loop" /\ ~cancel
  /\ IF sent < Size THEN Goto("push") /\ left' = ChunkUnits ELSE Goto("close") /\ UNCHANGED left
  /\ UNCHANGED <<mode, sent, fd, fifo, script, code, disk, cancel>>

(* A full FIFO makes the parent select for 0.1 s and look again. *)
PushPiece ==
  /\ pc = "push" /\ ~cancel /\ helper # "gone" /\ fifo < FifoCap
  /\ fifo' = fifo + 1
  /\ left' = left - 1
  /\ IF left = 1 THEN Goto("loop") /\ sent' = sent + 1 ELSE UNCHANGED <<parent, sent>>
  /\ UNCHANGED <<mode, fd, script, code, disk, cancel>>

Break ==
  /\ pc = "push" /\ ~cancel /\ helper = "gone"
  /\ pc' = "close" /\ broken' = TRUE
  /\ UNCHANGED <<mode, back, aborted, outcome, feed, fifo, script, code, disk, cancel>>

(* The finally clause closes the descriptor, which nothing else would do. *)
KeepOpen ==
  /\ pc = "close"
  /\ Goto(IF aborted THEN "settle" ELSE "communicate")
  /\ UNCHANGED <<mode, feed, fifo, script, code, disk, cancel>>
CloseFifo ==
  /\ pc = "close"
  /\ fd' = FALSE
  /\ Goto(IF aborted THEN "settle" ELSE "communicate")
  /\ UNCHANGED <<mode, sent, left, fifo, script, code, disk, cancel>>

(* What the parent demands once the wrapper has exited.  communicate() waits *)
(* for that without a limit, and without a look at the cancel event.         *)
SentOnly == sent = Size
Complete == code = "zero" /\ ~broken /\ sent = Size

Communicate ==
  /\ pc = "communicate" /\ wrapper = "exited"
  /\ Finish(IF Complete THEN "ok" ELSE "error")
  /\ UNCHANGED <<mode, feed, fifo, script, code, disk, cancel>>

(* _settle_cancelled_process: five seconds for the helper to see the end.    *)
Settled ==
  /\ pc = "settle" /\ wrapper = "exited"
  /\ Finish("cancelled")
  /\ UNCHANGED <<mode, feed, fifo, script, code, disk, cancel>>

SettleTimeout ==
  /\ pc = "settle" /\ wrapper # "exited"
  /\ Stop("settle")
  /\ UNCHANGED <<mode, feed, fifo, script, code, disk, cancel>>

(* _stop_privileged_process *)
Return == IF back = "open" THEN Abort ELSE Finish("cancelled")

Terminate ==
  /\ pc = "stop"
  /\ IF wrapper = "exited" THEN Return /\ UNCHANGED signal ELSE Goto("termWait") /\ signal' = TRUE
  /\ UNCHANGED <<mode, feed, fifo, wrapper, code, disk, cancel>>

Reaped ==
  /\ pc \in {"termWait", "killWait"} /\ wrapper = "exited"
  /\ Return
  /\ UNCHANGED <<mode, feed, fifo, script, code, disk, cancel>>

NoTimeout == FALSE
TermTimeout ==
  /\ pc = "termWait" /\ wrapper # "exited"
  /\ Goto("killWait")
  /\ UNCHANGED <<mode, feed, fifo, script, code, disk, cancel>>

(* The second wait's TimeoutExpired passes through every handler. *)
KillTimeout ==
  /\ pc = "killWait" /\ wrapper # "exited"
  /\ Finish("error")
  /\ UNCHANGED <<mode, feed, fifo, script, code, disk, cancel>>

Parent ==
  \/ CancelOpen \/ OpenFifo \/ OpenFails \/ CancelStream \/ ReadChunk \/ PushPiece \/ Break
  \/ CloseFifo \/ Communicate \/ Settled \/ Terminate \/ Reaped

Clock == SettleTimeout \/ TermTimeout \/ KillTimeout

-----------------------------------------------------------------------------
(* The wrapper *)

Authorize ==
  /\ wrapper = "prompt" /\ ~signal
  /\ wrapper' = "wait" /\ helper' = "started"
  /\ UNCHANGED <<mode, parent, feed, fifo, signal, code, stuck, used, cancel>>

Dismiss ==
  /\ wrapper = "prompt" /\ ~signal
  /\ wrapper' = "exited" /\ code' = "nonzero"
  /\ UNCHANGED <<mode, parent, feed, fifo, signal, disk, cancel>>

(* It passes the helper's exit status on. *)
WrapperExits ==
  /\ wrapper = "wait" /\ helper = "gone" /\ ~signal
  /\ wrapper' = "exited"
  /\ UNCHANGED <<mode, parent, feed, fifo, signal, code, disk, cancel>>

WrapperDies ==
  /\ wrapper # "exited" /\ signal
  /\ wrapper' = "exited" /\ code' = "nonzero"
  /\ UNCHANGED <<mode, parent, feed, fifo, signal, disk, cancel>>

-----------------------------------------------------------------------------
(* The helper: dd or cmp.  Its exit status matters to a living wrapper only. *)

Exit(c) ==
  /\ helper' = "gone"
  /\ code' = IF wrapper = "exited" THEN code ELSE c
  /\ UNCHANGED <<stuck, used>>

(* The FIFO lives in a temporary directory that the parent removes. *)
HelperOpens ==
  /\ helper = "started"
  /\ IF pc = "done" THEN Exit("nonzero") ELSE helper' = "blocked" /\ UNCHANGED <<code, stuck, used>>
  /\ UNCHANGED <<mode, parent, feed, fifo, script, cancel>>

Consume ==
  /\ helper = "run" /\ ~stuck /\ fifo > 0 /\ (mode = "verify" => used < Total)
  /\ fifo' = fifo - 1
  /\ used' = used + 1
  /\ UNCHANGED <<mode, parent, feed, script, code, helper, stuck, cancel>>

(* dd takes the end of the FIFO for the end of the image; cmp -n wants Size. *)
EndOfInput ==
  /\ helper = "run" /\ ~stuck
  /\ \/ /\ mode = "write" /\ fifo = 0 /\ ~fd
        /\ helper' = "sync" /\ UNCHANGED <<code, stuck, used>>
     \/ mode = "verify" /\ used = Total /\ Exit("zero")
     \/ mode = "verify" /\ used < Total /\ fifo = 0 /\ ~fd /\ Exit("nonzero")
  /\ UNCHANGED <<mode, parent, feed, fifo, script, cancel>>

Synced ==
  /\ helper = "sync" /\ ~stuck
  /\ Exit("zero")
  /\ UNCHANGED <<mode, parent, feed, fifo, script, cancel>>

(* An I/O error, no permission for the disk, or a difference cmp finds. *)
HelperFails ==
  /\ helper \in {"run", "sync"} /\ ~stuck
  /\ Exit("nonzero")
  /\ UNCHANGED <<mode, parent, feed, fifo, script, cancel>>

Hang ==
  /\ helper \in {"run", "sync"} /\ ~stuck
  /\ stuck' = TRUE
  /\ UNCHANGED <<mode, parent, feed, fifo, script, code, helper, used, cancel>>

Unhang ==
  /\ stuck
  /\ stuck' = FALSE
  /\ UNCHANGED <<mode, parent, feed, fifo, script, code, helper, used, cancel>>

CancelWrite ==
  /\ pc # "done" /\ ~cancel
  /\ cancel' = TRUE
  /\ UNCHANGED <<mode, parent, feed, fifo, script, code, disk>>

Helper == Consume \/ EndOfInput \/ Synced

-----------------------------------------------------------------------------
Init ==
  /\ mode \in {"write", "verify"}
  /\ pc = "open" /\ back = "open" /\ aborted = FALSE /\ broken = FALSE /\ outcome = "none"
  /\ sent = 0 /\ left = 0 /\ fd = FALSE /\ fifo = 0
  /\ wrapper = "prompt" /\ code = "zero" /\ signal = FALSE
  /\ helper = "none" /\ stuck = FALSE /\ used = 0
  /\ cancel = FALSE

Next ==
  \/ Parent \/ Clock \/ CancelWrite
  \/ Authorize \/ Dismiss \/ WrapperExits \/ WrapperDies
  \/ HelperOpens \/ Helper \/ HelperFails \/ Hang \/ Unhang

Spec == Init /\ [][Next]_vars

(* The worker thread and the clock run.  Nothing is promised about osascript *)
(* or the helper: either may stay for ever, and so may the prompt.           *)
FairSpec == Spec /\ WF_vars(Parent) /\ WF_vars(Clock)

(* A helper that is scheduled and not stuck for ever. *)
HelperServed == SF_vars(Helper) /\ WF_vars(Unhang)

-----------------------------------------------------------------------------
(* Properties *)

(* Types of the state of the three processes; the FIFO never overflows. *)
TypeOK ==
  /\ mode \in {"write", "verify"}
  /\ pc \in {"open", "loop", "push", "close", "communicate", "settle", "stop", "termWait",
             "killWait", "done"}
  /\ back \in {"open", "settle"} /\ aborted \in BOOLEAN /\ broken \in BOOLEAN
  /\ outcome \in {"none", "ok", "cancelled", "error"}
  /\ sent \in 0..Size /\ left \in 0..ChunkUnits /\ fd \in BOOLEAN /\ fifo \in 0..FifoCap
  /\ wrapper \in {"prompt", "wait", "exited"} /\ code \in {"zero", "nonzero"}
  /\ signal \in BOOLEAN
  /\ helper \in {"none", "started", "blocked", "run", "sync", "gone"}
  /\ stuck \in BOOLEAN /\ used \in Nat /\ cancel \in BOOLEAN

(* _run_privileged_stream returns normally only when the root helper, which  *)
(* the parent never sees, has used the whole source and has gone.            *)
OkMeansComplete == outcome = "ok" => helper = "gone" /\ used = Total

(* A cancel ends the operation, and never as a success, from everywhere in   *)
(* the opening and the stream: with an unanswered prompt, a full FIFO or a   *)
(* helper that hangs for ever.  (Past the last chunk communicate() waits.)   *)
CancelEnds ==
  (cancel /\ pc \in {"open", "loop", "push"}) ~> (pc = "done" /\ outcome # "ok")

(* Nobody can signal the helper: that it ends after every outcome rests on   *)
(* the end of its input, if only it gets its turn.  A helper still blocked   *)
(* in the open of the FIFO when the parent gives up is the exception: it     *)
(* has no input to end and has not touched the target.                       *)
NoHelperForever ==
  HelperServed => ((pc = "done" /\ helper \in {"run", "sync"}) ~> helper = "gone")

-----------------------------------------------------------------------------
(* The inductive invariant behind OkMeansComplete: see MacStreamProofs.      *)

Pushed == sent * ChunkUnits + (IF left = 0 THEN 0 ELSE ChunkUnits - left)

(* Every piece that was pushed is in the FIFO or was used. *)
Accounting ==
  /\ used + fifo = Pushed
  /\ left > 0 => sent < Size
  /\ pc = "push" => left > 0 /\ fd
  /\ pc \in {"open", "loop"} => left = 0
  /\ pc = "loop" => fd

(* A helper that ends well has used everything, up to the end of its input;  *)
(* its status reaches the parent only through a wrapper that waited for it.  *)
EndSeen ==
  /\ helper \in {"none", "started", "blocked"} => ~fd /\ used = 0 /\ fifo = 0 /\ sent = 0 /\ left = 0
  /\ helper = "sync" => ~fd /\ fifo = 0
  /\ helper = "gone" /\ code = "zero" => used = Total \/ (~fd /\ fifo = 0)
  /\ wrapper = "exited" /\ code = "zero" => helper = "gone"
  /\ wrapper = "prompt" => helper = "none"

(* The function returns normally from communicate() only. *)
Unwinding ==
  /\ pc # "done" => outcome = "none"
  /\ outcome = "ok" => wrapper = "exited" /\ Complete

IInv == TypeOK /\ Accounting /\ EndSeen /\ Unwinding

=============================================================================
