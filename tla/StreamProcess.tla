---------------------------- MODULE StreamProcess ----------------------------
(***************************************************************************)
(* One child process of the Linux writer: dd, or cmp for verification,     *)
(* alone or under pkexec, driven by a WriteWorker thread.  The sealed      *)
(* source is pushed into the child's stdin chunk by chunk                  *)
(* (_stream_to_process); an unsealed one is opened by the child itself and *)
(* the parent only polls (_fixed_linux_write, linux_verify).  The user may *)
(* cancel at any moment, may leave the pkexec prompt unanswered, and the   *)
(* device may leave the child in an uninterruptible wait.                  *)
(***************************************************************************)
EXTENDS Naturals

CONSTANTS
  Size,        \* chunks in the source
  ChunkUnits,  \* pipe-sized pieces in a chunk
  PipeCap      \* pieces the pipe holds

ASSUME StreamAssumption ==
  /\ Size \in Nat /\ ChunkUnits \in Nat \ {0} /\ PipeCap \in Nat \ {0}

VARIABLES
  mode,      \* "write" (dd) or "verify" (cmp -n)
  streamed,  \* the source is fed through stdin
  elevated,  \* the command runs under pkexec
  pc,        \* the parent: where it is in the function
  back,      \* which caller _terminate_process_group returns to
  raising,   \* the exception on its way out: "none", "cancelled", "error"
  sent,      \* chunks counted as sent
  inflight,  \* pieces of the current chunk still to be written
  pipe,      \* pieces in the pipe
  stdin,     \* the parent's end of the pipe is open
  child,     \* "prompt" (pkexec asks), "run", "sync" (conv=fsync), "exited"
  code,      \* exit status once exited: "zero" or "nonzero"
  stuck,     \* the child is in an uninterruptible wait
  signal,    \* a signal is pending for the child
  used,      \* pieces the child has written to, or compared with, the target
  cancel,    \* the worker's cancel event
  outcome    \* of the function: "none", "ok", "cancelled", "error"

setup == <<mode, streamed, elevated>>
parent == <<pc, back, raising, outcome>>
feed == <<sent, inflight, stdin>>
process == <<child, code, stuck, signal, used>>
vars == <<setup, parent, feed, pipe, process, cancel>>

Total == Size * ChunkUnits

Exited == child = "exited"

-----------------------------------------------------------------------------
(* The parent, in _stream_to_process and the polling loops *)

Call(from) == pc' = "terminate" /\ back' = from

CheckCancel ==
  /\ pc \in {"loop", "wait"} /\ cancel
  /\ pc = "wait" => ~Exited
  /\ raising' = "cancelled"
  /\ Call("body")
  /\ UNCHANGED <<setup, outcome, feed, pipe, process, cancel>>

ReadPastEnd ==
  /\ pc = "loop" /\ ~cancel
  /\ IF sent <= Size
       THEN pc' = "push" /\ inflight' = ChunkUnits
       ELSE pc' = "close" /\ UNCHANGED inflight
  /\ UNCHANGED <<setup, back, raising, outcome, sent, stdin, pipe, process, cancel>>

ReadChunk ==
  /\ pc = "loop" /\ ~cancel
  /\ IF sent < Size
       THEN pc' = "push" /\ inflight' = ChunkUnits
       ELSE pc' = "close" /\ UNCHANGED inflight
  /\ UNCHANGED <<setup, back, raising, outcome, sent, stdin, pipe, process, cancel>>

(* stdin.write blocks while the pipe is full, whatever the cancel event says. *)
PushPiece ==
  /\ pc = "push" /\ ~Exited /\ pipe < PipeCap
  /\ pipe' = pipe + 1
  /\ inflight' = inflight - 1
  /\ IF inflight = 1
       THEN pc' = "loop" /\ sent' = sent + 1
       ELSE UNCHANGED <<pc, sent>>
  /\ UNCHANGED <<setup, back, raising, outcome, stdin, process, cancel>>

(* stdin is unbuffered: when the child goes away in the middle of a chunk,   *)
(* write returns a short count, which nobody looks at.                       *)
ShortWrite ==
  /\ pc = "push" /\ Exited /\ inflight < ChunkUnits
  /\ sent' = sent + 1
  /\ inflight' = 0
  /\ pc' = "loop"
  /\ UNCHANGED <<setup, back, raising, outcome, stdin, pipe, process, cancel>>

BrokenPipe ==
  /\ pc = "push" /\ Exited /\ inflight = ChunkUnits
  /\ pc' = "close"
  /\ UNCHANGED <<setup, back, raising, outcome, feed, pipe, process, cancel>>

CloseInput ==
  /\ pc = "close"
  /\ stdin' = FALSE
  /\ pc' = "wait"
  /\ UNCHANGED <<setup, back, raising, outcome, sent, inflight, pipe, process, cancel>>

(* What the parent demands of a child that has exited. *)
SentOnly == streamed => sent = Size
Complete == code = "zero" /\ (streamed => sent = Size)

CheckStatus ==
  /\ pc = "wait" /\ Exited
  /\ raising' = IF Complete THEN "none" ELSE "error"
  /\ pc' = "finally"
  /\ UNCHANGED <<setup, back, outcome, feed, pipe, process, cancel>>

Leave ==
  /\ pc = "finally"
  /\ IF Exited
       THEN /\ pc' = "done"
            /\ outcome' = IF raising = "none" THEN "ok" ELSE raising
            /\ UNCHANGED back
       ELSE Call("finally") /\ UNCHANGED outcome
  /\ UNCHANGED <<setup, raising, feed, pipe, process, cancel>>

-----------------------------------------------------------------------------
(* _terminate_process_group *)

(* The child shares the parent's real uid until pkexec has authorized it. *)
MaySignal == ~elevated \/ child = "prompt"

(* A return, or an exception that no handler of the function catches. *)
Return ==
  IF back = "body"
    THEN pc' = "finally" /\ UNCHANGED <<raising, outcome>>
    ELSE pc' = "done" /\ outcome' = raising /\ UNCHANGED raising
Escape ==
  /\ raising' = "error"
  /\ IF back = "body"
       THEN pc' = "finally" /\ UNCHANGED outcome
       ELSE pc' = "done" /\ outcome' = "error"

Terminate ==
  /\ pc = "terminate"
  /\ IF Exited THEN Return /\ UNCHANGED signal
     ELSE IF MaySignal
       THEN pc' = "termWait" /\ signal' = TRUE /\ UNCHANGED <<raising, outcome>>
       ELSE Escape /\ UNCHANGED signal
  /\ UNCHANGED <<setup, back, feed, pipe, child, code, stuck, used, cancel>>

Reaped ==
  /\ pc \in {"termWait", "killWait"} /\ Exited
  /\ Return
  /\ UNCHANGED <<setup, back, feed, pipe, process, cancel>>

(* process.wait(timeout=3) runs out; SIGKILL is what ends a child that      *)
(* SIGTERM did not, and a second timeout is not caught.                      *)
NoTimeout == FALSE
TermTimeout ==
  /\ pc = "termWait" /\ ~Exited
  /\ IF MaySignal
       THEN pc' = "killWait" /\ UNCHANGED <<raising, outcome>>
       ELSE Escape
  /\ UNCHANGED <<setup, back, feed, pipe, process, cancel>>

(* What happens to the exception of the second wait. *)
Swallow == Return
OnKillTimeout == Escape

KillTimeout ==
  /\ pc = "killWait" /\ ~Exited
  /\ OnKillTimeout
  /\ UNCHANGED <<setup, back, feed, pipe, process, cancel>>

(* The Popen object is collected once the worker has reported: its pipe end *)
(* closes even if the child lives on.                                        *)
Leaked == FALSE
Collect ==
  /\ pc = "done" /\ stdin
  /\ stdin' = FALSE
  /\ UNCHANGED <<setup, parent, sent, inflight, pipe, process, cancel>>

Parent ==
  \/ CheckCancel \/ ReadChunk \/ PushPiece \/ ShortWrite \/ BrokenPipe \/ CloseInput \/ CheckStatus
  \/ Leave \/ Terminate \/ Reaped \/ KillTimeout \/ Collect

-----------------------------------------------------------------------------
(* The child: pkexec, then dd or cmp *)

Exit(c) == child' = "exited" /\ code' = c /\ UNCHANGED <<stuck, signal, used>>

Alive == ~Exited /\ ~stuck /\ ~signal

Authorize ==
  /\ Alive /\ child = "prompt"
  /\ child' = "run"
  /\ UNCHANGED <<setup, parent, feed, pipe, code, stuck, signal, used, cancel>>

Dismiss ==
  /\ Alive /\ child = "prompt"
  /\ Exit("nonzero")
  /\ UNCHANGED <<setup, parent, feed, pipe, cancel>>

Consume ==
  /\ Alive /\ child = "run"
  /\ IF streamed THEN pipe > 0 /\ pipe' = pipe - 1 ELSE used < Total /\ UNCHANGED pipe
  /\ used' = used + 1
  /\ UNCHANGED <<setup, parent, feed, child, code, stuck, signal, cancel>>

(* dd takes any end of input for the end; cmp -n wants all the bytes, and     *)
(* stops after them without waiting for the end.                             *)
AllInput ==
  IF streamed THEN (pipe = 0 /\ ~stdin) \/ (mode = "verify" /\ used = Total) ELSE used = Total

EndOfInput ==
  /\ Alive /\ child = "run" /\ AllInput
  /\ IF mode = "write"
       THEN child' = "sync" /\ UNCHANGED <<code, stuck, signal, used>>
       ELSE Exit(IF used = Total THEN "zero" ELSE "nonzero")
  /\ UNCHANGED <<setup, parent, feed, pipe, cancel>>

Synced ==
  /\ Alive /\ child = "sync"
  /\ Exit("zero")
  /\ UNCHANGED <<setup, parent, feed, pipe, cancel>>

(* An I/O error, or a difference that cmp finds. *)
ChildFails ==
  /\ Alive /\ child \in {"run", "sync"}
  /\ Exit("nonzero")
  /\ UNCHANGED <<setup, parent, feed, pipe, cancel>>

Die ==
  /\ signal /\ ~stuck /\ ~Exited
  /\ Exit("nonzero")
  /\ UNCHANGED <<setup, parent, feed, pipe, cancel>>

Hang ==
  /\ child \in {"run", "sync"} /\ ~stuck
  /\ stuck' = TRUE
  /\ UNCHANGED <<setup, parent, feed, pipe, child, code, signal, used, cancel>>

Unhang ==
  /\ stuck
  /\ stuck' = FALSE
  /\ UNCHANGED <<setup, parent, feed, pipe, child, code, signal, used, cancel>>

CancelWrite ==
  /\ pc # "done" /\ ~cancel
  /\ cancel' = TRUE
  /\ UNCHANGED <<setup, parent, feed, pipe, process>>

-----------------------------------------------------------------------------
Init ==
  /\ mode \in {"write", "verify"} /\ streamed \in BOOLEAN /\ elevated \in BOOLEAN
  /\ pc = IF streamed THEN "loop" ELSE "wait"
  /\ back = "body" /\ raising = "none" /\ outcome = "none"
  /\ sent = 0 /\ inflight = 0 /\ pipe = 0 /\ stdin = streamed
  /\ child = IF elevated THEN "prompt" ELSE "run"
  /\ code = "zero" /\ stuck = FALSE /\ signal = FALSE /\ used = 0
  /\ cancel = FALSE

Child == Consume \/ EndOfInput \/ Synced \/ Die
Answer == Authorize \/ Dismiss

Next ==
  \/ Parent \/ TermTimeout \/ CancelWrite
  \/ Child \/ Answer \/ ChildFails \/ Hang \/ Unhang

Spec == Init /\ [][Next]_vars

(* The worker thread and the clock run.  Nothing is promised about the       *)
(* child: it may hang for ever, and the prompt may stay open.                *)
FairSpec == Spec /\ WF_vars(Parent) /\ WF_vars(TermTimeout)

(* A child that gets its turn: the kernel schedules it and delivers signals, *)
(* it is not stuck for ever, and the user answers the prompt.                *)
ChildServed == SF_vars(Child) /\ WF_vars(Unhang) /\ WF_vars(Answer)

-----------------------------------------------------------------------------
(* Properties *)

(* Types of the parent's and the child's state; the pipe never overflows. *)
TypeOK ==
  /\ mode \in {"write", "verify"} /\ streamed \in BOOLEAN /\ elevated \in BOOLEAN
  /\ pc \in {"loop", "push", "close", "wait", "finally", "terminate", "termWait",
             "killWait", "done"}
  /\ back \in {"body", "finally"}
  /\ raising \in {"none", "cancelled", "error"}
  /\ outcome \in {"none", "ok", "cancelled", "error"}
  /\ sent \in 0..Size /\ inflight \in 0..ChunkUnits /\ pipe \in 0..PipeCap
  /\ stdin \in BOOLEAN
  /\ child \in {"prompt", "run", "sync", "exited"} /\ code \in {"zero", "nonzero"}
  /\ stuck \in BOOLEAN /\ signal \in BOOLEAN
  /\ used \in Nat /\ cancel \in BOOLEAN

(* "returncode zero and sent == snapshot.size": success means that the child *)
(* itself consumed the whole source, although the parent only counts what it *)
(* put into the pipe, and that the child is gone.                            *)
OkMeansComplete == outcome = "ok" => Exited /\ code = "zero" /\ used = Total

(* An operation reported as cancelled left no process behind that could     *)
(* still write to the target.                                                *)
CancelledMeansStopped == outcome = "cancelled" => Exited

(* A cancel ends the operation even if the child hangs in the kernel for     *)
(* ever or nobody answers its prompt (two timeouts of three seconds): unless *)
(* it finds the parent blocked in stdin.write, the one wait without timeout. *)
CancelEnds == cancel /\ pc # "push" ~> pc = "done"

(* Even a child that outlives its operation (signals refused, or a kill      *)
(* that timed out) comes to an end by itself if only it gets its turn.       *)
NoChildForever == ChildServed => (pc = "done" ~> Exited)

-----------------------------------------------------------------------------
(* The inductive invariant behind the safety properties: see                 *)
(* StreamProcessProofs.                                                      *)

Pushed == sent * ChunkUnits + (IF inflight = 0 THEN 0 ELSE ChunkUnits - inflight)

(* The counters of the parent and of the child agree while the child lives. *)
Accounting ==
  /\ inflight > 0 => sent < Size
  /\ pc = "push" => inflight > 0
  /\ pc = "loop" => inflight = 0 /\ stdin /\ streamed
  /\ pc = "push" => stdin /\ streamed
  /\ streamed /\ ~Exited => used + pipe = Pushed

(* A child that has seen the end of its input has used all of it. *)
EndSeen ==
  child = "sync" \/ (Exited /\ code = "zero") =>
    used = Total \/ (streamed /\ ~stdin /\ used = Pushed)

(* The parent leaves without an exception only past its own check. *)
Unwinding ==
  /\ pc = "finally" /\ raising = "none" => Exited /\ Complete
  /\ pc \in {"terminate", "termWait", "killWait"} => raising # "none"
  /\ pc # "done" => outcome = "none"
  /\ outcome = "ok" => Exited /\ Complete
  /\ CancelledMeansStopped

IInv == TypeOK /\ Accounting /\ EndSeen /\ Unwinding

=============================================================================
