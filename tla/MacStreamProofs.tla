--------------------------- MODULE MacStreamProofs ---------------------------
(***************************************************************************)
(* Proofs about MacStream, for any source, chunk and FIFO size.  Most      *)
(* steps of the parent move neither bytes nor processes (QuietSteps), so   *)
(* the bookkeeping between the parent's count and what the root helper     *)
(* used is decided by the few others.  A cancelled parent only gets nearer *)
(* to its end (CancelIsShort).                                             *)
(***************************************************************************)
EXTENDS MacStream, TLAPS

(* Steps that leave the bytes and the other processes alone. *)
Quiet == UNCHANGED <<mode, feed, fifo, wrapper, code, disk>>
QuietStep ==
  \/ CancelOpen \/ OpenFails \/ CancelStream \/ Break \/ Communicate \/ Settled
  \/ SettleTimeout \/ Terminate \/ Reaped \/ TermTimeout \/ KillTimeout

(* What a parent step may not do: go back into the stream, or succeed        *)
(* without its checks.                                                       *)
LEMMA QuietSteps ==
  ASSUME QuietStep
  PROVE  /\ Quiet /\ UNCHANGED cancel
         /\ pc' \notin {"open", "loop", "push"}
         /\ pc # "done" /\ (pc' = "done" \/ UNCHANGED outcome)
         /\ outcome' = "ok" => outcome = "ok" \/ (wrapper = "exited" /\ Complete /\ UNCHANGED broken)
<1>1. CASE CancelOpen
  BY <1>1 DEF CancelOpen, Stop, Quiet, feed, script, disk, parent
<1>2. CASE OpenFails
  BY <1>2 DEF OpenFails, Finish, Quiet, feed, script, disk, parent
<1>3. CASE CancelStream
  BY <1>3 DEF CancelStream, Abort, Quiet, feed, script, disk, parent
<1>4. CASE Break
  BY <1>4 DEF Break, Quiet, feed, script, disk, parent
<1>5. CASE Communicate
  BY <1>5 DEF Communicate, Finish, Complete, Quiet, feed, script, disk, parent
<1>6. CASE Settled
  BY <1>6 DEF Settled, Finish, Quiet, feed, script, disk, parent
<1>7. CASE SettleTimeout
  BY <1>7 DEF SettleTimeout, Stop, Quiet, feed, script, disk, parent
<1>8. CASE Terminate
  BY <1>8 DEF Terminate, Return, Abort, Finish, Goto, Quiet, feed, script, disk, parent
<1>9. CASE Reaped
  BY <1>9 DEF Reaped, Return, Abort, Finish, Quiet, feed, script, disk, parent
<1>10. CASE TermTimeout
  BY <1>10 DEF TermTimeout, Goto, Quiet, feed, script, disk, parent
<1>11. CASE KillTimeout
  BY <1>11 DEF KillTimeout, Finish, Quiet, feed, script, disk, parent
<1> QED BY <1>1, <1>2, <1>3, <1>4, <1>5, <1>6, <1>7, <1>8, <1>9, <1>10, <1>11 DEF QuietStep

(* The inductive invariant holds initially. *)
LEMMA InvInit == Init => IInv
<1> SUFFICES ASSUME Init PROVE IInv
  OBVIOUS
<1>1. /\ aborted \in BOOLEAN /\ broken \in BOOLEAN /\ fd \in BOOLEAN
      /\ signal \in BOOLEAN /\ stuck \in BOOLEAN /\ cancel \in BOOLEAN
  BY Zenon DEF Init
<1>2. TypeOK
  BY <1>1, MacAssumption DEF Init, TypeOK
<1>3. Accounting
  BY MacAssumption DEF Init, Accounting, Pushed
<1>4. EndSeen /\ Unwinding
  BY DEF Init, EndSeen, Unwinding
<1> QED BY <1>2, <1>3, <1>4 DEF IInv

(* Every action keeps the types, and the FIFO within its capacity. *)
LEMMA TypeStep == IInv /\ [Next]_vars => TypeOK'
<1> SUFFICES ASSUME IInv, [Next]_vars PROVE TypeOK'
  OBVIOUS
<1>a. TypeOK /\ Accounting /\ EndSeen /\ Unwinding
  BY DEF IInv
<1> USE <1>a, MacAssumption DEF TypeOK, Accounting, feed, script, disk, parent
<1>1. CASE QuietStep
  <2>1. CASE CancelOpen
    BY <2>1 DEF CancelOpen, Stop
  <2>2. CASE OpenFails
    BY <2>2 DEF OpenFails, Finish
  <2>3. CASE CancelStream
    BY <2>3 DEF CancelStream, Abort
  <2>4. CASE Break
    BY <2>4 DEF Break
  <2>5. CASE Communicate
    BY <2>5 DEF Communicate, Finish, Complete
  <2>6. CASE Settled
    BY <2>6 DEF Settled, Finish
  <2>7. CASE SettleTimeout
    BY <2>7 DEF SettleTimeout, Stop
  <2>8. CASE Terminate
    <3>1. signal' \in BOOLEAN /\ aborted' \in BOOLEAN
      BY <2>8, Zenon DEF Terminate, Return, Abort, Finish, Goto
    <3> QED BY <2>8, <3>1 DEF Terminate, Return, Abort, Finish, Goto
  <2>9. CASE Reaped
    <3>1. signal' \in BOOLEAN /\ aborted' \in BOOLEAN
      BY <2>9, Zenon DEF Reaped, Return, Abort, Finish
    <3> QED BY <2>9, <3>1 DEF Reaped, Return, Abort, Finish
  <2>10. CASE TermTimeout
    BY <2>10 DEF TermTimeout, Goto
  <2>11. CASE KillTimeout
    BY <2>11 DEF KillTimeout, Finish
  <2> QED BY <1>1, <2>1, <2>2, <2>3, <2>4, <2>5, <2>6, <2>7, <2>8, <2>9, <2>10, <2>11 DEF QuietStep
<1>2. CASE OpenFifo
  BY <1>2 DEF OpenFifo, Goto
<1>3. CASE ReadChunk
  BY <1>3 DEF ReadChunk, Goto
<1>4. CASE PushPiece
  BY <1>4 DEF PushPiece, Goto
<1>5. CASE CloseFifo
  <2>1. fd' \in BOOLEAN
    BY <1>5, Zenon DEF CloseFifo
  <2> QED BY <1>5, <2>1 DEF CloseFifo, Goto
<1>6. CASE CancelWrite
  BY <1>6 DEF CancelWrite
<1>7. CASE Authorize
  BY <1>7 DEF Authorize
<1>8. CASE Dismiss
  BY <1>8 DEF Dismiss
<1>9. CASE WrapperExits
  BY <1>9 DEF WrapperExits
<1>10. CASE WrapperDies
  BY <1>10 DEF WrapperDies
<1>11. CASE HelperOpens
  BY <1>11 DEF HelperOpens, Exit
<1>12. CASE Consume
  BY <1>12 DEF Consume
<1>13. CASE EndOfInput
  BY <1>13 DEF EndOfInput, Exit
<1>14. CASE Synced
  BY <1>14 DEF Synced, Exit
<1>15. CASE HelperFails
  BY <1>15 DEF HelperFails, Exit
<1>16. CASE Hang
  BY <1>16 DEF Hang
<1>17. CASE Unhang
  <2>1. stuck' \in BOOLEAN
    BY <1>17, Zenon DEF Unhang
  <2> QED BY <1>17, <2>1 DEF Unhang
<1>18. CASE UNCHANGED vars
  BY <1>18 DEF vars
<1> QED BY <1>1, <1>2, <1>3, <1>4, <1>5, <1>6, <1>7, <1>8, <1>9, <1>10, <1>11, <1>12, <1>13, <1>14, <1>15, <1>16, <1>17, <1>18
  DEF Next, Parent, Clock, Helper, QuietStep

(* Every piece goes into the FIFO once and out of it once. *)
LEMMA AccountingStep == IInv /\ [Next]_vars => Accounting'
<1> SUFFICES ASSUME IInv, [Next]_vars PROVE Accounting'
  OBVIOUS
<1>a. TypeOK /\ Accounting /\ EndSeen /\ Unwinding
  BY DEF IInv
<1> USE <1>a, MacAssumption DEF TypeOK, Accounting, EndSeen, Pushed, feed, script, disk, parent
<1>1. CASE QuietStep
  BY <1>1, QuietSteps DEF Quiet
<1>2. CASE OpenFifo
  BY <1>2 DEF OpenFifo, Goto
<1>3. CASE ReadChunk
  BY <1>3 DEF ReadChunk, Goto
<1>4. CASE PushPiece
  BY <1>4 DEF PushPiece, Goto
<1>5. CASE CloseFifo
  BY <1>5 DEF CloseFifo, Goto
<1>6. CASE CancelWrite
  BY <1>6 DEF CancelWrite
<1>7. CASE Authorize
  BY <1>7 DEF Authorize
<1>8. CASE Dismiss
  BY <1>8 DEF Dismiss
<1>9. CASE WrapperExits
  BY <1>9 DEF WrapperExits
<1>10. CASE WrapperDies
  BY <1>10 DEF WrapperDies
<1>11. CASE HelperOpens
  BY <1>11 DEF HelperOpens, Exit
<1>12. CASE Consume
  BY <1>12 DEF Consume
<1>13. CASE EndOfInput
  BY <1>13 DEF EndOfInput, Exit
<1>14. CASE Synced
  BY <1>14 DEF Synced, Exit
<1>15. CASE HelperFails
  BY <1>15 DEF HelperFails, Exit
<1>16. CASE Hang
  BY <1>16 DEF Hang
<1>17. CASE Unhang
  BY <1>17 DEF Unhang
<1>18. CASE UNCHANGED vars
  BY <1>18 DEF vars
<1> QED BY <1>1, <1>2, <1>3, <1>4, <1>5, <1>6, <1>7, <1>8, <1>9, <1>10, <1>11, <1>12, <1>13, <1>14, <1>15, <1>16, <1>17, <1>18
  DEF Next, Parent, Clock, Helper, QuietStep

(* dd and cmp end well only past the end of their input. *)
LEMMA EndStep == IInv /\ [Next]_vars => EndSeen'
<1> SUFFICES ASSUME IInv, [Next]_vars PROVE EndSeen'
  OBVIOUS
<1>a. TypeOK /\ Accounting /\ EndSeen /\ Unwinding
  BY DEF IInv
<1> USE <1>a, MacAssumption DEF TypeOK, Accounting, EndSeen, Total, feed, script, disk, parent
<1>1. CASE QuietStep
  BY <1>1, QuietSteps DEF Quiet
<1>2. CASE OpenFifo
  BY <1>2 DEF OpenFifo, Goto
<1>3. CASE ReadChunk
  BY <1>3 DEF ReadChunk, Goto
<1>4. CASE PushPiece
  BY <1>4 DEF PushPiece, Goto
<1>5. CASE CloseFifo
  BY <1>5 DEF CloseFifo, Goto
<1>6. CASE CancelWrite
  BY <1>6 DEF CancelWrite
<1>7. CASE Authorize
  BY <1>7 DEF Authorize
<1>8. CASE Dismiss
  BY <1>8 DEF Dismiss
<1>9. CASE WrapperExits
  BY <1>9 DEF WrapperExits
<1>10. CASE WrapperDies
  BY <1>10 DEF WrapperDies
<1>11. CASE HelperOpens
  BY <1>11 DEF HelperOpens, Exit
<1>12. CASE Consume
  BY <1>12 DEF Consume
<1>13. CASE EndOfInput
  BY <1>13 DEF EndOfInput, Exit
<1>14. CASE Synced
  BY <1>14 DEF Synced, Exit
<1>15. CASE HelperFails
  BY <1>15 DEF HelperFails, Exit
<1>16. CASE Hang
  BY <1>16 DEF Hang
<1>17. CASE Unhang
  BY <1>17 DEF Unhang
<1>18. CASE UNCHANGED vars
  BY <1>18 DEF vars
<1> QED BY <1>1, <1>2, <1>3, <1>4, <1>5, <1>6, <1>7, <1>8, <1>9, <1>10, <1>11, <1>12, <1>13, <1>14, <1>15, <1>16, <1>17, <1>18
  DEF Next, Parent, Clock, Helper, QuietStep

(* Success is decided by communicate() alone. *)
LEMMA UnwindingStep == IInv /\ [Next]_vars => Unwinding'
<1> SUFFICES ASSUME IInv, [Next]_vars PROVE Unwinding'
  OBVIOUS
<1>a. TypeOK /\ Accounting /\ EndSeen /\ Unwinding
  BY DEF IInv
<1> USE <1>a, MacAssumption DEF Unwinding, Complete, TypeOK, feed, script, disk, parent
<1>1. CASE QuietStep
  BY <1>1, QuietSteps DEF Quiet
<1>2. CASE OpenFifo
  BY <1>2 DEF OpenFifo, Goto
<1>3. CASE ReadChunk
  BY <1>3 DEF ReadChunk, Goto
<1>4. CASE PushPiece
  BY <1>4 DEF PushPiece, Goto
<1>5. CASE CloseFifo
  BY <1>5 DEF CloseFifo, Goto
<1>6. CASE CancelWrite
  BY <1>6 DEF CancelWrite
<1>7. CASE Authorize
  BY <1>7 DEF Authorize
<1>8. CASE Dismiss
  BY <1>8 DEF Dismiss
<1>9. CASE WrapperExits
  BY <1>9 DEF WrapperExits
<1>10. CASE WrapperDies
  BY <1>10 DEF WrapperDies
<1>11. CASE HelperOpens
  BY <1>11 DEF HelperOpens, Exit
<1>12. CASE Consume
  BY <1>12 DEF Consume
<1>13. CASE EndOfInput
  BY <1>13 DEF EndOfInput, Exit
<1>14. CASE Synced
  BY <1>14 DEF Synced, Exit
<1>15. CASE HelperFails
  BY <1>15 DEF HelperFails, Exit
<1>16. CASE Hang
  BY <1>16 DEF Hang
<1>17. CASE Unhang
  BY <1>17 DEF Unhang
<1>18. CASE UNCHANGED vars
  BY <1>18 DEF vars
<1> QED BY <1>1, <1>2, <1>3, <1>4, <1>5, <1>6, <1>7, <1>8, <1>9, <1>10, <1>11, <1>12, <1>13, <1>14, <1>15, <1>16, <1>17, <1>18
  DEF Next, Parent, Clock, Helper, QuietStep

(* IInv holds in every reachable state: the bookkeeping of pieces, and what   *)
(* an exit status of zero says about the helper.                             *)
THEOREM Inductive == Spec => []IInv
<1>1. IInv /\ [Next]_vars => IInv'
  BY TypeStep, AccountingStep, EndStep, UnwindingStep DEF IInv
<1> QED BY InvInit, <1>1, PTL DEF Spec

(* The types hold in every reachable state of _run_privileged_stream. *)
THEOREM Types == Spec => []TypeOK
<1>1. IInv => TypeOK
  BY DEF IInv
<1> QED BY Inductive, <1>1, PTL

(* A successful stream was used to its last byte by a helper that has gone.  *)
THEOREM OkComplete == Spec => []OkMeansComplete
<1>1. IInv => OkMeansComplete
  <2> SUFFICES ASSUME IInv, outcome = "ok" PROVE helper = "gone" /\ used = Total
    BY DEF OkMeansComplete
  <2>1. wrapper = "exited" /\ code = "zero" /\ sent = Size
    BY DEF IInv, Unwinding, Complete
  <2>2. helper = "gone"
    BY <2>1 DEF IInv, EndSeen
  <2>3. used = Total \/ fifo = 0
    BY <2>1, <2>2 DEF IInv, EndSeen
  <2>4. CASE fifo = 0
    <3>1. left = 0
      BY <2>1, MacAssumption DEF IInv, Accounting, TypeOK
    <3> QED BY <2>1, <2>2, <2>4, <3>1, MacAssumption DEF IInv, Accounting, Pushed, Total, TypeOK
  <2> QED BY <2>2, <2>3, <2>4
<1> QED BY Inductive, <1>1, PTL

-----------------------------------------------------------------------------
(* A cancel that was asked for before the end of the stream, or was caught.  *)
Cancelling ==
  cancel /\ (pc \in {"open", "loop", "push", "settle", "stop", "termWait", "killWait"}
             \/ (pc = "close" /\ aborted))

(* How many steps the parent can still take when it is cancelled. *)
Stage(p, b) ==
  CASE p = "open" -> 10
    [] p = "stop" -> IF b = "open" THEN 9 ELSE 3
    [] p = "termWait" -> IF b = "open" THEN 8 ELSE 2
    [] p = "killWait" -> IF b = "open" THEN 7 ELSE 1
    [] p \in {"loop", "push"} -> 6
    [] p = "close" -> 5
    [] p = "settle" -> 4
    [] OTHER -> 0

(* A cancelled operation opens nothing, pushes no piece and never waits in   *)
(* communicate(): each step of the parent brings it nearer to an end that is *)
(* not a success, through the two calls of _stop_privileged_process at most. *)
(* This is what CancelEnds needs besides fairness: ten steps of the parent,  *)
(* whatever osascript, the helper and the FIFO do meanwhile.                 *)
CancelDescends ==
  [][Cancelling =>
       \/ UNCHANGED <<pc, back, outcome>> /\ Cancelling'
       \/ Stage(pc', back') < Stage(pc, back)
          /\ (Cancelling' \/ (pc' = "done" /\ outcome' # "ok"))]_vars

THEOREM CancelIsShort == Spec => CancelDescends
<1> DEFINE Nearer ==
      Cancelling =>
        \/ UNCHANGED <<pc, back, outcome>> /\ Cancelling'
        \/ Stage(pc', back') < Stage(pc, back)
           /\ (Cancelling' \/ (pc' = "done" /\ outcome' # "ok"))
<1>1. ASSUME IInv, Next PROVE Nearer
  <2>1. ASSUME Cancelling
        PROVE  \/ UNCHANGED <<pc, back, outcome>> /\ Cancelling'
               \/ Stage(pc', back') < Stage(pc, back)
                  /\ (Cancelling' \/ (pc' = "done" /\ outcome' # "ok"))
    <3> USE <1>1, <2>1 DEF IInv, TypeOK, parent, Cancelling, Stage
    <3>1. CASE CancelOpen BY <3>1 DEF CancelOpen, Stop
    <3>2. CASE OpenFifo \/ OpenFails \/ ReadChunk \/ PushPiece \/ Break \/ Communicate
      BY <3>2 DEF OpenFifo, OpenFails, ReadChunk, PushPiece, Break, Communicate
    <3>3. CASE CancelStream BY <3>3 DEF CancelStream, Abort
    <3>4. CASE CloseFifo BY <3>4 DEF CloseFifo, Goto
    <3>5. CASE Settled BY <3>5 DEF Settled, Finish
    <3>6. CASE SettleTimeout BY <3>6 DEF SettleTimeout, Stop
    <3>7. CASE Terminate BY <3>7 DEF Terminate, Return, Abort, Finish, Goto
    <3>8. CASE Reaped BY <3>8 DEF Reaped, Return, Abort, Finish
    <3>9. CASE TermTimeout BY <3>9 DEF TermTimeout, Goto
    <3>10. CASE KillTimeout BY <3>10 DEF KillTimeout, Finish
    <3>11. CASE CancelWrite BY <3>11 DEF CancelWrite
    <3>12. CASE Authorize \/ Dismiss \/ WrapperExits \/ WrapperDies
      BY <3>12 DEF Authorize, Dismiss, WrapperExits, WrapperDies
    <3>13. CASE HelperOpens \/ Helper \/ HelperFails
      BY <3>13 DEF HelperOpens, Helper, Consume, EndOfInput, Synced, HelperFails
    <3>14. CASE Hang \/ Unhang BY <3>14 DEF Hang, Unhang
    <3> QED BY <3>1, <3>2, <3>3, <3>4, <3>5, <3>6, <3>7, <3>8, <3>9, <3>10, <3>11, <3>12, <3>13,
               <3>14 DEF Next, Parent, Clock
  <2> QED BY <2>1
<1>2. IInv /\ [Next]_vars => [Nearer]_vars
  BY <1>1
<1> QED BY <1>2, Inductive, PTL DEF Spec, CancelDescends

=============================================================================
