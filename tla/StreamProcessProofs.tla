------------------------- MODULE StreamProcessProofs -------------------------
(***************************************************************************)
(* Proofs about StreamProcess, for any source, chunk and pipe size.  What  *)
(* the parent pushed into a living child is what that used plus what the   *)
(* pipe holds (Accounting); a child that ends with zero saw the end of its *)
(* input (EndSeen); and the parent leaves without an exception only when   *)
(* its own count says that everything was pushed (Unwinding).  So success  *)
(* implies that the child used it all.  A cancelled parent only gets       *)
(* nearer to its end (CancelIsShort).                                      *)
(***************************************************************************)
EXTENDS StreamProcess, TLAPS

(* The inductive invariant holds initially.                                  *)
LEMMA InvInit == Init => IInv
<1> SUFFICES ASSUME Init PROVE IInv
  OBVIOUS
<1>1. stdin \in BOOLEAN /\ stuck \in BOOLEAN /\ signal \in BOOLEAN /\ cancel \in BOOLEAN
  BY Zenon DEF Init
<1>2. TypeOK
  BY <1>1, StreamAssumption DEF Init, TypeOK
<1>3. Accounting
  BY StreamAssumption DEF Init, Accounting, Pushed
<1>4. EndSeen /\ Unwinding
  BY DEF Init, EndSeen, Unwinding, CancelledMeansStopped, Exited
<1> QED BY <1>2, <1>3, <1>4 DEF IInv

(* Every action keeps the types, and the pipe within its capacity. *)
LEMMA TypeStep == IInv /\ [Next]_vars => TypeOK'
<1> SUFFICES ASSUME IInv, [Next]_vars PROVE TypeOK'
  OBVIOUS
<1>a. TypeOK /\ Accounting /\ EndSeen /\ Unwinding
  BY DEF IInv
<1> USE <1>a DEF setup, parent, feed, process, TypeOK, Accounting, Exited
<1>1. CASE CheckCancel
  BY <1>1, StreamAssumption DEF CheckCancel, Call
<1>2. CASE ReadChunk
  BY <1>2, StreamAssumption DEF ReadChunk
<1>3. CASE PushPiece
  BY <1>3, StreamAssumption DEF PushPiece
<1>24. CASE ShortWrite
  BY <1>24, StreamAssumption DEF ShortWrite
<1>4. CASE BrokenPipe
  BY <1>4, StreamAssumption DEF BrokenPipe
<1>5. CASE CloseInput
  <2>1. stdin' \in BOOLEAN
    BY <1>5, Zenon DEF CloseInput
  <2> QED BY <1>5, <2>1, StreamAssumption DEF CloseInput
<1>6. CASE CheckStatus
  BY <1>6, StreamAssumption DEF CheckStatus, Complete
<1>7. CASE Leave
  BY <1>7, StreamAssumption DEF Leave, Call
<1>8. CASE Terminate
  <2>1. signal' \in BOOLEAN
    BY <1>8, Zenon DEF Terminate, Return, Escape, MaySignal
  <2> QED BY <1>8, <2>1, StreamAssumption DEF Terminate, Return, Escape, MaySignal
<1>9. CASE Reaped
  BY <1>9, StreamAssumption DEF Reaped, Return
<1>10. CASE KillTimeout
  BY <1>10, StreamAssumption DEF KillTimeout, OnKillTimeout, Escape
<1>11. CASE Collect
  <2>1. stdin' \in BOOLEAN
    BY <1>11, Zenon DEF Collect
  <2> QED BY <1>11, <2>1, StreamAssumption DEF Collect
<1>12. CASE TermTimeout
  BY <1>12, StreamAssumption DEF TermTimeout, Escape, MaySignal
<1>13. CASE CancelWrite
  BY <1>13, StreamAssumption DEF CancelWrite
<1>14. CASE Authorize
  BY <1>14, StreamAssumption DEF Authorize, Alive
<1>15. CASE Dismiss
  BY <1>15, StreamAssumption DEF Dismiss, Exit, Alive
<1>16. CASE Consume
  BY <1>16, StreamAssumption DEF Consume, Alive
<1>17. CASE EndOfInput
  BY <1>17, StreamAssumption DEF EndOfInput, AllInput, Exit, Alive
<1>18. CASE Synced
  BY <1>18, StreamAssumption DEF Synced, Exit, Alive
<1>19. CASE Die
  BY <1>19, StreamAssumption DEF Die, Exit
<1>20. CASE ChildFails
  BY <1>20, StreamAssumption DEF ChildFails, Exit, Alive
<1>21. CASE Hang
  BY <1>21, StreamAssumption DEF Hang
<1>22. CASE Unhang
  <2>1. stuck' \in BOOLEAN
    BY <1>22, Zenon DEF Unhang
  <2> QED BY <1>22, <2>1, StreamAssumption DEF Unhang
<1>23. CASE UNCHANGED vars
  BY <1>23 DEF vars
<1> QED BY <1>1, <1>2, <1>3, <1>4, <1>5, <1>6, <1>7, <1>8, <1>9, <1>10, <1>11, <1>12, <1>13, <1>14, <1>15, <1>16, <1>17, <1>18, <1>19, <1>20, <1>21, <1>22, <1>23,
         <1>24
  DEF Next, Parent, Child, Answer

(* One piece at a time: what is pushed is used or in the pipe. *)
LEMMA AccountingStep == IInv /\ [Next]_vars => Accounting'
<1> SUFFICES ASSUME IInv, [Next]_vars PROVE Accounting'
  OBVIOUS
<1>a. TypeOK /\ Accounting /\ EndSeen /\ Unwinding
  BY DEF IInv
<1> USE <1>a DEF setup, parent, feed, process, TypeOK, Accounting, EndSeen, Pushed, Exited
<1>1. CASE CheckCancel
  BY <1>1, StreamAssumption DEF CheckCancel, Call
<1>2. CASE ReadChunk
  BY <1>2, StreamAssumption DEF ReadChunk
<1>3. CASE PushPiece
  BY <1>3, StreamAssumption DEF PushPiece
<1>24. CASE ShortWrite
  BY <1>24, StreamAssumption DEF ShortWrite
<1>4. CASE BrokenPipe
  BY <1>4, StreamAssumption DEF BrokenPipe
<1>5. CASE CloseInput
  BY <1>5, StreamAssumption DEF CloseInput
<1>6. CASE CheckStatus
  BY <1>6, StreamAssumption DEF CheckStatus, Complete
<1>7. CASE Leave
  BY <1>7, StreamAssumption DEF Leave, Call
<1>8. CASE Terminate
  BY <1>8, StreamAssumption DEF Terminate, Return, Escape, MaySignal
<1>9. CASE Reaped
  BY <1>9, StreamAssumption DEF Reaped, Return
<1>10. CASE KillTimeout
  BY <1>10, StreamAssumption DEF KillTimeout, OnKillTimeout, Escape
<1>11. CASE Collect
  BY <1>11, StreamAssumption DEF Collect
<1>12. CASE TermTimeout
  BY <1>12, StreamAssumption DEF TermTimeout, Escape, MaySignal
<1>13. CASE CancelWrite
  BY <1>13, StreamAssumption DEF CancelWrite
<1>14. CASE Authorize
  BY <1>14, StreamAssumption DEF Authorize, Alive
<1>15. CASE Dismiss
  BY <1>15, StreamAssumption DEF Dismiss, Exit, Alive
<1>16. CASE Consume
  BY <1>16, StreamAssumption DEF Consume, Alive
<1>17. CASE EndOfInput
  BY <1>17, StreamAssumption DEF EndOfInput, AllInput, Exit, Alive
<1>18. CASE Synced
  BY <1>18, StreamAssumption DEF Synced, Exit, Alive
<1>19. CASE Die
  BY <1>19, StreamAssumption DEF Die, Exit
<1>20. CASE ChildFails
  BY <1>20, StreamAssumption DEF ChildFails, Exit, Alive
<1>21. CASE Hang
  BY <1>21, StreamAssumption DEF Hang
<1>22. CASE Unhang
  BY <1>22, StreamAssumption DEF Unhang
<1>23. CASE UNCHANGED vars
  BY <1>23 DEF vars
<1> QED BY <1>1, <1>2, <1>3, <1>4, <1>5, <1>6, <1>7, <1>8, <1>9, <1>10, <1>11, <1>12, <1>13, <1>14, <1>15, <1>16, <1>17, <1>18, <1>19, <1>20, <1>21, <1>22, <1>23,
         <1>24
  DEF Next, Parent, Child, Answer

(* dd and cmp end with zero only past the end of their input. *)
LEMMA EndStep == IInv /\ [Next]_vars => EndSeen'
<1> SUFFICES ASSUME IInv, [Next]_vars PROVE EndSeen'
  OBVIOUS
<1>a. TypeOK /\ Accounting /\ EndSeen /\ Unwinding
  BY DEF IInv
<1> USE <1>a DEF setup, parent, feed, process, TypeOK, Accounting, EndSeen, Exited, Total, Pushed
<1>1. CASE CheckCancel
  BY <1>1, StreamAssumption DEF CheckCancel, Call
<1>2. CASE ReadChunk
  BY <1>2, StreamAssumption DEF ReadChunk
<1>3. CASE PushPiece
  BY <1>3, StreamAssumption DEF PushPiece
<1>24. CASE ShortWrite
  BY <1>24, StreamAssumption DEF ShortWrite
<1>4. CASE BrokenPipe
  BY <1>4, StreamAssumption DEF BrokenPipe
<1>5. CASE CloseInput
  BY <1>5, StreamAssumption DEF CloseInput
<1>6. CASE CheckStatus
  BY <1>6, StreamAssumption DEF CheckStatus, Complete
<1>7. CASE Leave
  BY <1>7, StreamAssumption DEF Leave, Call
<1>8. CASE Terminate
  BY <1>8, StreamAssumption DEF Terminate, Return, Escape, MaySignal
<1>9. CASE Reaped
  BY <1>9, StreamAssumption DEF Reaped, Return
<1>10. CASE KillTimeout
  BY <1>10, StreamAssumption DEF KillTimeout, OnKillTimeout, Escape
<1>11. CASE Collect
  BY <1>11, StreamAssumption DEF Collect
<1>12. CASE TermTimeout
  BY <1>12, StreamAssumption DEF TermTimeout, Escape, MaySignal
<1>13. CASE CancelWrite
  BY <1>13, StreamAssumption DEF CancelWrite
<1>14. CASE Authorize
  BY <1>14, StreamAssumption DEF Authorize, Alive
<1>15. CASE Dismiss
  BY <1>15, StreamAssumption DEF Dismiss, Exit, Alive
<1>16. CASE Consume
  BY <1>16, StreamAssumption DEF Consume, Alive
<1>17. CASE EndOfInput
  BY <1>17, StreamAssumption DEF EndOfInput, AllInput, Exit, Alive
<1>18. CASE Synced
  BY <1>18, StreamAssumption DEF Synced, Exit, Alive
<1>19. CASE Die
  BY <1>19, StreamAssumption DEF Die, Exit
<1>20. CASE ChildFails
  BY <1>20, StreamAssumption DEF ChildFails, Exit, Alive
<1>21. CASE Hang
  BY <1>21, StreamAssumption DEF Hang
<1>22. CASE Unhang
  BY <1>22, StreamAssumption DEF Unhang
<1>23. CASE UNCHANGED vars
  BY <1>23 DEF vars
<1> QED BY <1>1, <1>2, <1>3, <1>4, <1>5, <1>6, <1>7, <1>8, <1>9, <1>10, <1>11, <1>12, <1>13, <1>14, <1>15, <1>16, <1>17, <1>18, <1>19, <1>20, <1>21, <1>22, <1>23,
         <1>24
  DEF Next, Parent, Child, Answer

(* Exceptions and the return of _terminate_process_group. *)
LEMMA UnwindingStep == IInv /\ [Next]_vars => Unwinding'
<1> SUFFICES ASSUME IInv, [Next]_vars PROVE Unwinding'
  OBVIOUS
<1>a. TypeOK /\ Accounting /\ EndSeen /\ Unwinding
  BY DEF IInv
<1> USE <1>a DEF setup, parent, feed, process, TypeOK, Unwinding, Exited, Complete, CancelledMeansStopped
<1>1. CASE CheckCancel
  BY <1>1, StreamAssumption DEF CheckCancel, Call
<1>2. CASE ReadChunk
  BY <1>2, StreamAssumption DEF ReadChunk
<1>3. CASE PushPiece
  BY <1>3, StreamAssumption DEF PushPiece
<1>24. CASE ShortWrite
  BY <1>24, StreamAssumption DEF ShortWrite
<1>4. CASE BrokenPipe
  BY <1>4, StreamAssumption DEF BrokenPipe
<1>5. CASE CloseInput
  BY <1>5, StreamAssumption DEF CloseInput
<1>6. CASE CheckStatus
  BY <1>6, StreamAssumption DEF CheckStatus, Complete
<1>7. CASE Leave
  BY <1>7, StreamAssumption DEF Leave, Call
<1>8. CASE Terminate
  BY <1>8, StreamAssumption DEF Terminate, Return, Escape, MaySignal
<1>9. CASE Reaped
  BY <1>9, StreamAssumption DEF Reaped, Return
<1>10. CASE KillTimeout
  BY <1>10, StreamAssumption DEF KillTimeout, OnKillTimeout, Escape
<1>11. CASE Collect
  BY <1>11, StreamAssumption DEF Collect
<1>12. CASE TermTimeout
  BY <1>12, StreamAssumption DEF TermTimeout, Escape, MaySignal
<1>13. CASE CancelWrite
  BY <1>13, StreamAssumption DEF CancelWrite
<1>14. CASE Authorize
  BY <1>14, StreamAssumption DEF Authorize, Alive
<1>15. CASE Dismiss
  BY <1>15, StreamAssumption DEF Dismiss, Exit, Alive
<1>16. CASE Consume
  BY <1>16, StreamAssumption DEF Consume, Alive
<1>17. CASE EndOfInput
  BY <1>17, StreamAssumption DEF EndOfInput, AllInput, Exit, Alive
<1>18. CASE Synced
  BY <1>18, StreamAssumption DEF Synced, Exit, Alive
<1>19. CASE Die
  BY <1>19, StreamAssumption DEF Die, Exit
<1>20. CASE ChildFails
  BY <1>20, StreamAssumption DEF ChildFails, Exit, Alive
<1>21. CASE Hang
  BY <1>21, StreamAssumption DEF Hang
<1>22. CASE Unhang
  BY <1>22, StreamAssumption DEF Unhang
<1>23. CASE UNCHANGED vars
  BY <1>23 DEF vars
<1> QED BY <1>1, <1>2, <1>3, <1>4, <1>5, <1>6, <1>7, <1>8, <1>9, <1>10, <1>11, <1>12, <1>13, <1>14, <1>15, <1>16, <1>17, <1>18, <1>19, <1>20, <1>21, <1>22, <1>23,
         <1>24
  DEF Next, Parent, Child, Answer

-----------------------------------------------------------------------------
(* The invariant on which both theorems rest. *)
THEOREM Inductive == Spec => []IInv
<1>1. IInv /\ [Next]_vars => IInv'
  BY TypeStep, AccountingStep, EndStep, UnwindingStep DEF IInv
<1> QED BY <1>1, InvInit, PTL DEF Spec

(* The variables of the parent and of the child keep their types. *)
THEOREM Types == Spec => []TypeOK
<1>1. IInv => TypeOK
  BY DEF IInv
<1> QED BY <1>1, Inductive, PTL

(* A successful return of the write or of the verification means that the    *)
(* child consumed every piece of the source and has exited.                  *)
THEOREM OkComplete == Spec => []OkMeansComplete
<1>1. IInv => OkMeansComplete
  <2> SUFFICES ASSUME IInv, outcome = "ok" PROVE Exited /\ code = "zero" /\ used = Total
    BY DEF OkMeansComplete
  <2>1. Exited /\ code = "zero" /\ (streamed => sent = Size)
    BY DEF IInv, Unwinding, Complete
  <2>2. CASE ~streamed
    BY <2>1, <2>2 DEF IInv, EndSeen
  <2>4. CASE used = Total
    BY <2>1, <2>4
  <2>3. CASE streamed /\ used # Total
    <3>1. used = Pushed /\ inflight = 0 /\ used \in Nat
      BY <2>1, <2>3, StreamAssumption DEF IInv, EndSeen, Accounting, TypeOK
    <3>2. Size * ChunkUnits \in Nat
      BY StreamAssumption
    <3> QED BY <2>1, <2>3, <3>1, <3>2 DEF Pushed, Total
  <2> QED BY <2>1, <2>2, <2>3, <2>4
<1> QED BY <1>1, Inductive, PTL

(* An operation that ends as cancelled leaves no child behind. *)
THEOREM CancelledStopped == Spec => []CancelledMeansStopped
<1>1. IInv => CancelledMeansStopped
  BY DEF IInv, Unwinding
<1> QED BY <1>1, Inductive, PTL

-----------------------------------------------------------------------------
(* How many steps the parent can still take once the user has cancelled.     *)
Stage(p, b) ==
  CASE p = "push" -> 11 [] p = "loop" -> 10 [] p = "close" -> 9 [] p = "wait" -> 8
    [] p = "terminate" -> IF b = "body" THEN 7 ELSE 3
    [] p = "termWait" -> IF b = "body" THEN 6 ELSE 2
    [] p = "killWait" -> IF b = "body" THEN 5 ELSE 1
    [] p = "finally" -> 4
    [] OTHER -> 0

(* A cancelled operation only gets nearer to its end, unless stdin.write     *)
(* blocks it: the loop is not entered again, no chunk is started, no wait is *)
(* repeated, and each caller enters _terminate_process_group once at most.   *)
(* This is what CancelEnds needs besides fairness: ten steps of the parent   *)
(* at most, whatever the child, the prompt and the pipe do meanwhile.        *)
CancelDescends ==
  [][cancel /\ pc # "push" =>
       \/ UNCHANGED <<pc, back>>
       \/ Stage(pc', back') < Stage(pc, back)]_vars

THEOREM CancelIsShort == Spec => CancelDescends
<1> DEFINE Nearer ==
      cancel /\ pc # "push" => UNCHANGED <<pc, back>> \/ Stage(pc', back') < Stage(pc, back)
<1>1. ASSUME IInv, Next PROVE Nearer
  <2>1. ASSUME cancel, pc # "push"
        PROVE  UNCHANGED <<pc, back>> \/ Stage(pc', back') < Stage(pc, back)
    <3> USE <1>1, <2>1 DEF IInv, TypeOK, setup, parent, Stage
    <3>1. CASE CheckCancel BY <3>1 DEF CheckCancel, Call
    <3>2. CASE ReadChunk BY <3>2 DEF ReadChunk
    <3>3. CASE PushPiece \/ ShortWrite \/ BrokenPipe
      BY <3>3 DEF PushPiece, ShortWrite, BrokenPipe
    <3>4. CASE CloseInput BY <3>4 DEF CloseInput
    <3>5. CASE CheckStatus BY <3>5 DEF CheckStatus
    <3>6. CASE Leave BY <3>6 DEF Leave, Call
    <3>7. CASE Terminate BY <3>7 DEF Terminate, Return, Escape
    <3>8. CASE Reaped BY <3>8 DEF Reaped, Return
    <3>9. CASE TermTimeout BY <3>9 DEF TermTimeout, Escape
    <3>10. CASE KillTimeout BY <3>10 DEF KillTimeout, OnKillTimeout, Escape
    <3>11. CASE Collect BY <3>11 DEF Collect
    <3>12. CASE CancelWrite BY <3>12 DEF CancelWrite
    <3>13. CASE Child BY <3>13 DEF Child, Consume, EndOfInput, Synced, Die
    <3>14. CASE Answer BY <3>14 DEF Answer, Authorize, Dismiss
    <3>15. CASE ChildFails \/ Hang \/ Unhang BY <3>15 DEF ChildFails, Hang, Unhang
    <3> QED BY <3>1, <3>2, <3>3, <3>4, <3>5, <3>6, <3>7, <3>8, <3>9, <3>10, <3>11, <3>12, <3>13,
               <3>14, <3>15 DEF Next, Parent
  <2> QED BY <2>1
<1>2. IInv /\ [Next]_vars => [Nearer]_vars
  BY <1>1
<1> QED BY <1>2, Inductive, PTL DEF Spec, CancelDescends

=============================================================================
