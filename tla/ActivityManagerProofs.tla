----------------------- MODULE ActivityManagerProofs -----------------------
(***************************************************************************)
(* Theorems about ActivityManager, for any set of activities and any depth *)
(* of the stack: types, that the activity being drawn stays the current    *)
(* one, and that a blocking update returns after its own frame.            *)
(***************************************************************************)
EXTENDS ActivityManager, SequenceTheorems, TLAPS

\* A pass is in flight exactly while the render task is in render(), which
\* holds the mutex until it gives it up.
PassInFlight ==
  /\ passActive <=> (render \in {"pass", "waveform", "ending"})
  /\ render = "pass" => mutex = "render"

\* There is a current activity, but between the end of the last one and the
\* launch of its parent.
CurrentUnlessLaunching == (current = None) <=> (at = "launch")

\* An activity queued to be pushed finds room on the stack.
PushFits == action = "Push" => Len(stack) < MaxStack

\* Only a task inside requestUpdateAndWait waits or has been woken, never
\* both; while it waits, a pass that is in flight or done counts for it.
WaitersFrame ==
  /\ waiting \/ woken => at \in {"registered", "blocked"}
  /\ ~(waiting /\ woken)
  /\ woken => own \in {"early", "drawn"}
  /\ waiting => own # "none"
  /\ waiting /\ InPass => own \in {"early", "drawn"}

IInv == TypeOK /\ PassInFlight /\ CurrentUnlessLaunching /\ PushFits /\ DrawsTheCurrent /\ WaitersFrame

-----------------------------------------------------------------------------
\* A new activity is an instance, and not the null pointer.
LEMMA NewIsAnInstance == Free # {} => New \in Instances /\ New # None
BY InstanceAssumption DEF New, Free

\* The first activity is one of the instances.
LEMMA FirstIsAnInstance == First \in Instances /\ First # None
BY InstanceAssumption DEF First

\* The initial state satisfies the inductive invariant.
LEMMA InitInductive == Init => IInv
<1>1. Init => FlagsOK
  BY DEF Init, FlagsOK
<1> QED
  BY <1>1, InstanceAssumption, FirstIsAnInstance, EmptySeq
  DEF Init, IInv, TypeOK, PassInFlight, CurrentUnlessLaunching, PushFits, DrawsTheCurrent, WaitersFrame, InPass

-----------------------------------------------------------------------------
(* Every action keeps the inductive invariant. *)

\* The tuples of variables are always expanded.
USE DEF screens, requests, loopTask, renderTask

\* A tick begins: only the drain and the deferred update change.
LEMMA BeginTickKeeps == IInv /\ BeginTick => IInv'
<1> SUFFICES ASSUME IInv, BeginTick PROVE IInv'
  OBVIOUS
<1>1. FlagsOK'
  BY DEF BeginTick, AfterCode, IInv, TypeOK, FlagsOK
<1>2. TypeOK'
  BY <1>1 DEF BeginTick, AfterCode, IInv, TypeOK, PassInFlight, CurrentUnlessLaunching, PushFits, WaitersFrame
<1>3. PassInFlight'
  BY DEF BeginTick, AfterCode, IInv, TypeOK, PassInFlight
<1>4. CurrentUnlessLaunching'
  BY DEF BeginTick, AfterCode, IInv, CurrentUnlessLaunching
<1>5. PushFits'
  BY DEF BeginTick, AfterCode, IInv, PushFits
<1>6. DrawsTheCurrent'
  BY DEF BeginTick, AfterCode, IInv, TypeOK, DrawsTheCurrent
<1>7. WaitersFrame'
  BY DEF BeginTick, AfterCode, IInv, TypeOK, CurrentUnlessLaunching, WaitersFrame, InPass
<1> QED BY <1>2, <1>3, <1>4, <1>5, <1>6, <1>7 DEF IInv

\* The sleep screen is queued: something pending, and a replacement.
LEMMA GoToSleepKeeps == IInv /\ GoToSleep => IInv'
<1>1. IInv /\ GoToSleep => FlagsOK'
  BY DEF GoToSleep, IInv, TypeOK, FlagsOK
<1> QED
  BY <1>1, NewIsAnInstance
  DEF GoToSleep, IInv, TypeOK, PassInFlight, CurrentUnlessLaunching,
      PushFits, DrawsTheCurrent, WaitersFrame, InPass

\* An update is asked for.
LEMMA RequestUpdateKeeps == IInv /\ RequestUpdate => IInv'
<1>1. IInv /\ RequestUpdate => FlagsOK'
  BY DEF RequestUpdate, Calling, IInv, TypeOK, FlagsOK
<1> QED
  BY <1>1 DEF RequestUpdate, Calling, IInv, TypeOK, PassInFlight, CurrentUnlessLaunching,
      PushFits, DrawsTheCurrent, WaitersFrame, InPass

\* Activity code takes the mutex when it is free.
LEMMA LockKeeps == IInv /\ Lock => IInv'
<1>1. IInv /\ Lock => FlagsOK'
  BY DEF Lock, IInv, TypeOK, FlagsOK
<1> QED
  BY <1>1 DEF Lock, IInv, TypeOK, PassInFlight, CurrentUnlessLaunching,
      PushFits, DrawsTheCurrent, WaitersFrame, InPass

\* Activity code gives the mutex back.
LEMMA UnlockKeeps == IInv /\ Unlock => IInv'
<1>1. IInv /\ Unlock => FlagsOK'
  BY DEF Unlock, IInv, TypeOK, FlagsOK
<1> QED
  BY <1>1 DEF Unlock, IInv, TypeOK, PassInFlight, CurrentUnlessLaunching,
      PushFits, DrawsTheCurrent, WaitersFrame, InPass

\* A replacement is queued.
LEMMA ReplaceActivityKeeps == IInv /\ ReplaceActivity => IInv'
<1>1. IInv /\ ReplaceActivity => FlagsOK'
  BY DEF ReplaceActivity, Queue, Calling, IInv, TypeOK, FlagsOK
<1> QED
  BY <1>1, NewIsAnInstance
  DEF ReplaceActivity, Queue, Calling, IInv, TypeOK, PassInFlight, CurrentUnlessLaunching,
      PushFits, DrawsTheCurrent, WaitersFrame, InPass

\* A push is queued, while the stack has room.
LEMMA PushActivityKeeps == IInv /\ PushActivity => IInv'
<1>1. IInv /\ PushActivity => FlagsOK'
  BY DEF PushActivity, Queue, Calling, IInv, TypeOK, FlagsOK
<1> QED
  BY <1>1, NewIsAnInstance
  DEF PushActivity, Queue, Calling, IInv, TypeOK, PassInFlight, CurrentUnlessLaunching,
      PushFits, DrawsTheCurrent, WaitersFrame, InPass

\* A pop is queued and what was pending is dropped.
LEMMA PopActivityKeeps == IInv /\ PopActivity => IInv'
<1>1. IInv /\ PopActivity => FlagsOK'
  BY DEF PopActivity, Queue, Calling, IInv, TypeOK, FlagsOK
<1> QED
  BY <1>1 DEF PopActivity, Queue, Calling, IInv, TypeOK, PassInFlight, CurrentUnlessLaunching,
      PushFits, DrawsTheCurrent, WaitersFrame, InPass

\* The loop task registers: a pass in flight counts for it as early.
LEMMA RegisterKeeps == IInv /\ Register => IInv'
<1>1. IInv /\ Register => FlagsOK'
  BY DEF Register, IInv, TypeOK, FlagsOK
<1> QED
  BY <1>1 DEF Register, IInv, TypeOK, PassInFlight, CurrentUnlessLaunching,
      PushFits, DrawsTheCurrent, WaitersFrame, InPass

\* The loop task blocks.
LEMMA WaitKeeps == IInv /\ Wait => IInv'
<1>1. IInv /\ Wait => FlagsOK'
  BY DEF Wait, IInv, TypeOK, FlagsOK
<1> QED
  BY <1>1 DEF Wait, IInv, TypeOK, PassInFlight, CurrentUnlessLaunching,
      PushFits, DrawsTheCurrent, WaitersFrame, InPass

\* The loop task goes on: it has been woken, so it no longer waits.
LEMMA ReturnKeeps == IInv /\ Return => IInv'
<1>1. IInv /\ Return => FlagsOK'
  BY DEF Return, IInv, TypeOK, FlagsOK
<1> QED
  BY <1>1 DEF Return, IInv, TypeOK, PassInFlight, CurrentUnlessLaunching,
      PushFits, DrawsTheCurrent, WaitersFrame, InPass

\* Activity code ends.
LEMMA EndCodeKeeps == IInv /\ EndCode => IInv'
<1>1. IInv /\ EndCode => FlagsOK'
  BY DEF EndCode, AfterCode, IInv, TypeOK, FlagsOK
<1> QED
  BY <1>1 DEF EndCode, AfterCode, IInv, TypeOK, PassInFlight, CurrentUnlessLaunching,
      PushFits, DrawsTheCurrent, WaitersFrame, InPass

\* The busy mark takes the mutex or is skipped.
LEMMA ShowBusyKeeps == IInv /\ ShowBusy => IInv'
<1>1. IInv /\ ShowBusy => FlagsOK'
  BY DEF ShowBusy, IInv, TypeOK, FlagsOK
<1> QED
  BY <1>1 DEF ShowBusy, IInv, TypeOK, PassInFlight, CurrentUnlessLaunching,
      PushFits, DrawsTheCurrent, WaitersFrame, InPass

\* The busy mark gives the mutex back.
LEMMA BusyShownKeeps == IInv /\ BusyShown => IInv'
<1>1. IInv /\ BusyShown => FlagsOK'
  BY DEF BusyShown, IInv, TypeOK, FlagsOK
<1> QED
  BY <1>1 DEF BusyShown, IInv, TypeOK, PassInFlight, CurrentUnlessLaunching,
      PushFits, DrawsTheCurrent, WaitersFrame, InPass

\* A transition takes the mutex.
LEMMA TakeExclusiveKeeps == IInv /\ TakeExclusive => IInv'
<1>1. IInv /\ TakeExclusive => FlagsOK'
  BY DEF TakeExclusive, IInv, TypeOK, FlagsOK
<1> QED
  BY <1>1 DEF TakeExclusive, IInv, TypeOK, PassInFlight, CurrentUnlessLaunching,
      PushFits, DrawsTheCurrent, WaitersFrame, InPass

\* A transition gives it back while a pass is in flight.
LEMMA HandBackKeeps == IInv /\ HandBack => IInv'
<1>1. IInv /\ HandBack => FlagsOK'
  BY DEF HandBack, IInv, TypeOK, FlagsOK
<1> QED
  BY <1>1 DEF HandBack, IInv, TypeOK, PassInFlight, CurrentUnlessLaunching,
      PushFits, DrawsTheCurrent, WaitersFrame, InPass

\* A transition tries again.
LEMMA RetryKeeps == IInv /\ Retry => IInv'
<1>1. IInv /\ Retry => FlagsOK'
  BY DEF Retry, IInv, TypeOK, FlagsOK
<1> QED
  BY <1>1 DEF Retry, IInv, TypeOK, PassInFlight, CurrentUnlessLaunching,
      PushFits, DrawsTheCurrent, WaitersFrame, InPass

\* The last activity goes: no pass is in flight, so nothing draws it.
LEMMA PopLastKeeps == IInv /\ PopLast => IInv'
<1>1. IInv /\ PopLast => FlagsOK'
  BY DEF PopLast, Exclusive, Continue, IInv, TypeOK, FlagsOK
<1> QED
  BY <1>1 DEF PopLast, Exclusive, Continue, IInv, TypeOK, PassInFlight, CurrentUnlessLaunching,
      PushFits, DrawsTheCurrent, WaitersFrame, InPass

\* An activity goes and its parent is current; nothing draws it.
LEMMA PopToParentKeeps == IInv /\ PopToParent => IInv'
<1>1. IInv /\ PopToParent => FlagsOK'
  BY DEF PopToParent, Exclusive, Continue, IInv, TypeOK, FlagsOK
<1> QED
  BY <1>1, InstanceAssumption
  DEF PopToParent, Exclusive, Continue, IInv, TypeOK, PassInFlight, CurrentUnlessLaunching,
      PushFits, DrawsTheCurrent, WaitersFrame, InPass

\* The stack is emptied and the pending activity is current.
LEMMA ReplaceKeeps == IInv /\ Replace => IInv'
<1>1. IInv /\ Replace => FlagsOK'
  BY DEF Replace, Exclusive, Continue, IInv, TypeOK, FlagsOK
<1> QED
  BY <1>1, InstanceAssumption, EmptySeq
  DEF Replace, Exclusive, Continue, IInv, TypeOK, PassInFlight, CurrentUnlessLaunching,
      PushFits, DrawsTheCurrent, WaitersFrame, InPass

\* The current activity goes to the stack, which had room for it.
LEMMA PushKeeps == IInv /\ Push => IInv'
<1>1. IInv /\ Push => FlagsOK'
  BY DEF Push, Exclusive, Continue, IInv, TypeOK, FlagsOK
<1> QED
  BY <1>1, InstanceAssumption
  DEF Push, Exclusive, Continue, IInv, TypeOK, PassInFlight, CurrentUnlessLaunching,
      PushFits, DrawsTheCurrent, WaitersFrame, InPass

\* The parent flow is launched: nothing was current, so nothing is drawn.
LEMMA LaunchKeeps == IInv /\ Launch => IInv'
<1>1. IInv /\ Launch => FlagsOK'
  BY DEF Launch, IInv, TypeOK, FlagsOK
<1> QED
  BY <1>1, NewIsAnInstance
  DEF Launch, IInv, TypeOK, PassInFlight, CurrentUnlessLaunching,
      PushFits, DrawsTheCurrent, WaitersFrame, InPass

\* A deferred update becomes a notification.
LEMMA FlushKeeps == IInv /\ Flush => IInv'
<1>1. IInv /\ Flush => FlagsOK'
  BY DEF Flush, IInv, TypeOK, FlagsOK
<1> QED
  BY <1>1 DEF Flush, IInv, TypeOK, PassInFlight, CurrentUnlessLaunching,
      PushFits, DrawsTheCurrent, WaitersFrame, InPass

\* A boot.
LEMMA WakeKeeps == IInv /\ Wake => IInv'
<1>1. IInv /\ Wake => FlagsOK'
  BY DEF Wake, IInv, TypeOK, FlagsOK
<1> QED
  BY <1>1, InstanceAssumption, FirstIsAnInstance, EmptySeq
  DEF Wake, IInv, TypeOK, PassInFlight, CurrentUnlessLaunching,
      PushFits, DrawsTheCurrent, WaitersFrame, InPass

\* The render task takes its notification.
LEMMA TakeNoticeKeeps == IInv /\ TakeNotice => IInv'
<1>1. IInv /\ TakeNotice => FlagsOK'
  BY DEF TakeNotice, Running, IInv, TypeOK, FlagsOK
<1> QED
  BY <1>1 DEF TakeNotice, Running, IInv, TypeOK, PassInFlight, CurrentUnlessLaunching,
      PushFits, DrawsTheCurrent, WaitersFrame, InPass

\* A pass begins and counts for whoever waits: somebody who waits has a
\* current activity, so the pass draws.
LEMMA BeginPassKeeps == IInv /\ BeginPass => IInv'
<1> SUFFICES ASSUME IInv, BeginPass PROVE IInv'
  OBVIOUS
<1>1. FlagsOK'
  BY DEF BeginPass, Running, IInv, TypeOK, FlagsOK
<1>2. TypeOK'
  BY <1>1 DEF BeginPass, Running, IInv, TypeOK, PassInFlight, CurrentUnlessLaunching, PushFits, WaitersFrame
<1>3. PassInFlight'
  BY DEF BeginPass, Running, IInv, TypeOK, PassInFlight
<1>4. CurrentUnlessLaunching'
  BY DEF BeginPass, Running, IInv, CurrentUnlessLaunching
<1>5. PushFits'
  BY DEF BeginPass, Running, IInv, PushFits
<1>6. DrawsTheCurrent'
  BY DEF BeginPass, Running, IInv, TypeOK, DrawsTheCurrent
<1>7. WaitersFrame'
  BY DEF BeginPass, Running, IInv, TypeOK, CurrentUnlessLaunching, WaitersFrame, InPass
<1> QED BY <1>2, <1>3, <1>4, <1>5, <1>6, <1>7 DEF IInv

\* A pass asks for another.
LEMMA RequestInPassKeeps == IInv /\ RequestInPass => IInv'
<1>1. IInv /\ RequestInPass => FlagsOK'
  BY DEF RequestInPass, Running, IInv, TypeOK, FlagsOK
<1> QED
  BY <1>1 DEF RequestInPass, Running, IInv, TypeOK, PassInFlight, CurrentUnlessLaunching,
      PushFits, DrawsTheCurrent, WaitersFrame, InPass

\* A pass gives the mutex up: it held it.
LEMMA GiveUpKeeps == IInv /\ GiveUp => IInv'
<1>1. IInv /\ GiveUp => FlagsOK'
  BY DEF GiveUp, Running, IInv, TypeOK, FlagsOK
<1> QED
  BY <1>1 DEF GiveUp, Running, IInv, TypeOK, PassInFlight, CurrentUnlessLaunching,
      PushFits, DrawsTheCurrent, WaitersFrame, InPass

\* A pass takes the mutex again.
LEMMA RetakeKeeps == IInv /\ Retake => IInv'
<1>1. IInv /\ Retake => FlagsOK'
  BY DEF Retake, Running, IInv, TypeOK, FlagsOK
<1> QED
  BY <1>1 DEF Retake, Running, IInv, TypeOK, PassInFlight, CurrentUnlessLaunching,
      PushFits, DrawsTheCurrent, WaitersFrame, InPass

\* A pass ends.
LEMMA EndPassKeeps == IInv /\ EndPass => IInv'
<1>1. IInv /\ EndPass => FlagsOK'
  BY DEF EndPass, Running, IInv, TypeOK, FlagsOK
<1> QED
  BY <1>1 DEF EndPass, Running, IInv, TypeOK, PassInFlight, CurrentUnlessLaunching,
      PushFits, DrawsTheCurrent, WaitersFrame, InPass

\* Whoever waits is woken; the pass that ended counts for it.
LEMMA WakeWaiterKeeps == IInv /\ WakeWaiter => IInv'
<1> SUFFICES ASSUME IInv, WakeWaiter PROVE IInv'
  OBVIOUS
<1>1. FlagsOK'
  BY DEF WakeWaiter, Running, IInv, TypeOK, FlagsOK
<1>2. TypeOK'
  BY <1>1 DEF WakeWaiter, Running, IInv, TypeOK, PassInFlight, CurrentUnlessLaunching, PushFits, WaitersFrame
<1>3. PassInFlight'
  BY DEF WakeWaiter, Running, IInv, TypeOK, PassInFlight
<1>4. CurrentUnlessLaunching'
  BY DEF WakeWaiter, Running, IInv, CurrentUnlessLaunching
<1>5. PushFits'
  BY DEF WakeWaiter, Running, IInv, PushFits
<1>6. DrawsTheCurrent'
  BY DEF WakeWaiter, Running, IInv, TypeOK, DrawsTheCurrent
<1>7. WaitersFrame'
  BY DEF WakeWaiter, Running, IInv, TypeOK, CurrentUnlessLaunching, WaitersFrame, InPass
<1> QED BY <1>2, <1>3, <1>4, <1>5, <1>6, <1>7 DEF IInv

\* The render task gives the mutex back if it still has it.
LEMMA ReleaseKeeps == IInv /\ Release => IInv'
<1>1. IInv /\ Release => FlagsOK'
  BY DEF Release, Running, IInv, TypeOK, FlagsOK
<1> QED
  BY <1>1 DEF Release, Running, IInv, TypeOK, PassInFlight, CurrentUnlessLaunching,
      PushFits, DrawsTheCurrent, WaitersFrame, InPass

-----------------------------------------------------------------------------
\* The invariant is inductive.
LEMMA StepInductive == IInv /\ [Next]_vars => IInv'
<1> SUFFICES ASSUME IInv, [Next]_vars PROVE IInv'
  OBVIOUS
<1>1. CASE LoopStep
  BY <1>1, BeginTickKeeps, UnlockKeeps, WaitKeeps, ReturnKeeps, ShowBusyKeeps, BusyShownKeeps,
     HandBackKeeps, RetryKeeps, PopLastKeeps, PopToParentKeeps, ReplaceKeeps, PushKeeps,
     LaunchKeeps, FlushKeeps, WakeKeeps DEF LoopStep, Transition
<1>2. CASE GoToSleep \/ EndCode \/ TakeExclusive
  BY <1>2, GoToSleepKeeps, EndCodeKeeps, TakeExclusiveKeeps
<1>3. CASE Calls
  BY <1>3, RequestUpdateKeeps, LockKeeps, ReplaceActivityKeeps, PushActivityKeeps,
     PopActivityKeeps, RegisterKeeps DEF Calls
<1>4. CASE RenderStep
  BY <1>4, TakeNoticeKeeps, EndPassKeeps, WakeWaiterKeeps, ReleaseKeeps DEF RenderStep
<1>5. CASE BeginPass \/ RequestInPass \/ GiveUp \/ Retake
  BY <1>5, BeginPassKeeps, RequestInPassKeeps, GiveUpKeeps, RetakeKeeps
<1>6. CASE UNCHANGED vars
  BY <1>6 DEF vars,
     IInv, TypeOK, PassInFlight, CurrentUnlessLaunching, PushFits, DrawsTheCurrent, WaitersFrame, InPass, FlagsOK
<1> QED BY <1>1, <1>2, <1>3, <1>4, <1>5, <1>6 DEF Next

\* The invariant holds of every reachable state.
THEOREM InvariantHolds == Spec => []IInv
BY InitInductive, StepInductive, PTL DEF Spec

\* Every variable keeps its type, the mutex is with a task that can hold it,
\* and something is pending exactly when a push or a replacement is queued.
THEOREM TypeCorrect == Spec => []TypeOK
<1>1. IInv => TypeOK
  BY DEF IInv
<1> QED BY <1>1, InvariantHolds, PTL

\* The activity the render task draws is the current one, so no transition
\* has destroyed or replaced it, though render() gives the mutex up.
THEOREM DrawnIsCurrent == Spec => []DrawsTheCurrent
<1>1. IInv => DrawsTheCurrent
  BY DEF IInv
<1> QED BY <1>1, InvariantHolds, PTL

\* A blocking update returns after a pass begun since, unless a pass was in
\* flight when it was asked for.
THEOREM WaiterGetsItsFrame == Spec => []WaitedForItsFrame
<1>1. IInv => WaitedForItsFrame
  BY DEF IInv, WaitersFrame, WaitedForItsFrame
<1> QED BY <1>1, InvariantHolds, PTL
=============================================================================
