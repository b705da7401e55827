-------------------------- MODULE ActivityManager --------------------------
(***************************************************************************)
(* The screens of the device and the two FreeRTOS tasks that use them      *)
(* (src/src/activities/ActivityManager.cpp): the loop task runs the        *)
(* current activity's code and the transitions it asks for, the render     *)
(* task draws the current activity.  They share one mutex, a flag that a   *)
(* pass is in flight, and one notification each way.  What an activity     *)
(* does in its loop(), onEnter() or result handler is any sequence of the  *)
(* calls the manager offers.                                               *)
(***************************************************************************)
EXTENDS Integers, Sequences

CONSTANTS Instances, \* BOUND: the activities that may exist at once
          MaxStack   \* BOUND: depth of the stack

None == 0

ASSUME InstanceAssumption == Instances # {} /\ None \notin Instances /\ MaxStack \in Nat

VARIABLES
  current,   \* currentActivity, None for a null pointer
  stack,     \* stackActivities
  action,    \* pendingAction
  pending,   \* pendingActivity
  drain,     \* drainInput
  requested, \* requestedUpdate
  waiting,   \* waitingTaskHandle is set
  mutex,     \* who holds renderingMutex
  passActive,
  notice,    \* the render task's notification
  woken,     \* the loop task's notification
  at,        \* where the loop task is
  code,      \* which activity code it runs: loop, enter, handler or home
  sleep,     \* goToSleep has been called
  render,    \* where the render task is
  rendering, \* the activity whose render() it is in
  own        \* history: what requestUpdateAndWait has had so far

screens == <<current, stack, action, pending>>
requests == <<requested, waiting, notice, woken, own>>
loopTask == <<at, code, drain, sleep>>
renderTask == <<render, rendering, passActive>>
vars == <<screens, requests, loopTask, renderTask, mutex>>

Alive == {current, pending} \cup {stack[i] : i \in DOMAIN stack}
Free == Instances \ (Alive \cup {rendering})
New == CHOOSE a \in Free : TRUE
First == CHOOSE a \in Instances : TRUE

Init ==
  /\ current = First
  /\ stack = <<>> /\ action = "None" /\ pending = None
  /\ drain = FALSE /\ requested \in BOOLEAN /\ waiting = FALSE
  /\ mutex = "free" /\ passActive = FALSE /\ notice = FALSE /\ woken = FALSE
  /\ at = "top" /\ code = "loop" /\ sleep = FALSE
  /\ render = "idle" /\ rendering = None /\ own = "none"

-----------------------------------------------------------------------------
(* The loop task: the start of a tick. *)

\* A queued transition is announced first.
AfterCode == IF action # "None" THEN "busy" ELSE "transition"

\* Activity code is skipped while buttons of the last screen are still down;
\* the minute may change either way.
BeginTick ==
  /\ at = "top"
  /\ drain' \in {drain, FALSE}
  /\ at' = IF ~drain' THEN "code" ELSE AfterCode
  /\ code' = "loop"
  /\ requested' \in {requested, TRUE}
  /\ UNCHANGED <<screens, waiting, notice, woken, own, sleep, renderTask, mutex>>

\* goToSleep queues the sleep screen and runs one tick.
GoToSleep ==
  /\ at = "top" /\ ~sleep /\ Free # {}
  /\ sleep' = TRUE
  /\ pending' = New
  /\ action' = "Replace"
  /\ UNCHANGED <<current, stack, requests, at, code, drain, renderTask, mutex>>

-----------------------------------------------------------------------------
(* The loop task: what activity code may call, from the manager's tick or   *)
(* from the dispatch of buttons before it.                                  *)

Calling == at = "code" \/ (at = "top" /\ ~sleep)

RequestUpdate ==
  /\ Calling \/ at = "holding"
  /\ \/ requested' = TRUE /\ UNCHANGED notice
     \/ notice' = TRUE /\ UNCHANGED requested
  /\ UNCHANGED <<screens, waiting, woken, own, loopTask, renderTask, mutex>>

Lock ==
  /\ at = "code" /\ mutex = "free"
  /\ mutex' = "loop"
  /\ at' = "holding"
  /\ UNCHANGED <<screens, requests, code, drain, sleep, renderTask>>

Unlock ==
  /\ at = "holding"
  /\ mutex' = "free"
  /\ at' = "code"
  /\ UNCHANGED <<screens, requests, code, drain, sleep, renderTask>>

Queue(act, activity) ==
  /\ Calling
  /\ action' = act
  /\ pending' = activity
  /\ UNCHANGED <<current, stack, requests, loopTask, renderTask, mutex>>

ReplaceActivity == Free # {} /\ Queue("Replace", New)
PushActivity == Free # {} /\ Len(stack) < MaxStack /\ Queue("Push", New)
PopActivity == Queue("Pop", None)

\* requestUpdateAndWait: set the handle, notify, wait.
InPass == render \in {"pass", "waveform", "ending", "done"}
Register ==
  /\ at = "code"
  /\ waiting' = TRUE
  /\ own' = IF InPass THEN "early" ELSE "asked"
  /\ at' = "registered"
  /\ UNCHANGED <<screens, requested, notice, woken, code, drain, sleep, renderTask, mutex>>

\* Mutant: polls for the frame and does not ask for it.
WaitPolling ==
  /\ at = "registered"
  /\ at' = IF woken THEN "blocked" ELSE at
  /\ UNCHANGED <<screens, requests, code, drain, sleep, renderTask, mutex>>

Wait ==
  /\ at = "registered"
  /\ notice' = TRUE
  /\ at' = "blocked"
  /\ UNCHANGED <<screens, requested, waiting, woken, own, code, drain, sleep, renderTask, mutex>>

Return ==
  /\ at = "blocked" /\ woken
  /\ woken' = FALSE
  /\ own' = "none"
  /\ at' = "code"
  /\ UNCHANGED <<screens, requested, waiting, notice, code, drain, sleep, renderTask, mutex>>

EndCode ==
  /\ at = "code"
  /\ at' = IF code = "loop" THEN AfterCode ELSE "transition"
  /\ drain' = (drain \/ code \in {"enter", "handler"})
  /\ requested' = (requested \/ (code = "handler" /\ action = "None"))
  /\ UNCHANGED <<screens, waiting, notice, woken, own, code, sleep, renderTask, mutex>>

-----------------------------------------------------------------------------
(* The loop task: transitions. *)

\* showBusyIndicator draws under the mutex, or returns early.
ShowBusy ==
  /\ at = "busy"
  /\ \/ at' = "transition" /\ UNCHANGED mutex
     \/ mutex = "free" /\ mutex' = "loop" /\ at' = "indicator"
  /\ UNCHANGED <<screens, requests, code, drain, sleep, renderTask>>

BusyShown ==
  /\ at = "indicator"
  /\ mutex' = "free"
  /\ at' = "transition"
  /\ UNCHANGED <<screens, requests, code, drain, sleep, renderTask>>

\* RenderLock(ExclusiveActivityAccess).
TakeExclusive ==
  /\ at = "transition" /\ action # "None"
  /\ mutex = "free"
  /\ mutex' = "loop"
  /\ at' = "checking"
  /\ UNCHANGED <<screens, requests, code, drain, sleep, renderTask>>

\* Mutant: waits for the pass to end with the mutex in hand.
HandBackKeeping ==
  /\ at = "checking" /\ passActive
  /\ UNCHANGED vars

HandBack ==
  /\ at = "checking" /\ passActive
  /\ mutex' = "free"
  /\ at' = "delay"
  /\ UNCHANGED <<screens, requests, code, drain, sleep, renderTask>>

Retry ==
  /\ at = "delay"
  /\ at' = "transition"
  /\ UNCHANGED <<screens, requests, code, drain, sleep, renderTask, mutex>>

\* Mutant: the plain lock.
ExclusiveByMutex == at = "checking"

\* With the mutex held and no pass in flight.
Exclusive == at = "checking" /\ ~passActive

\* Mutant: the transition carried out stays queued.
ContinueQueued(place, which) ==
  /\ mutex' = "free"
  /\ at' = place
  /\ code' = which
  /\ UNCHANGED <<action, requests, drain, sleep, renderTask>>

\* The mutex is given up before the activity code that follows runs.
Continue(place, which) ==
  /\ mutex' = "free"
  /\ at' = place
  /\ code' = which
  /\ action' = "None"
  /\ UNCHANGED <<requests, drain, sleep, renderTask>>

\* The last activity is destroyed: the parent of the flow is launched next.
PopLast ==
  /\ Exclusive /\ action = "Pop" /\ stack = <<>>
  /\ current' = None
  /\ Continue("launch", "home")
  /\ UNCHANGED <<stack, pending>>

PopToParent ==
  /\ Exclusive /\ action = "Pop" /\ stack # <<>>
  /\ current' = stack[Len(stack)]
  /\ stack' = SubSeq(stack, 1, Len(stack) - 1)
  /\ Continue("code", "handler")
  /\ UNCHANGED pending

Replace ==
  /\ Exclusive /\ action = "Replace"
  /\ current' = pending
  /\ stack' = <<>>
  /\ pending' = None
  /\ Continue("code", "enter")

Push ==
  /\ Exclusive /\ action = "Push"
  /\ stack' = Append(stack, current)
  /\ current' = pending
  /\ pending' = None
  /\ Continue("code", "enter")

\* replaceActivity with no current activity takes no lock.
Launch ==
  /\ at = "launch" /\ Free # {}
  /\ current' = New
  /\ at' = "code"
  /\ UNCHANGED <<stack, action, pending, requests, code, drain, sleep, renderTask, mutex>>

\* Mutant: the flag is cleared and the render task not notified.
FlushSilently ==
  /\ at = "transition" /\ action = "None"
  /\ requested' = FALSE
  /\ at' = IF sleep THEN "asleep" ELSE "top"
  /\ UNCHANGED <<screens, waiting, notice, woken, own, code, drain, sleep, renderTask, mutex>>

\* The end of a tick: what was requested in it is passed on.
Flush ==
  /\ at = "transition" /\ action = "None"
  /\ requested' = FALSE
  /\ notice' = (notice \/ requested)
  /\ at' = IF sleep THEN "asleep" ELSE "top"
  /\ UNCHANGED <<screens, waiting, woken, own, code, drain, sleep, renderTask, mutex>>

\* Deep sleep ends in a boot.
Wake ==
  /\ at = "asleep"
  /\ current' = First
  /\ stack' = <<>> /\ action' = "None" /\ pending' = None
  /\ drain' = FALSE /\ requested' \in BOOLEAN /\ waiting' = FALSE
  /\ mutex' = "free" /\ passActive' = FALSE /\ notice' = FALSE /\ woken' = FALSE
  /\ at' = "top" /\ code' = "loop" /\ sleep' = FALSE
  /\ render' = "idle" /\ rendering' = None /\ own' = "none"

-----------------------------------------------------------------------------
(* The render task. *)

Running == at # "asleep"

TakeNotice ==
  /\ Running /\ render = "idle" /\ notice
  /\ notice' = FALSE
  /\ render' = "lock"
  /\ UNCHANGED <<screens, requested, waiting, woken, own, loopTask, rendering, passActive, mutex>>

BeginPass ==
  /\ Running /\ render = "lock" /\ mutex = "free"
  /\ mutex' = "render"
  /\ rendering' = current
  /\ passActive' = (current # None)
  /\ render' = IF current = None THEN "done" ELSE "pass"
  /\ own' = IF own = "asked" /\ current # None THEN "drawn" ELSE own
  /\ UNCHANGED <<screens, requested, waiting, notice, woken, loopTask>>

\* The reader asks for the next page to be drawn ahead.
RequestInPass ==
  /\ Running /\ render = "pass"
  /\ requested' = TRUE
  /\ UNCHANGED <<screens, waiting, notice, woken, own, loopTask, renderTask, mutex>>

\* render() may give the mutex up while the panel refreshes; the reader's
\* normal pass takes it again before it ends, others end without it.
GiveUp ==
  /\ Running /\ render = "pass"
  /\ mutex' = "free"
  /\ render' \in {"waveform", "ending"}
  /\ UNCHANGED <<screens, requests, loopTask, rendering, passActive>>

Retake ==
  /\ Running /\ render = "waveform" /\ mutex = "free"
  /\ mutex' = "render"
  /\ render' = "ending"
  /\ UNCHANGED <<screens, requests, loopTask, rendering, passActive>>

EndPass ==
  /\ Running /\ render \in {"pass", "ending"}
  /\ passActive' = FALSE
  /\ rendering' = None
  /\ render' = "done"
  /\ UNCHANGED <<screens, requests, loopTask, mutex>>

\* Mutant: the handle is not cleared.
WakeWaiterAgain ==
  /\ Running /\ render = "done"
  /\ woken' = (woken \/ waiting)
  /\ render' = "release"
  /\ UNCHANGED <<screens, requested, waiting, notice, own, loopTask, rendering, passActive, mutex>>

WakeWaiter ==
  /\ Running /\ render = "done"
  /\ waiting' = FALSE
  /\ woken' = (woken \/ waiting)
  /\ render' = "release"
  /\ UNCHANGED <<screens, requested, notice, own, loopTask, rendering, passActive, mutex>>

Release ==
  /\ Running /\ render = "release"
  /\ mutex' = IF mutex = "render" THEN "free" ELSE mutex
  /\ render' = "idle"
  /\ UNCHANGED <<screens, requests, loopTask, rendering, passActive>>

-----------------------------------------------------------------------------
Transition == PopLast \/ PopToParent \/ Replace \/ Push
Calls == RequestUpdate \/ Lock \/ ReplaceActivity \/ PushActivity \/ PopActivity \/ Register
\* What the loop task does of itself, once it has started it.
LoopStep == BeginTick \/ Unlock \/ Wait \/ Return \/ ShowBusy \/ BusyShown
            \/ HandBack \/ Retry \/ Transition \/ Launch \/ Flush \/ Wake
RenderStep == TakeNotice \/ EndPass \/ WakeWaiter \/ Release
Next ==
  \/ LoopStep \/ GoToSleep \/ Calls \/ EndCode \/ TakeExclusive
  \/ RenderStep \/ BeginPass \/ RequestInPass \/ GiveUp \/ Retake

Spec == Init /\ [][Next]_vars

\* Both tasks have the same priority and are scheduled in turn; activity code
\* and render() return; a task blocked on the mutex gets it if it is given up
\* again and again.
Fairness ==
  /\ WF_vars(LoopStep) /\ WF_vars(RenderStep)
  /\ SF_vars(EndCode) /\ SF_vars(TakeExclusive) /\ SF_vars(BeginPass) /\ SF_vars(Retake)
FairSpec == Spec /\ Fairness

-----------------------------------------------------------------------------
FlagsOK ==
  /\ drain \in BOOLEAN /\ requested \in BOOLEAN /\ waiting \in BOOLEAN /\ passActive \in BOOLEAN
  /\ notice \in BOOLEAN /\ woken \in BOOLEAN /\ sleep \in BOOLEAN

TypeOK ==
  /\ current \in Instances \cup {None} /\ pending \in Instances \cup {None}
  /\ rendering \in Instances \cup {None}
  /\ stack \in Seq(Instances) /\ Len(stack) <= MaxStack
  /\ action \in {"None", "Push", "Pop", "Replace"}
  /\ (pending # None) <=> (action \in {"Push", "Replace"})
  /\ FlagsOK
  /\ (mutex = "loop") <=> (at \in {"holding", "indicator", "checking"})
  /\ mutex = "render" => render \in {"pass", "ending", "done", "release"}
  /\ mutex \in {"free", "loop", "render"}
  /\ at \in {"top", "code", "holding", "registered", "blocked", "busy", "indicator",
             "transition", "checking", "delay", "launch", "asleep"}
  /\ code \in {"loop", "enter", "handler", "home"}
  /\ render \in {"idle", "lock", "pass", "waveform", "ending", "done", "release"}
  /\ own \in {"none", "early", "asked", "drawn"}
  /\ passActive <=> rendering # None

\* ActivityManager.h:102-111: the activity the render task is drawing is never
\* destroyed, nor replaced under it, though render() gives the mutex up.
DrawsTheCurrent == rendering # None => rendering = current

\* docs/activity-manager.md:216, requestUpdateAndWait "blocks the calling task
\* until the render completes": unless a pass was already in flight when it was
\* called, it returns only when a pass begun since has drawn the screen.
WaitedForItsFrame == at = "blocked" /\ woken => own \in {"early", "drawn"}

\* ActivityManager.cpp:1070-1073, 408-418: an update asked for while a screen
\* is current is followed by a pass that begins after the asking, unless the
\* screen is left first; and a pass the render task has woken for begins.
UpdateDrawn ==
  /\ \A a \in Instances :
       (requested /\ current = a) ~> (render = "lock" \/ current # a \/ at = "asleep")
  /\ (render = "lock") ~> (render # "lock")

\* RenderLock.h:23: a queued transition is carried out, however many passes
\* are in its way: the mutex handed back lets the pass end.
TransitionDone == (action # "None") ~> (action = "None")

\* ActivityManager.cpp:1103: a task that waits for its update is woken.
WaitEnds == (at = "registered") ~> (at = "code")
=============================================================================
