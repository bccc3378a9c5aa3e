----------------------- MODULE EventDispatcherProofs -----------------------
(* Theorems about EventDispatcher, for any number of threads, objects, timers, notifiers, *)
(* handles, queued events and nested passes.                                               *)
EXTENDS EventDispatcher, TLAPS

-----------------------------------------------------------------------------
(* Type correctness.                                                       *)

OpenStates == {"active", "stopped", "fired", "failed"}

(* HandlesTracked and OwnersAlive, handle by handle.  Type correctness rests on them: what *)
(* timer_callback queues is a receiver only because the handle that fired has an owner.    *)
Held ==
    /\ \A t \in TimerIds : m_Timers[t] # None =>
           uv[m_Timers[t]] \in OpenStates /\ owner[m_Timers[t]] \in alive
    /\ \A n \in Notifiers : m_Notifiers[n] # None =>
           uv[m_Notifiers[n]] \in OpenStates /\ n \in alive
    /\ \A h \in TimerHandles : uv[h] \in OpenStates => \E t \in TimerIds : m_Timers[t] = h
    /\ \A h \in PollHandles : uv[h] \in OpenStates => \E n \in Notifiers : m_Notifiers[n] = h

Unshared ==
    /\ \A t, u \in TimerIds : m_Timers[t] # None /\ m_Timers[t] = m_Timers[u] => t = u
    /\ \A n, k \in Notifiers : m_Notifiers[n] # None /\ m_Notifiers[n] = m_Notifiers[k] => n = k

Emptied == pc = "destroyed" => \A h \in Handles : uv[h] = "none"

TypeInv == LoopTypeOK /\ CallTypeOK /\ TableTypeOK /\ Held /\ Unshared /\ Emptied

LEMMA NewPassType ==
    ASSUME NEW w \in BOOLEAN, NEW t \in BOOLEAN, NEW n \in BOOLEAN
    PROVE  NewPass(w, t, n) \in Pass
BY DEF NewPass, Pass, Phases

LEMMA IdlePassType == IdlePass \in Pass
BY NewPassType DEF IdlePass

LEMMA TypeInit == Init => TypeInv
<1> SUFFICES ASSUME Init PROVE TypeInv
    OBVIOUS
<1>1. LoopTypeOK
    BY IdlePassType, NestingAssumption DEF Init, LoopTypeOK, PCs
<1>2. CallTypeOK
  <2>1. posted \in 0..MaxPosted /\ sendable \in 0..posted
      BY PostedAssumption DEF Init
  <2>2. caller \in [Threads -> CallerStates]
      BY DEF Init, CallerStates
  <2> QED
      BY <2>1, <2>2 DEF Init, CallTypeOK
<1>3. TableTypeOK
    BY DEF Init, TableTypeOK, HandleStates
<1>4. Held /\ Unshared /\ Emptied
    BY DEF Init, Held, Unshared, Emptied, Handles, OpenStates
<1> QED
    BY <1>1, <1>2, <1>3, <1>4 DEF TypeInv

(* What Enter leaves of the locals, and what it sets. *)
LEMMA EnterPass ==
    ASSUME TypeInv, Enter
    PROVE  /\ pass' \in Pass
           /\ pass'.exTimers = pass.exTimers
           /\ pass'.exNotifiers = pass.exNotifiers
           /\ pass'.phase = pass.phase
           /\ pass'.reentered = pass.reentered
           /\ posted > 0 => pass'.sends
<1>1. (m_Event_list # <<>> \/ Tracked # {}) \in BOOLEAN /\ (posted > 0) \in BOOLEAN
    OBVIOUS
<1>2. PICK r \in BOOLEAN, f \in BOOLEAN :
          pass' = [pass EXCEPT !.result = r, !.sends = f] /\ f = (posted > 0)
    BY <1>1, Zenon DEF Enter
<1> QED
    BY <1>2 DEF TypeInv, LoopTypeOK, Pass

LEMMA LoopTypeStep == TypeInv /\ [Next]_vars => LoopTypeOK'
<1> SUFFICES ASSUME TypeInv, [Next]_vars PROVE LoopTypeOK'
    OBVIOUS
<1> USE DEF TypeInv, LoopTypeOK, PCs, loopVars, frameVars
<1>1. ASSUME NEW th \in Threads, OtherThread(th) PROVE LoopTypeOK'
    BY <1>1 DEF OtherThread, PostEvent, Exit, CallInterrupt, interrupt, wakeUp, asyncSend
<1>2. ASSUME LoopThread PROVE LoopTypeOK'
  <2>1. CASE CheckExit
      BY <2>1, NewPassType DEF CheckExit
  <2>2. CASE Enter
    <3>1. pc' = "post" /\ UNCHANGED frameVars
        BY <2>2, Zenon DEF Enter
    <3> QED
        BY <2>2, <3>1, EnterPass
  <2>3. CASE SendPosted
      BY <2>3 DEF SendPosted
  <2>4. CASE SendPostedReturns \/ Decide
      BY <2>4 DEF SendPostedReturns, Decide
  <2>5. CASE TakeAsync
      BY <2>5 DEF TakeAsync
  <2>6. CASE wake_up_handler
      BY <2>6 DEF wake_up_handler
  <2>7. CASE RunReturns
    <3>1. PICK r \in BOOLEAN : pass' = [pass EXCEPT !.list = m_Event_list, !.result = r,
                                                    !.phase = "deliver"]
        BY <2>7, Zenon DEF RunReturns
    <3>2. m_Event_list \in Seq(Receivers)
        BY DEF TableTypeOK
    <3>3. pass' \in Pass
        BY <3>1, <3>2 DEF Pass, Phases
    <3> QED
        BY <2>7, <3>3 DEF RunReturns
  <2>8. CASE Deliver
    <3>1. PICK rest \in Seq(Receivers) : pass' = [pass EXCEPT !.list = rest]
      <4>1. pass.list \in Seq(Receivers) /\ pass.list # <<>>
          BY <2>8 DEF Deliver, Pass
      <4>2. Tail(pass.list) \in Seq(Receivers)
          BY <4>1
      <4> QED
          BY <2>8, <4>2, Zenon DEF Deliver
    <3>2. pass' \in Pass
        BY <3>1 DEF Pass
    <3> QED
        BY <2>8, <3>2 DEF Deliver
  <2>9. CASE Delivered
      BY <2>9 DEF Delivered
  <2>10. CASE Return
    <3>1. CASE depth = 0
        BY <2>10, <3>1, IdlePassType DEF Return
    <3>2. CASE depth # 0
        BY <2>10, <3>2, IdlePassType, NestingAssumption DEF Return
    <3> QED
        BY <3>1, <3>2
  <2> QED
      BY <1>2, <2>1, <2>2, <2>3, <2>4, <2>5, <2>6, <2>7, <2>8, <2>9, <2>10 DEF LoopThread
<1>3. ASSUME HandlerReturns PROVE LoopTypeOK'
    BY <1>3 DEF HandlerReturns, Pass, Phases
<1>4. ASSUME Handler PROVE LoopTypeOK'
  <2>1. CASE NestedPass
    <3>1. PICK r \in BOOLEAN :
              saved' = [saved EXCEPT ![depth + 1] = [pass EXCEPT !.reentered = r]]
        BY <2>1, Zenon DEF NestedPass
    <3>2. [pass EXCEPT !.reentered = r] \in Pass
        BY DEF Pass
    <3>3. pass' \in Pass
        BY <2>1, NewPassType DEF NestedPass
    <3> QED
        BY <2>1, <3>1, <3>2, <3>3, NestingAssumption DEF NestedPass
  <2>2. CASE ~NestedPass
      BY <1>4, <2>2 DEF Handler, unregisterTimer, registerTimer, DestroyObject,
         registerSocketNotifier, DisableNotifier, PostHere, InterruptHere
  <2> QED
      BY <2>1, <2>2
<1>5. ASSUME NEW h \in TimerHandles, timer_callback(h) PROVE LoopTypeOK'
    BY <1>5 DEF timer_callback, RunGoesOn
<1>6. ASSUME NEW n \in Notifiers, socket_notifier_callback(n) \/ PollError(n)
      PROVE  LoopTypeOK'
    BY <1>6 DEF socket_notifier_callback, PollError, RunGoesOn
<1>7. ASSUME Destroy PROVE LoopTypeOK'
    BY <1>7 DEF Destroy
<1>8. ASSUME UNCHANGED vars PROVE LoopTypeOK'
    BY <1>8 DEF vars
<1> QED
    BY <1>1, <1>2, <1>3, <1>4, <1>5, <1>6, <1>7, <1>8, Zenon DEF Next, Terminated

LEMMA CallTypeStep == TypeInv /\ [Next]_vars => CallTypeOK'
<1> SUFFICES ASSUME TypeInv, [Next]_vars PROVE CallTypeOK'
    OBVIOUS
<1> USE DEF TypeInv, CallTypeOK, wakeVars, queueVars
<1> USE PostedAssumption
<1>1. ASSUME NEW th \in Threads, OtherThread(th) PROVE CallTypeOK'
  <2> USE DEF OtherThread, PostEvent, Exit, CallInterrupt, interrupt, wakeUp, asyncSend
  <2>1. caller' \in [Threads -> CallerStates]
      BY <1>1 DEF CallerStates
  <2>2. posted' \in 0..MaxPosted /\ sendable' \in 0..posted'
      BY <1>1
  <2>3. m_Interrupt' \in BOOLEAN /\ m_Awaken' \in BOOLEAN /\ m_Wakeups' \in {0, 1}
      BY <1>1
  <2>4. asyncPending' \in BOOLEAN /\ exit' \in BOOLEAN
      BY <1>1
  <2> QED
      BY <2>1, <2>2, <2>3, <2>4
<1>2. ASSUME LoopThread PROVE CallTypeOK'
  <2>1. CASE SendPosted
      BY <2>1 DEF SendPosted
  <2>2. CASE Enter
    <3>1. /\ m_Interrupt' = FALSE /\ m_Awaken' = FALSE /\ sendable' = posted
          /\ UNCHANGED <<wakeVars, posted, exit, caller>>
        BY <2>2, Zenon DEF Enter
    <3>2. posted' \in 0..MaxPosted /\ sendable' \in 0..posted'
        BY <3>1
    <3> QED
        BY <3>1, <3>2
  <2>3. CASE SendPostedReturns
    <3>1. m_Wakeups' \in {0, 1} /\ asyncPending' \in BOOLEAN
        BY <2>3, Zenon DEF SendPostedReturns, WakeUpHere
    <3> QED
        BY <2>3, <3>1 DEF SendPostedReturns
  <2>4. CASE ~SendPosted /\ ~Enter /\ ~SendPostedReturns
      BY <1>2, <2>4 DEF LoopThread, CheckExit, Decide, TakeAsync, wake_up_handler,
         RunReturns, Deliver, Delivered, Return
  <2> QED
      BY <2>1, <2>2, <2>3, <2>4
<1>3. ASSUME HandlerReturns PROVE CallTypeOK'
    BY <1>3 DEF HandlerReturns
<1>4. ASSUME Handler PROVE CallTypeOK'
  <2>1. CASE PostHere
    <3>1. m_Wakeups' = 1 /\ asyncPending' \in BOOLEAN
        BY <2>1, Zenon DEF PostHere, WakeUpHere
    <3>2. posted' \in 0..MaxPosted /\ sendable' \in 0..posted'
        BY <2>1 DEF PostHere
    <3> QED
        BY <2>1, <3>1, <3>2 DEF PostHere
  <2>2. CASE InterruptHere
    <3>1. m_Wakeups' = 1 /\ asyncPending' \in BOOLEAN /\ exit' \in BOOLEAN
        BY <2>2, Zenon DEF InterruptHere, WakeUpHere
    <3> QED
        BY <2>2, <3>1 DEF InterruptHere
  <2>3. CASE ~PostHere /\ ~InterruptHere
      BY <1>4, <2>3 DEF Handler, unregisterTimer, registerTimer, DestroyObject,
         registerSocketNotifier, DisableNotifier, NestedPass
  <2> QED
      BY <2>1, <2>2, <2>3
<1>5. ASSUME NEW h \in TimerHandles, timer_callback(h) PROVE CallTypeOK'
    BY <1>5 DEF timer_callback
<1>6. ASSUME NEW n \in Notifiers, socket_notifier_callback(n) \/ PollError(n)
      PROVE  CallTypeOK'
    BY <1>6 DEF socket_notifier_callback, PollError
<1>7. ASSUME Destroy PROVE CallTypeOK'
    BY <1>7 DEF Destroy
<1>8. ASSUME UNCHANGED vars PROVE CallTypeOK'
    BY <1>8 DEF vars
<1> QED
    BY <1>1, <1>2, <1>3, <1>4, <1>5, <1>6, <1>7, <1>8, Zenon DEF Next, Terminated

LEMMA TrackedMembers ==
    ASSUME TableTypeOK, NEW h \in Handles
    PROVE  /\ h \in TrackedTimers <=> \E t \in TimerIds : m_Timers[t] = h
           /\ h \in TrackedNotifiers <=> \E n \in Notifiers : m_Notifiers[n] = h
           /\ h \in TrackedTimers => h \in TimerHandles
           /\ h \in TrackedNotifiers => h \in PollHandles
BY NoneAssumption DEF TableTypeOK, TrackedTimers, TrackedNotifiers, TimerRegistered,
   NotifierRegistered, Handles

LEMMA TableStep ==
    TypeInv /\ [Next]_vars => TableTypeOK' /\ Held' /\ Unshared' /\ Emptied'
<1> DEFINE Goal == TableTypeOK /\ Held /\ Unshared /\ Emptied
<1> SUFFICES ASSUME TypeInv, [Next]_vars PROVE Goal'
    OBVIOUS
<1> USE NoneAssumption, HandleAssumption
<1> USE DEF TypeInv, TableTypeOK, Held, Unshared, Emptied, OpenStates, HandleStates, Handles,
        tableVars
<1>1. ASSUME NEW th \in Threads, OtherThread(th) PROVE Goal'
    BY <1>1 DEF OtherThread, PostEvent, Exit, CallInterrupt, interrupt, wakeUp, asyncSend,
       loopVars
<1>2. ASSUME LoopThread PROVE Goal'
  <2>1. CASE Enter
    <3>1. \A h \in Handles : Stopped(h) => uv[h] \in OpenStates
        BY TrackedMembers DEF Stopped
    <3> QED
        BY <2>1, <3>1 DEF Enter
  <2>2. CASE RunReturns
      BY <2>2 DEF RunReturns, Closing
  <2>3. CASE Return
    <3>1. \A h \in Handles : Restarted(h) => uv[h] \in OpenStates
        BY TrackedMembers DEF Restarted
    <3>2. pc' # "destroyed"
        BY <2>3 DEF Return
    <3> QED
        BY <2>3, <3>1, <3>2 DEF Return
  <2>4. CASE ~Enter /\ ~RunReturns /\ ~Return
    <3>1. UNCHANGED <<tableVars, m_Event_list, alive>>
        BY <1>2, <2>4, Zenon DEF LoopThread, CheckExit, SendPosted, SendPostedReturns, Decide, TakeAsync,
           wake_up_handler, Deliver, Delivered
    <3>2. pc' # "destroyed"
        BY <1>2, <2>4 DEF LoopThread, CheckExit, SendPosted, SendPostedReturns, Decide, TakeAsync,
           wake_up_handler, Deliver, Delivered
    <3> QED
        BY <3>1, <3>2
  <2> QED
      BY <2>1, <2>2, <2>3, <2>4
<1>3. ASSUME HandlerReturns PROVE Goal'
    BY <1>3 DEF HandlerReturns, LoopTypeOK, Pass, Phases
<1>4. ASSUME Handler PROVE Goal'
  <2> USE DEF loopVars
  <2>1. ASSUME NEW t \in TimerIds, NEW o \in Objects, registerTimer(t, o) PROVE Goal'
      BY <2>1 DEF registerTimer, TimerRegistered
  <2>2. ASSUME NEW t \in TimerIds, unregisterTimer(t) PROVE Goal'
      BY <2>2 DEF unregisterTimer, TimerRegistered
  <2>3. ASSUME NEW o \in Objects, DestroyObject(o) PROVE Goal'
      BY <2>3, ReceiverAssumption DEF DestroyObject, unregisterTimers, OwnedBy, TimerRegistered
  <2>4. ASSUME NEW n \in Notifiers, registerSocketNotifier(n) PROVE Goal'
      BY <2>4 DEF registerSocketNotifier, NotifierRegistered
  <2>5. ASSUME NEW n \in Notifiers, DisableNotifier(n) PROVE Goal'
    <3>1. m_Notifiers' = [m_Notifiers EXCEPT ![n] = None] /\ pc' # "destroyed"
        BY <2>5 DEF DisableNotifier, unregisterSocketNotifier
    <3>2. uv' = [h \in Handles |-> IF m_Notifiers[n] # None /\ m_Notifiers[n] = h
                                   THEN "closing" ELSE uv[h]]
        BY <2>5 DEF DisableNotifier, unregisterSocketNotifier, NotifierRegistered
    <3>3. alive' = alive \/ alive' = alive \ {n}
        BY <2>5 DEF DisableNotifier
    <3>4. \A t \in TimerIds : m_Timers[t] # None => owner[m_Timers[t]] # n
        BY ReceiverAssumption
    <3>5. UNCHANGED <<m_Timers, owner, m_Event_list>>
        BY <2>5 DEF DisableNotifier
    <3> QED
        BY <3>1, <3>2, <3>3, <3>4, <3>5
  <2>6. CASE PostHere \/ InterruptHere \/ NestedPass
    <3>1. UNCHANGED <<tableVars, m_Event_list, alive>> /\ pc' # "destroyed"
        BY <2>6 DEF PostHere, InterruptHere, NestedPass
    <3> QED
        BY <3>1
  <2> QED
      BY <1>4, <2>1, <2>2, <2>3, <2>4, <2>5, <2>6, Zenon DEF Handler
<1>5. ASSUME NEW h \in TimerHandles, timer_callback(h) PROVE Goal'
  <2>1. owner[h] \in Receivers
      BY <1>5 DEF timer_callback
  <2> QED
      BY <1>5, <2>1 DEF timer_callback, RunGoesOn
<1>6. ASSUME NEW n \in Notifiers, socket_notifier_callback(n) \/ PollError(n) PROVE Goal'
  <2>1. n \in Receivers
      BY DEF Receivers
  <2>2. CASE socket_notifier_callback(n)
      BY <2>1, <2>2 DEF socket_notifier_callback, RunGoesOn
  <2>3. CASE PollError(n)
      BY <2>3 DEF PollError, NotifierRegistered, RunGoesOn
  <2> QED
      BY <1>6, <2>2, <2>3
<1>7. ASSUME Destroy PROVE Goal'
    BY <1>7, TrackedMembers DEF Destroy, Closing, Tracked, killTimers, killSocketNotifiers
<1>8. ASSUME UNCHANGED vars PROVE Goal'
    BY <1>8 DEF vars
<1> QED
    BY <1>1, <1>2, <1>3, <1>4, <1>5, <1>6, <1>7, <1>8, Zenon DEF Next, Terminated

LEMMA TypeStep == TypeInv /\ [Next]_vars => TypeInv'
BY LoopTypeStep, CallTypeStep, TableStep DEF TypeInv

(* Type correctness: every variable keeps its type, in every behaviour of the dispatcher. *)
THEOREM TypeCorrect == Spec => []TypeOK
<1>1. TypeInv => TypeOK
    BY DEF TypeInv, TypeOK
<1> QED
    BY <1>1, TypeInit, TypeStep, PTL DEF Spec

LEMMA TypeAlways == Spec => []TypeInv
BY TypeInit, TypeStep, PTL DEF Spec

(* The open libuv handles are exactly those the two hash tables hold, each held once, and *)
(* none is left after the destructor.                                                      *)
THEOREM HandlesCorrect == Spec => []HandlesTracked
<1>1. ASSUME TypeInv PROVE HandlesTracked
  <2> USE <1>1, NoneAssumption, HandleAssumption DEF TypeInv, TableTypeOK, Held, Unshared,
          Emptied
  <2>1. ASSUME NEW h \in Handles PROVE h \in OpenHandles <=> h \in Tracked
      BY TrackedMembers DEF OpenHandles, Tracked, OpenStates, HandleStates, Handles
  <2>2. Tracked \subseteq Handles
      BY DEF Tracked, TrackedTimers, TrackedNotifiers, TimerRegistered, NotifierRegistered,
         Handles
  <2>3. OpenHandles = Tracked
      BY <2>1, <2>2 DEF OpenHandles
  <2> QED
      BY <2>3 DEF HandlesTracked, TimerRegistered, NotifierRegistered
<1> QED
    BY <1>1, TypeAlways, PTL

(* No callback is ever given a destroyed receiver. *)
THEOREM OwnersCorrect == Spec => []OwnersAlive
<1>1. TypeInv => OwnersAlive
    BY DEF TypeInv, Held, OwnersAlive, TimerRegistered, NotifierRegistered
<1> QED
    BY <1>1, TypeAlways, PTL

-----------------------------------------------------------------------------
(* The event list is empty outside uv_run: only the callbacks fill it, and uv_run cannot   *)
(* return to processEvents() without the swap.                                             *)
LEMMA DrainedStep == TypeInv /\ EventsDrained /\ [Next]_vars => EventsDrained'
<1> SUFFICES ASSUME TypeInv, EventsDrained, [Next]_vars PROVE EventsDrained'
    OBVIOUS
<1> USE DEF EventsDrained
<1>1. ASSUME NEW th \in Threads, OtherThread(th) PROVE EventsDrained'
    BY <1>1 DEF OtherThread, PostEvent, Exit, CallInterrupt, interrupt, wakeUp, asyncSend,
       loopVars
<1>2. ASSUME LoopThread PROVE EventsDrained'
    BY <1>2 DEF LoopThread, CheckExit, Enter, SendPosted, SendPostedReturns, Decide, TakeAsync, wake_up_handler,
       RunReturns, Deliver, Delivered, Return
<1>3. ASSUME HandlerReturns PROVE EventsDrained'
    BY <1>3 DEF HandlerReturns
<1>4. ASSUME Handler PROVE EventsDrained'
    BY <1>4 DEF Handler, registerTimer, unregisterTimer, DestroyObject, DisableNotifier,
       registerSocketNotifier, PostHere, InterruptHere, NestedPass, loopVars
<1>5. ASSUME NEW h \in TimerHandles, timer_callback(h) PROVE EventsDrained'
    BY <1>5 DEF timer_callback, InRun, RunGoesOn
<1>6. ASSUME NEW n \in Notifiers, socket_notifier_callback(n) \/ PollError(n)
      PROVE  EventsDrained'
    BY <1>6 DEF socket_notifier_callback, PollError, InRun, RunGoesOn
<1>7. ASSUME Destroy PROVE EventsDrained'
    BY <1>7 DEF Destroy
<1>8. ASSUME UNCHANGED vars PROVE EventsDrained'
    BY <1>8 DEF vars
<1> QED
    BY <1>1, <1>2, <1>3, <1>4, <1>5, <1>6, <1>7, <1>8, Zenon DEF Next, Terminated

(* Every queued event is handled by the pass whose uv_run queued it. *)
THEOREM DrainedCorrect == Spec => []EventsDrained
<1>1. Init => EventsDrained
    BY DEF Init, EventsDrained
<1> QED
    BY <1>1, DrainedStep, TypeAlways, PTL DEF Spec

-----------------------------------------------------------------------------
(* The wake-up token.                                                      *)

(* While m_Wakeups is set, later callers do not send: the one that set it has sent, is     *)
(* about to, or its wake-up is being handled.                                              *)
TokenInv ==
    pc # "destroyed" /\ m_Wakeups = 1 =>
        asyncPending \/ pc = "wake" \/ \E th \in Threads : caller[th] = "send"

(* From the snapshot of sendPostedEvents() until uv_run has polled. *)
BeforePoll ==
    pc \in {"post", "sent", "block"} \/ (pc = "user" /\ pass.phase = "post")

(* A pass that no nested one has interrupted, or the end of an outermost sendPostedEvents(). *)
Watched == ~pass.reentered \/ (pc \in {"sent", "block"} /\ ~Sending)

QueueInv == BeforePoll /\ Watched /\ posted > sendable => WakeComing
ExitInv  ==
    ((BeforePoll /\ ~pass.reentered) \/ pc = "enter") /\ depth = 0 /\ exit => WakeComing
BlockInv == pc \in {"sent", "block"} => sendable = 0
PhaseInv == pc = "deliver" => pass.phase = "deliver"

(* Only a sendPostedEvents() that found events calls handlers, and so nested passes. *)
SendsInv ==
    /\ pc = "post" /\ sendable > 0 => pass.sends
    /\ pc = "user" /\ pass.phase = "post" => pass.sends
    /\ pass.reentered => pass.sends /\ pc # "enter"
    /\ \A i \in 1..depth : saved[i].reentered => saved[i].sends

(* A pass suspended before its poll is never taken to be one that was not. *)
SuspendedInv == \A i \in 1..depth : saved[i].phase = "post" => saved[i].reentered

WakeInv ==
    /\ TokenInv
    /\ QueueInv
    /\ ExitInv
    /\ BlockInv
    /\ PhaseInv
    /\ SendsInv
    /\ SuspendedInv
    /\ InterruptEndsWait

(* What the other threads do keeps a wake-up coming, until the loop takes it. *)
LEMMA CallerStep ==
    ASSUME TypeInv, TokenInv, NEW th \in Threads, OtherThread(th)
    PROVE  /\ UNCHANGED <<loopVars, sendable>>
           /\ TokenInv'
           /\ pc \notin {"wake", "destroyed"} /\ WakeComing => WakeComing'
           /\ \/ posted' = posted /\ exit' = exit /\ m_Interrupt' = m_Interrupt
              \/ WakeComing'
<1> USE DEF TypeInv, CallTypeOK, CallerStates, TokenInv, WakeComing, loopVars, queueVars,
        wakeVars
<1>1. CASE PostEvent(th) \/ Exit(th) \/ CallInterrupt(th)
    BY <1>1 DEF PostEvent, Exit, CallInterrupt
<1>2. CASE interrupt(th)
    BY <1>2 DEF interrupt
<1>3. CASE wakeUp(th)
    BY <1>3 DEF wakeUp
<1>4. CASE asyncSend(th)
    BY <1>4 DEF asyncSend
<1> QED
    BY <1>1, <1>2, <1>3, <1>4 DEF OtherThread

LEMMA WakeStep == TypeInv /\ WakeInv /\ [Next]_vars => WakeInv'
<1> SUFFICES ASSUME TypeInv, WakeInv, [Next]_vars PROVE WakeInv'
    OBVIOUS
<1> USE DEF WakeInv, TokenInv, QueueInv, ExitInv, BlockInv, PhaseInv, SendsInv, SuspendedInv, InterruptEndsWait,
        BeforePoll, Watched, Sending, WakeComing, frameVars, wakeVars, queueVars
<1>1. ASSUME NEW th \in Threads, OtherThread(th) PROVE WakeInv'
  <2>1. pc = "destroyed" => pc' = "destroyed"
      BY <1>1, CallerStep DEF loopVars
  <2> QED
      BY <1>1, <2>1, CallerStep DEF loopVars
<1>2. ASSUME LoopThread PROVE WakeInv'
  <2> USE DEF TypeInv, LoopTypeOK, CallTypeOK
  <2>1. CASE CheckExit
      BY <2>1 DEF CheckExit, NewPass
  <2>2. CASE Enter
    <3>1. /\ pc = "enter" /\ pc' = "post" /\ sendable' = posted /\ m_Interrupt' = FALSE
          /\ UNCHANGED <<frameVars, wakeVars, posted, exit, caller>>
        BY <2>2, Zenon DEF Enter
    <3>2. SendsInv'
        BY <2>2, <3>1, EnterPass
    <3> QED
        BY <2>2, <3>1, <3>2, EnterPass
  <2>3. CASE SendPosted
      BY <2>3 DEF SendPosted
  <2>4. CASE SendPostedReturns
    <3>1. /\ pc = "post" /\ pc' = "sent" /\ sendable = 0
          /\ UNCHANGED <<pass, frameVars, m_Interrupt, queueVars, exit, caller>>
        BY <2>4, Zenon DEF SendPostedReturns
    <3>2. CASE pass.sends /\ posted > 0 /\ ~Sending
      <4>1. m_Wakeups' = 1 /\ (m_Wakeups = 0 => asyncPending') /\ (asyncPending => asyncPending')
          BY <2>4, <3>2, Zenon DEF SendPostedReturns, WakeUpHere
      <4>2. TokenInv' /\ WakeComing'
          BY <3>1, <4>1
      <4> QED
          BY <3>1, <4>2
    <3>3. CASE ~(pass.sends /\ posted > 0 /\ ~Sending)
      <4>1. UNCHANGED wakeVars
          BY <2>4, <3>3, Zenon DEF SendPostedReturns
      <4>2. posted > 0 /\ ~Sending => ~pass.reentered
          BY <3>3
      <4> QED
          BY <3>1, <4>1, <4>2
    <3> QED
        BY <3>2, <3>3
  <2>5. CASE Decide
    <3>1. pc' = "block" /\ m_Interrupt => WakeComing
        BY <2>5 DEF Decide, InterruptReads
    <3>2. /\ pc = "sent" /\ pc' \in {"restore", "block", "ready"}
          /\ UNCHANGED <<pass, frameVars, m_Interrupt, wakeVars, queueVars, exit, caller>>
        BY <2>5 DEF Decide
    <3> QED
        BY <3>1, <3>2
  <2>6. CASE TakeAsync
      BY <2>6 DEF TakeAsync
  <2>7. CASE wake_up_handler
      BY <2>7 DEF wake_up_handler
  <2>8. CASE RunReturns
    <3>1. /\ pc' = "deliver"
          /\ pc \in {"ready", "polled"}
          /\ UNCHANGED <<frameVars, m_Interrupt, wakeVars, queueVars, exit, caller>>
        BY <2>8, Zenon DEF RunReturns
    <3>2. PICK r \in BOOLEAN : pass' = [pass EXCEPT !.list = m_Event_list, !.result = r,
                                                    !.phase = "deliver"]
        BY <2>8, Zenon DEF RunReturns
    <3>3. /\ pass'.phase = "deliver" /\ pass'.sends = pass.sends
          /\ pass'.reentered = pass.reentered
        BY <3>2 DEF Pass
    <3> QED
        BY <3>1, <3>3
  <2>9. CASE Deliver
    <3>1. /\ pc = "deliver" /\ pc' \in {"user", "deliver"} /\ pass'.phase = pass.phase
          /\ pass'.sends = pass.sends /\ pass'.reentered = pass.reentered
        BY <2>9 DEF Deliver, Pass
    <3> QED
        BY <2>9, <3>1 DEF Deliver
  <2>10. CASE Delivered
      BY <2>10 DEF Delivered
  <2>11. CASE Return
    <3>1. CASE depth = 0
        BY <2>11, <3>1 DEF Return, IdlePass, NewPass
    <3>2. CASE depth # 0
        BY <2>11, <3>2, NestingAssumption DEF Return
    <3> QED
        BY <3>1, <3>2
  <2> QED
      BY <1>2, <2>1, <2>2, <2>3, <2>4, <2>5, <2>6, <2>7, <2>8, <2>9, <2>10, <2>11
         DEF LoopThread
<1>3. ASSUME HandlerReturns PROVE WakeInv'
    BY <1>3 DEF HandlerReturns, TypeInv, LoopTypeOK, Pass, Phases
<1>4. ASSUME Handler PROVE WakeInv'
  <2> USE DEF TypeInv, LoopTypeOK, CallTypeOK, loopVars
  <2>1. CASE PostHere \/ InterruptHere
    <3>1. pc = "user" /\ m_Wakeups' = 1
        BY <2>1 DEF PostHere, InterruptHere, WakeUpHere
    <3>2. UNCHANGED <<loopVars, sendable, caller>>
        BY <2>1 DEF PostHere, InterruptHere
    <3>3. m_Wakeups = 0 => asyncPending' = TRUE
        BY <2>1, Zenon DEF PostHere, InterruptHere, WakeUpHere
    <3>4. asyncPending => asyncPending' = TRUE
        BY <2>1, Zenon DEF PostHere, InterruptHere, WakeUpHere
    <3>5. WakeComing'
        BY <3>1, <3>2, <3>3, <3>4
    <3>6. TokenInv'
        BY <3>1, <3>2, <3>3, <3>4
    <3> QED
        BY <3>1, <3>2, <3>5, <3>6
  <2>2. CASE NestedPass
    <3>1. /\ pc' = "enter" /\ depth' = depth + 1
          /\ UNCHANGED <<m_Interrupt, wakeVars, queueVars, exit, caller>>
        BY <2>2 DEF NestedPass
    <3>2. PICK r \in BOOLEAN :
              /\ saved' = [saved EXCEPT ![depth + 1] = [pass EXCEPT !.reentered = r]]
              /\ r <=> pass.reentered \/ pass.phase = "post"
        BY <2>2, Zenon DEF NestedPass
    <3>3. [pass EXCEPT !.reentered = r].reentered = r
        BY DEF Pass
    <3>4. [pass EXCEPT !.reentered = r].phase = pass.phase
        BY DEF Pass
    <3>5. depth + 1 \in 1..MaxNesting
        BY <2>2, NestingAssumption DEF NestedPass
    <3>6. saved'[depth + 1].phase = "post" => saved'[depth + 1].reentered
        BY <3>2, <3>3, <3>4, <3>5, Zenon
    <3>7. \A i \in 1..depth : saved'[i] = saved[i]
        BY <3>2, <3>5
    <3>8. SuspendedInv'
        BY <3>1, <3>6, <3>7
    <3>9. [pass EXCEPT !.reentered = r].sends = pass.sends
        BY DEF Pass
    <3>10. saved'[depth + 1].reentered => saved'[depth + 1].sends
      <4>1. r => pass.sends
          BY <2>2, <3>2 DEF NestedPass
      <4> QED
          BY <3>2, <3>3, <3>5, <3>9, <4>1, Zenon
    <3>11. ~pass'.reentered
        BY <2>2 DEF NestedPass, NewPass
    <3>12. SendsInv'
        BY <3>1, <3>7, <3>10, <3>11
    <3> QED
        BY <2>2, <3>1, <3>8, <3>11, <3>12 DEF NestedPass
  <2>3. CASE ~PostHere /\ ~InterruptHere /\ ~NestedPass
    <3>1. pc = "user" /\ UNCHANGED <<loopVars, m_Interrupt, wakeVars, queueVars, exit, caller>>
        BY <1>4, <2>3, Zenon DEF Handler, registerTimer, unregisterTimer, DestroyObject,
           registerSocketNotifier, DisableNotifier
    <3> QED
        BY <3>1
  <2> QED
      BY <2>1, <2>2, <2>3
<1>5. ASSUME NEW h \in TimerHandles, timer_callback(h) PROVE WakeInv'
    BY <1>5 DEF timer_callback, InRun, RunGoesOn
<1>6. ASSUME NEW n \in Notifiers, socket_notifier_callback(n) \/ PollError(n) PROVE WakeInv'
    BY <1>6 DEF socket_notifier_callback, PollError, InRun, RunGoesOn
<1>7. ASSUME Destroy PROVE WakeInv'
    BY <1>7 DEF Destroy
<1>8. ASSUME UNCHANGED vars PROVE WakeInv'
    BY <1>8 DEF vars
<1> QED
    BY <1>1, <1>2, <1>3, <1>4, <1>5, <1>6, <1>7, <1>8, Zenon DEF Next, Terminated

LEMMA WakeAlways == Spec => []WakeInv
<1>1. Init => WakeInv
    BY DEF Init, WakeInv, TokenInv, QueueInv, ExitInv, BlockInv, PhaseInv, SendsInv, SuspendedInv,
       InterruptEndsWait, BeforePoll, IdlePass, NewPass
<1> QED
    BY <1>1, WakeStep, TypeAlways, PTL DEF Spec

(* The loop thread never waits while an event is queued or exec has been told to exit,     *)
(* unless a wake-up is coming: for any number of threads, of events and of nested passes,  *)
(* with the two exceptions that NoLostWakeup names.                                        *)
THEOREM WakeupNeverLost == Spec => []NoLostWakeup
<1>1. TypeInv /\ WakeInv => NoLostWakeup
    BY DEF TypeInv, CallTypeOK, WakeInv, QueueInv, ExitInv, BlockInv, BeforePoll,
       Watched, NoLostWakeup
<1> QED
    BY <1>1, TypeAlways, WakeAlways, PTL

(* The loop thread never waits with m_Interrupt set, unless a wake-up is coming. *)
THEOREM InterruptNotSleptThrough == Spec => []InterruptEndsWait
<1>1. WakeInv => InterruptEndsWait
    BY DEF WakeInv
<1> QED
    BY <1>1, WakeAlways, PTL

-----------------------------------------------------------------------------
(* Exclusion.                                                              *)


(* NothingStranded, handle by handle, and what it needs at the top of exec's loop. *)
StrandedInv ==
    /\ \A t \in TimerIds :
           m_Timers[t] # None /\ uv[m_Timers[t]] = "stopped" => ExcludingTimers
    /\ \A n \in Notifiers :
           m_Notifiers[n] # None /\ uv[m_Notifiers[n]] = "stopped" => ExcludingNotifiers
    /\ pc = "check" => ~pass.exTimers /\ ~pass.exNotifiers

LEMMA StrandedStep == TypeInv /\ StrandedInv /\ [Next]_vars => StrandedInv'
<1> SUFFICES ASSUME TypeInv, StrandedInv, [Next]_vars PROVE StrandedInv'
    OBVIOUS
<1> USE NoneAssumption, HandleAssumption
<1> USE DEF TypeInv, TableTypeOK, Handles, HandleStates, Held, OpenStates, Unshared,
        StrandedInv, ExcludingTimers, ExcludingNotifiers, frameVars, loopVars, tableVars
<1>1. ASSUME NEW th \in Threads, OtherThread(th) PROVE StrandedInv'
  <2>1. UNCHANGED <<loopVars, tableVars>>
      BY <1>1, Zenon DEF OtherThread, PostEvent, Exit, CallInterrupt, interrupt, wakeUp,
         asyncSend
  <2> QED
      BY <2>1
<1>2. ASSUME LoopThread PROVE StrandedInv'
  <2> USE DEF LoopTypeOK
  <2>1. CASE CheckExit
      BY <2>1 DEF CheckExit, NewPass
  <2>2. CASE Enter
    <3>2. pass'.exTimers = pass.exTimers /\ pass'.exNotifiers = pass.exNotifiers
        BY <2>2, EnterPass
    <3>3. /\ uv' = [h \in Handles |-> IF Stopped(h) THEN "stopped" ELSE uv[h]]
          /\ UNCHANGED <<frameVars, m_Timers, m_Notifiers>>
          /\ pc' = "post"
        BY <2>2, Zenon DEF Enter
    <3>4. \A h \in Handles : Stopped(h) =>
              \/ h \in TimerHandles /\ pass.exTimers
              \/ h \in PollHandles /\ pass.exNotifiers
        BY TrackedMembers DEF Stopped
    <3> QED
        BY <3>2, <3>3, <3>4
  <2>3. CASE SendPosted \/ SendPostedReturns \/ Decide \/ TakeAsync \/ wake_up_handler \/ Delivered
    <3>1. UNCHANGED <<pass, frameVars, tableVars>>
        BY <2>3, Zenon DEF SendPosted, SendPostedReturns, Decide, TakeAsync, wake_up_handler, Delivered
    <3>2. pc' # "check"
        BY <2>3 DEF SendPosted, SendPostedReturns, Decide, TakeAsync, wake_up_handler, Delivered
    <3> QED
        BY <3>1, <3>2
  <2>4. CASE RunReturns
    <3>1. PICK r \in BOOLEAN : pass' = [pass EXCEPT !.list = m_Event_list, !.result = r,
                                                    !.phase = "deliver"]
        BY <2>4, Zenon DEF RunReturns
    <3>2. pass'.exTimers = pass.exTimers /\ pass'.exNotifiers = pass.exNotifiers
        BY <3>1 DEF Pass
    <3>3. uv' = Closing(uv) /\ UNCHANGED <<frameVars, m_Timers, m_Notifiers>>
          /\ pc' = "deliver"
        BY <2>4, Zenon DEF RunReturns
    <3> QED
        BY <3>2, <3>3 DEF Closing
  <2>5. CASE Deliver
    <3>1. pass'.exTimers = pass.exTimers /\ pass'.exNotifiers = pass.exNotifiers
        BY <2>5 DEF Deliver, Pass
    <3> QED
        BY <2>5, <3>1 DEF Deliver
  <2>6. CASE Return
    <3>1. /\ uv' = [h \in Handles |-> IF Restarted(h) THEN "active" ELSE uv[h]]
          /\ UNCHANGED <<m_Timers, m_Notifiers>>
        BY <2>6 DEF Return
    <3>2. \A t \in TimerIds : m_Timers[t] # None /\ pass.exTimers => Restarted(m_Timers[t])
        BY TrackedMembers DEF Restarted
    <3>3. \A n \in Notifiers :
              m_Notifiers[n] # None /\ pass.exNotifiers => Restarted(m_Notifiers[n])
        BY TrackedMembers DEF Restarted
    <3>4. CASE depth = 0
      <4>1. ~IdlePass.exTimers /\ ~IdlePass.exNotifiers
          BY DEF IdlePass, NewPass
      <4> QED
          BY <2>6, <3>1, <3>2, <3>3, <3>4, <4>1 DEF Return
    <3>5. CASE depth # 0
      <4>1. pc' = "user" /\ pass' = saved[depth] /\ depth' = depth - 1
          BY <2>6, <3>5 DEF Return
      <4>2. \A i \in 1..depth' : saved'[i] = saved[i]
          BY <2>6, <3>5, NestingAssumption DEF Return
      <4>3. \A i \in 1..depth : i = depth \/ i \in 1..depth'
          BY <4>1, NestingAssumption
      <4> QED
          BY <3>1, <3>2, <3>3, <4>1, <4>2, <4>3
    <3> QED
        BY <3>4, <3>5
  <2> QED
      BY <1>2, <2>1, <2>2, <2>3, <2>4, <2>5, <2>6 DEF LoopThread
<1>3. ASSUME HandlerReturns PROVE StrandedInv'
    BY <1>3 DEF HandlerReturns, LoopTypeOK, Pass, Phases
<1>4. ASSUME Handler PROVE StrandedInv'
  <2>1. CASE NestedPass
    <3>1. /\ UNCHANGED tableVars
          /\ pc' = "enter" /\ depth' = depth + 1 /\ depth + 1 \in 1..MaxNesting
        BY <2>1, NestingAssumption DEF NestedPass, LoopTypeOK
    <3>2. PICK r \in BOOLEAN :
              saved' = [saved EXCEPT ![depth + 1] = [pass EXCEPT !.reentered = r]]
        BY <2>1, Zenon DEF NestedPass
    <3>3. /\ [pass EXCEPT !.reentered = r].exTimers = pass.exTimers
          /\ [pass EXCEPT !.reentered = r].exNotifiers = pass.exNotifiers
        BY DEF LoopTypeOK, Pass
    <3>4. saved'[depth + 1].exTimers = pass.exTimers
          /\ saved'[depth + 1].exNotifiers = pass.exNotifiers
      <4>1. saved \in [1..MaxNesting -> Pass]
          BY DEF LoopTypeOK
      <4>2. saved'[depth + 1] = [pass EXCEPT !.reentered = r]
          BY <3>1, <3>2, <4>1
      <4> QED
          BY <3>3, <4>2
    <3>5. \A i \in 1..depth : saved'[i] = saved[i]
        BY <3>1, <3>2 DEF LoopTypeOK
    <3>6. depth + 1 \in 1..(depth + 1) /\ \A i \in 1..depth : i \in 1..(depth + 1)
        BY <3>1 DEF LoopTypeOK
    <3> QED
        BY <3>1, <3>4, <3>5, <3>6
  <2>2. ASSUME NEW t \in TimerIds, NEW o \in Objects, registerTimer(t, o) PROVE StrandedInv'
      BY <2>2 DEF registerTimer, TimerRegistered
  <2>3. ASSUME NEW t \in TimerIds, unregisterTimer(t) PROVE StrandedInv'
      BY <2>3 DEF unregisterTimer, TimerRegistered
  <2>4. ASSUME NEW o \in Objects, DestroyObject(o) PROVE StrandedInv'
      BY <2>4 DEF DestroyObject, unregisterTimers, OwnedBy, TimerRegistered
  <2>5. ASSUME NEW n \in Notifiers, registerSocketNotifier(n) PROVE StrandedInv'
      BY <2>5 DEF registerSocketNotifier, NotifierRegistered
  <2>6. ASSUME NEW n \in Notifiers, DisableNotifier(n) PROVE StrandedInv'
      BY <2>6 DEF DisableNotifier, unregisterSocketNotifier, NotifierRegistered
  <2>7. CASE PostHere \/ InterruptHere
    <3>1. UNCHANGED <<loopVars, tableVars>>
        BY <2>7, Zenon DEF PostHere, InterruptHere
    <3> QED
        BY <3>1
  <2> QED
      BY <1>4, <2>1, <2>2, <2>3, <2>4, <2>5, <2>6, <2>7, Zenon DEF Handler
<1>5. ASSUME NEW h \in TimerHandles, timer_callback(h) PROVE StrandedInv'
    BY <1>5 DEF timer_callback, RunGoesOn
<1>6. ASSUME NEW n \in Notifiers, socket_notifier_callback(n) \/ PollError(n)
      PROVE  StrandedInv'
    BY <1>6 DEF socket_notifier_callback, PollError, RunGoesOn, NotifierRegistered
<1>7. ASSUME Destroy PROVE StrandedInv'
    BY <1>7 DEF Destroy
<1>8. ASSUME UNCHANGED vars PROVE StrandedInv'
    BY <1>8 DEF vars
<1> QED
    BY <1>1, <1>2, <1>3, <1>4, <1>5, <1>6, <1>7, <1>8, Zenon DEF Next, Terminated

(* Every path out of processEvents() starts again what the pass stopped, however passes    *)
(* with different flags nest and whatever handlers register in between.                    *)
THEOREM NothingStrandedCorrect == Spec => []NothingStranded
<1>1. TypeInv /\ Init => StrandedInv
    BY DEF Init, StrandedInv, IdlePass, NewPass
<1>2. ASSUME TypeInv, StrandedInv PROVE NothingStranded
    BY <1>2, TrackedMembers, NoneAssumption DEF StrandedInv, NothingStranded, TrackedTimers,
       TrackedNotifiers, TimerRegistered, NotifierRegistered
<1> QED
    BY <1>1, <1>2, StrandedStep, TypeAlways, PTL DEF Spec
=============================================================================
