-------------------------- MODULE EventDispatcher --------------------------
(***************************************************************************)
(* The Qt event dispatcher on a libuv loop (QCatGrayLibuvEventDispatcher): *)
(* one loop thread runs processEvents(), nested when a handler calls it    *)
(* again, and any number of other threads post events to it, tell its      *)
(* QEventLoop to exit, interrupt it or wake it up.                         *)
(*                                                                         *)
(* libuv (>= 1.45: a ONCE or NOWAIT run polls, closes, then runs timers),  *)
(* the posted-event queue and QEventLoop's exit flag are external; they    *)
(* are modelled from the calls this code makes of them.                    *)
(*                                                                         *)
(* registerZeroTimer is called by nothing, so m_Zero_timers is always      *)
(* empty and processZeroTimers is dead code: both are left out.            *)
(***************************************************************************)
EXTENDS Integers, Sequences, FiniteSets

CONSTANTS
    Threads,      \* the threads that call into the dispatcher, the loop's own left out
    Objects,      \* the QObjects of the loop thread that may own timers
    TimerIds,     \* the ids Qt hands to registerTimer
    Notifiers,    \* the QSocketNotifiers of type Read or Write, one descriptor each
                  \* (registerSocketNotifier returns at once for type Exception)
    TimerHandles, \* storage for uv_timer_t
    PollHandles,  \* storage for uv_poll_t
    MaxPosted,    \* bound: events in the posted-event queue
    MaxNesting,   \* bound: processEvents() calls suspended inside handlers
    None          \* the absence of a handle or an owner

ASSUME PostedAssumption == MaxPosted \in Nat
ASSUME NestingAssumption == MaxNesting \in Nat
ASSUME HandleAssumption == TimerHandles \cap PollHandles = {}
ASSUME NoneAssumption == None \notin TimerHandles \cup PollHandles \cup Objects \cup Notifiers
ASSUME ReceiverAssumption == Objects \cap Notifiers = {}

VARIABLES
    pc,           \* where the loop thread is
    pass,         \* the locals of the current processEvents()
    saved,        \* the locals of the suspended ones, outermost first
    depth,        \* how many are suspended
    m_Interrupt,  \* bool m_Interrupt, plain and shared
    m_Awaken,     \* bool m_Awaken
    m_Wakeups,    \* QAtomicInt m_Wakeups
    asyncPending, \* uv_async_t m_Wakeup has been sent and not yet handled
    posted,       \* events in the thread's posted-event queue
    sendable,     \* those that the sendPostedEvents() in progress may send
    exit,         \* QEventLoop's exit flag
    caller,       \* where each other thread is in its call
    m_Timers,     \* timer id -> handle
    owner,        \* TimerInfo::m_pObject of each timer handle
    m_Notifiers,  \* notifier -> handle
    uv,           \* libuv's state of each handle
    m_Event_list, \* receivers of the events that callbacks have queued
    alive         \* the receivers that have not been destroyed

wakeVars  == <<m_Wakeups, asyncPending>>
queueVars == <<posted, sendable>>
tableVars == <<m_Timers, owner, m_Notifiers, uv>>
frameVars == <<saved, depth>>
loopVars  == <<pc, pass, saved, depth>>
vars == <<pc, pass, saved, depth, m_Interrupt, m_Awaken, m_Wakeups, asyncPending, posted,
          sendable, exit, caller, m_Timers, owner, m_Notifiers, uv, m_Event_list, alive>>

Receivers == Objects \cup Notifiers
Handles   == TimerHandles \cup PollHandles

(***************************************************************************)
(* The locals of one processEvents(): its flags, result, can_wait (folded  *)
(* into the choice of the uv_run mode), the swapped list, which part of it *)
(* is calling handlers, whether its sendPostedEvents() found any event and *)
(* -- a history variable the properties use -- whether a handler called    *)
(* from there ran a nested pass.                                           *)
(***************************************************************************)
Phases == {"post", "deliver"}
Pass == [wait : BOOLEAN, exTimers : BOOLEAN, exNotifiers : BOOLEAN, result : BOOLEAN,
         list : Seq(Receivers), phase : Phases, sends : BOOLEAN, reentered : BOOLEAN]

NewPass(wait, exTimers, exNotifiers) ==
    [wait |-> wait, exTimers |-> exTimers, exNotifiers |-> exNotifiers, result |-> FALSE,
     list |-> <<>>, phase |-> "post", sends |-> FALSE, reentered |-> FALSE]

IdlePass == NewPass(FALSE, FALSE, FALSE)

PCs == {"check", "enter", "post", "sent", "user", "block", "ready", "wake", "polled",
        "deliver", "restore", "stopped", "destroyed"}

(* idle; about to store m_Interrupt; stored it; about to test m_Wakeups; about to send *)
CallerStates == {"idle", "interrupt", "stored", "wakeUp", "send"}

(* none: not initialised; active: started; fired: a one-shot timer that has run;          *)
(* failed: a poll handle libuv stopped on an error; closing: uv_close called, not yet run *)
HandleStates == {"none", "active", "stopped", "fired", "failed", "closing"}

LoopTypeOK ==
    /\ pc \in PCs
    /\ pass \in Pass
    /\ saved \in [1..MaxNesting -> Pass]
    /\ depth \in 0..MaxNesting

CallTypeOK ==
    /\ m_Interrupt \in BOOLEAN
    /\ m_Awaken \in BOOLEAN
    /\ m_Wakeups \in {0, 1}
    /\ asyncPending \in BOOLEAN
    /\ posted \in 0..MaxPosted
    /\ sendable \in 0..posted
    /\ exit \in BOOLEAN
    /\ caller \in [Threads -> CallerStates]

TableTypeOK ==
    /\ m_Timers \in [TimerIds -> TimerHandles \cup {None}]
    /\ owner \in [TimerHandles -> Objects \cup {None}]
    /\ m_Notifiers \in [Notifiers -> PollHandles \cup {None}]
    /\ uv \in [Handles -> HandleStates]
    /\ m_Event_list \in Seq(Receivers)
    /\ alive \subseteq Receivers

TypeOK == LoopTypeOK /\ CallTypeOK /\ TableTypeOK

Init ==
    /\ pc = "check"
    /\ pass = IdlePass
    /\ saved = [i \in 1..MaxNesting |-> IdlePass]
    /\ depth = 0
    /\ m_Interrupt = FALSE
    /\ m_Awaken = FALSE
    /\ m_Wakeups = 0
    /\ asyncPending = FALSE
    /\ posted = 0
    /\ sendable = 0
    /\ exit = FALSE
    /\ caller = [th \in Threads |-> "idle"]
    /\ m_Timers = [t \in TimerIds |-> None]
    /\ owner = [h \in TimerHandles |-> None]
    /\ m_Notifiers = [n \in Notifiers |-> None]
    /\ uv = [h \in Handles |-> "none"]
    /\ m_Event_list = <<>>
    /\ alive = Receivers

TimerRegistered(t)    == m_Timers[t] # None
NotifierRegistered(n) == m_Notifiers[n] # None
TrackedTimers    == {m_Timers[t] : t \in {u \in TimerIds : TimerRegistered(u)}}
TrackedNotifiers == {m_Notifiers[n] : n \in {k \in Notifiers : NotifierRegistered(k)}}
Tracked == TrackedTimers \cup TrackedNotifiers
OpenHandles == {h \in Handles : uv[h] \notin {"none", "closing"}}
Closing(u)  == [h \in Handles |-> IF u[h] = "closing" THEN "none" ELSE u[h]]

-----------------------------------------------------------------------------
(* The other threads.                                                      *)

(* QCoreApplication::postEvent: append under the queue's lock, then wakeUp(). *)
PostEvent(th) ==
    /\ pc # "destroyed"
    /\ caller[th] = "idle"
    /\ posted < MaxPosted
    /\ posted' = posted + 1
    /\ caller' = [caller EXCEPT ![th] = "wakeUp"]
    /\ UNCHANGED <<loopVars, m_Interrupt, m_Awaken, wakeVars, sendable, exit, tableVars,
                   m_Event_list, alive>>

(* QEventLoop::exit: set the flag, then interrupt(). *)
Exit(th) ==
    /\ pc # "destroyed"
    /\ caller[th] = "idle"
    /\ exit' = TRUE
    /\ caller' = [caller EXCEPT ![th] = "interrupt"]
    /\ UNCHANGED <<loopVars, m_Interrupt, m_Awaken, wakeVars, queueVars, tableVars,
                   m_Event_list, alive>>

(* Another thread calls interrupt() or wakeUp() itself. *)
CallInterrupt(th) ==
    /\ pc # "destroyed"
    /\ caller[th] = "idle"
    /\ caller' = [caller EXCEPT ![th] = "interrupt"]
    /\ UNCHANGED <<loopVars, m_Interrupt, m_Awaken, wakeVars, queueVars, exit, tableVars,
                   m_Event_list, alive>>

(* Mutant: interrupt() that does not call wakeUp(). *)
InterruptWithoutWakeUp(th) ==
    /\ caller[th] = "interrupt"
    /\ m_Interrupt' = TRUE
    /\ caller' = [caller EXCEPT ![th] = "idle"]
    /\ UNCHANGED <<loopVars, m_Awaken, wakeVars, queueVars, exit, tableVars, m_Event_list,
                   alive>>

(* interrupt(), first half: m_Interrupt = true. *)
interrupt(th) ==
    /\ caller[th] = "interrupt"
    /\ m_Interrupt' = TRUE
    /\ caller' = [caller EXCEPT ![th] = "stored"]
    /\ UNCHANGED <<loopVars, m_Awaken, wakeVars, queueVars, exit, tableVars, m_Event_list,
                   alive>>

(* wakeUp(): m_Wakeups.testAndSetAcquire(0, 1); only the thread that sets it sends. *)
wakeUp(th) ==
    /\ caller[th] \in {"stored", "wakeUp"}
    /\ m_Wakeups' = 1
    /\ caller' = [caller EXCEPT ![th] = IF m_Wakeups = 0 THEN "send" ELSE "idle"]
    /\ UNCHANGED <<loopVars, m_Interrupt, m_Awaken, asyncPending, queueVars, exit, tableVars,
                   m_Event_list, alive>>

(* uv_async_send(&m_Wakeup), after a successful test. *)
asyncSend(th) ==
    /\ caller[th] = "send"
    /\ asyncPending' = TRUE
    /\ caller' = [caller EXCEPT ![th] = "idle"]
    /\ UNCHANGED <<loopVars, m_Interrupt, m_Awaken, m_Wakeups, queueVars, exit, tableVars,
                   m_Event_list, alive>>

OtherThread(th) ==
    \/ PostEvent(th)
    \/ Exit(th)
    \/ CallInterrupt(th)
    \/ interrupt(th)
    \/ wakeUp(th)
    \/ asyncSend(th)

-----------------------------------------------------------------------------
(* processEvents(), in the order of its lines.                             *)

(* QEventLoop::exec: while (!exit) processEvents(WaitForMoreEvents). *)
CheckExit ==
    /\ pc = "check"
    /\ IF exit THEN pc' = "stopped" /\ UNCHANGED pass
               ELSE pc' = "enter" /\ pass' = NewPass(TRUE, FALSE, FALSE)
    /\ UNCHANGED <<frameVars, m_Interrupt, m_Awaken, wakeVars, queueVars, exit, caller,
                   tableVars, m_Event_list, alive>>

(* disableTimers(true) and disableSocketNotifiers(true): uv_timer_stop and uv_poll_stop *)
(* on everything the tables hold.                                                       *)
Stopped(h) ==
    \/ pass.exTimers /\ h \in TrackedTimers /\ uv[h] = "active"
    \/ pass.exNotifiers /\ h \in TrackedNotifiers

(* Mutant: an early return of processEvents() skips the restart when it was interrupted. *)
RestartedUnlessInterrupted(h) ==
    /\ ~m_Interrupt
    /\ \/ pass.exTimers /\ h \in TrackedTimers
       \/ pass.exNotifiers /\ h \in TrackedNotifiers

(* disableTimers(false) and disableSocketNotifiers(false): uv_timer_start, with the whole *)
(* interval, and uv_poll_start on everything the tables hold.                             *)
Restarted(h) ==
    \/ pass.exTimers /\ h \in TrackedTimers
    \/ pass.exNotifiers /\ h \in TrackedNotifiers

(* Everything up to the first event that sendPostedEvents() sends: exclusion, the reset of *)
(* the two flags, the first value of result.  An event posted from now on is not sent.     *)
Enter ==
    /\ pc = "enter"
    /\ uv' = [h \in Handles |-> IF Stopped(h) THEN "stopped" ELSE uv[h]]
    /\ m_Interrupt' = FALSE
    /\ m_Awaken' = FALSE
    /\ pass' = [pass EXCEPT !.result = m_Event_list # <<>> \/ Tracked # {},
                            !.sends = posted > 0]
    /\ sendable' = posted
    /\ pc' = "post"
    /\ UNCHANGED <<frameVars, wakeVars, posted, exit, caller, m_Timers, owner, m_Notifiers,
                   m_Event_list, alive>>

(* sendPostedEvents() takes the next event and calls its handler. *)
SendPosted ==
    /\ pc = "post"
    /\ sendable > 0
    /\ sendable' = sendable - 1
    /\ posted' = posted - 1
    /\ pc' = "user"
    /\ UNCHANGED <<pass, frameVars, m_Interrupt, m_Awaken, wakeVars, exit, caller, tableVars,
                   m_Event_list, alive>>

(* wakeUp() called in the loop thread.  Its two halves are one step: between them this    *)
(* thread runs no loop code, and what another thread could see is a pending mark set late. *)
WakeUpHere == m_Wakeups' = 1 /\ asyncPending' = (asyncPending \/ m_Wakeups = 0)

(* A suspended pass is inside its sendPostedEvents(). *)
Sending == \E i \in 1..depth : saved[i].phase = "post"

(* sendPostedEvents() returns.  Qt's outermost one, if it has sent anything, calls wakeUp() *)
(* when events have been posted since.                                                      *)
SendPostedReturns ==
    /\ pc = "post"
    /\ sendable = 0
    /\ IF pass.sends /\ posted > 0 /\ ~Sending THEN WakeUpHere ELSE UNCHANGED wakeVars
    /\ pc' = "sent"
    /\ UNCHANGED <<pass, frameVars, m_Interrupt, m_Awaken, queueVars, exit, caller,
                   tableVars, m_Event_list, alive>>

(* What the loop thread may read from the plain bool m_Interrupt: while another thread is *)
(* between its store and the test of m_Wakeups, the value before the store too.           *)
InterruptReads == {m_Interrupt} \cup {FALSE : th \in {x \in Threads : caller[x] = "stored"}}

(* can_wait and the test of m_Interrupt (no call separates the two reads), then the mode. *)
(* uv_run(ONCE) does not block while a handle waits for its close callback.               *)
Decide ==
    /\ pc = "sent"
    /\ \E interrupted \in InterruptReads :
           pc' = IF interrupted THEN "restore"
                 ELSE IF pass.wait /\ ~pass.result /\ \A h \in Handles : uv[h] # "closing"
                      THEN "block"
                      ELSE "ready"
    /\ UNCHANGED <<pass, frameVars, m_Interrupt, m_Awaken, wakeVars, queueVars, exit, caller,
                   tableVars, m_Event_list, alive>>

(* Inside uv_run, the poll not over; the wake-up handle is taken at most once in a run. *)
InRun     == pc \in {"block", "ready", "polled"}
RunGoesOn == pc' = IF pc = "polled" THEN "polled" ELSE "ready"

(* uv_run: an active timer is due; timer_callback queues its event for the owner. *)
timer_callback(h) ==
    /\ InRun
    /\ uv[h] = "active"
    /\ uv' = [uv EXCEPT ![h] = "fired"]
    /\ m_Event_list' = Append(m_Event_list, owner[h])
    /\ RunGoesOn
    /\ UNCHANGED <<pass, frameVars, m_Interrupt, m_Awaken, wakeVars, queueVars, exit, caller,
                   m_Timers, owner, m_Notifiers, alive>>

(* uv_run: a descriptor is ready; socket_notifier_callback queues an event for the notifier, *)
(* once at most in a run.                                                                    *)
socket_notifier_callback(n) ==
    /\ InRun
    /\ NotifierRegistered(n)
    /\ uv[m_Notifiers[n]] = "active"
    /\ \A i \in 1..Len(m_Event_list) : m_Event_list[i] # n
    /\ m_Event_list' = Append(m_Event_list, n)
    /\ RunGoesOn
    /\ UNCHANGED <<pass, frameVars, m_Interrupt, m_Awaken, wakeVars, queueVars, exit, caller,
                   tableVars, alive>>

(* uv_run: polling fails; libuv stops the handle and the callback returns on status < 0. *)
PollError(n) ==
    /\ InRun
    /\ NotifierRegistered(n)
    /\ uv[m_Notifiers[n]] = "active"
    /\ uv' = [uv EXCEPT ![m_Notifiers[n]] = "failed"]
    /\ RunGoesOn
    /\ UNCHANGED <<pass, frameVars, m_Interrupt, m_Awaken, wakeVars, queueVars, exit, caller,
                   m_Timers, owner, m_Notifiers, m_Event_list, alive>>

(* uv_run: libuv clears the handle's pending mark and then calls wake_up_handler. *)
TakeAsync ==
    /\ pc \in {"block", "ready"}
    /\ asyncPending
    /\ asyncPending' = FALSE
    /\ pc' = "wake"
    /\ UNCHANGED <<pass, frameVars, m_Interrupt, m_Awaken, m_Wakeups, queueVars, exit, caller,
                   tableVars, m_Event_list, alive>>

(* Mutant: m_Wakeups is not reset. *)
WakeUpHandlerKeepsToken ==
    /\ pc = "wake"
    /\ m_Awaken' = TRUE
    /\ pc' = "polled"
    /\ UNCHANGED <<pass, frameVars, m_Interrupt, asyncPending, m_Wakeups, queueVars, exit,
                   caller, tableVars, m_Event_list, alive>>

wake_up_handler ==
    /\ pc = "wake"
    /\ m_Awaken' = TRUE
    /\ m_Wakeups' = 0
    /\ pc' = "polled"
    /\ UNCHANGED <<pass, frameVars, m_Interrupt, asyncPending, queueVars, exit, caller,
                   tableVars, m_Event_list, alive>>

(* Mutant: the event list is copied instead of swapped. *)
RunReturnsCopying ==
    /\ pc \in {"ready", "polled"}
    /\ uv' = Closing(uv)
    /\ owner' = [h \in TimerHandles |-> IF uv[h] = "closing" THEN None ELSE owner[h]]
    /\ pass' = [pass EXCEPT !.list = m_Event_list,
                            !.result = @ \/ m_Event_list # <<>> \/ m_Awaken,
                            !.phase = "deliver"]
    /\ pc' = "deliver"
    /\ UNCHANGED <<frameVars, m_Interrupt, m_Awaken, wakeVars, queueVars, exit, caller,
                   m_Timers, m_Notifiers, m_Event_list, alive>>

(* uv_run runs the close callbacks, which delete the handles, and returns; the event list *)
(* is swapped for an empty one and result updated.                                        *)
RunReturns ==
    /\ pc \in {"ready", "polled"}
    /\ uv' = Closing(uv)
    /\ owner' = [h \in TimerHandles |-> IF uv[h] = "closing" THEN None ELSE owner[h]]
    /\ pass' = [pass EXCEPT !.list = m_Event_list,
                            !.result = @ \/ m_Event_list # <<>> \/ m_Awaken,
                            !.phase = "deliver"]
    /\ m_Event_list' = <<>>
    /\ pc' = "deliver"
    /\ UNCHANGED <<frameVars, m_Interrupt, m_Awaken, wakeVars, queueVars, exit, caller,
                   m_Timers, m_Notifiers, alive>>

(* sendEvent to the next receiver of the list, unless its QPointer is null by now. *)
Deliver ==
    /\ pc = "deliver"
    /\ pass.list # <<>>
    /\ pass' = [pass EXCEPT !.list = Tail(@)]
    /\ pc' = IF Head(pass.list) \in alive THEN "user" ELSE "deliver"
    /\ UNCHANGED <<frameVars, m_Interrupt, m_Awaken, wakeVars, queueVars, exit, caller,
                   tableVars, m_Event_list, alive>>

Delivered ==
    /\ pc = "deliver"
    /\ pass.list = <<>>
    /\ pc' = "restore"
    /\ UNCHANGED <<pass, frameVars, m_Interrupt, m_Awaken, wakeVars, queueVars, exit, caller,
                   tableVars, m_Event_list, alive>>

(* The end of processEvents(): what was excluded is started again; an inner call returns *)
(* to the handler that made it, the outermost one to QEventLoop::exec.                   *)
Return ==
    /\ pc = "restore"
    /\ uv' = [h \in Handles |-> IF Restarted(h) THEN "active" ELSE uv[h]]
    /\ IF depth = 0
       THEN pc' = "check" /\ pass' = IdlePass /\ UNCHANGED frameVars
       ELSE /\ pc' = "user"
            /\ pass' = saved[depth]
            /\ saved' = [saved EXCEPT ![depth] = IdlePass]
            /\ depth' = depth - 1
    /\ UNCHANGED <<m_Interrupt, m_Awaken, wakeVars, queueVars, exit, caller, m_Timers, owner,
                   m_Notifiers, m_Event_list, alive>>

LoopThread ==
    \/ CheckExit
    \/ Enter
    \/ SendPosted
    \/ SendPostedReturns
    \/ Decide
    \/ TakeAsync
    \/ wake_up_handler
    \/ RunReturns
    \/ Deliver
    \/ Delivered
    \/ Return

-----------------------------------------------------------------------------
(* What a handler, called in the loop thread, may do.                      *)

HandlerReturns ==
    /\ pc = "user"
    /\ pc' = pass.phase
    /\ UNCHANGED <<pass, frameVars, m_Interrupt, m_Awaken, wakeVars, queueVars, exit, caller,
                   tableVars, m_Event_list, alive>>

(* Qt gives a live object an id that is not in use. *)
registerTimer(t, o) ==
    /\ pc = "user"
    /\ ~TimerRegistered(t)
    /\ o \in alive
    /\ \E h \in TimerHandles :
           /\ uv[h] = "none"
           /\ m_Timers' = [m_Timers EXCEPT ![t] = h]
           /\ owner' = [owner EXCEPT ![h] = o]
           /\ uv' = [uv EXCEPT ![h] = "active"]
    /\ UNCHANGED <<loopVars, m_Interrupt, m_Awaken, wakeVars, queueVars, exit, caller,
                   m_Notifiers, m_Event_list, alive>>

unregisterTimer(t) ==
    /\ pc = "user"
    /\ TimerRegistered(t)
    /\ m_Timers' = [m_Timers EXCEPT ![t] = None]
    /\ uv' = [uv EXCEPT ![m_Timers[t]] = "closing"]
    /\ UNCHANGED <<loopVars, m_Interrupt, m_Awaken, wakeVars, queueVars, exit, caller, owner,
                   m_Notifiers, m_Event_list, alive>>

(* The ids whose TimerInfo::m_pObject is the object. *)
OwnedBy(o) == {t \in TimerIds : TimerRegistered(t) /\ owner[m_Timers[t]] = o}

(* Mutant: the search for the timers of an object skips those an excluding pass stopped. *)
UnregisterTimersRunning(o) ==
    LET found == {t \in OwnedBy(o) : uv[m_Timers[t]] # "stopped"}
    IN  /\ m_Timers' = [t \in TimerIds |-> IF t \in found THEN None ELSE m_Timers[t]]
        /\ uv' = [h \in Handles |-> IF \E t \in found : m_Timers[t] = h
                                    THEN "closing" ELSE uv[h]]

unregisterTimers(o) ==
    /\ m_Timers' = [t \in TimerIds |-> IF t \in OwnedBy(o) THEN None ELSE m_Timers[t]]
    /\ uv' = [h \in Handles |-> IF \E t \in OwnedBy(o) : m_Timers[t] = h
                                THEN "closing" ELSE uv[h]]

(* ~QObject: a handler deletes an object, whose destructor calls unregisterTimers. *)
DestroyObject(o) ==
    /\ pc = "user"
    /\ o \in alive
    /\ unregisterTimers(o)
    /\ alive' = alive \ {o}
    /\ UNCHANGED <<loopVars, m_Interrupt, m_Awaken, wakeVars, queueVars, exit, caller, owner,
                   m_Notifiers, m_Event_list>>

(* QSocketNotifier::setEnabled(true), on a notifier that is not enabled. *)
registerSocketNotifier(n) ==
    /\ pc = "user"
    /\ n \in alive
    /\ ~NotifierRegistered(n)
    /\ \E h \in PollHandles :
           /\ uv[h] = "none"
           /\ m_Notifiers' = [m_Notifiers EXCEPT ![n] = h]
           /\ uv' = [uv EXCEPT ![h] = "active"]
    /\ UNCHANGED <<loopVars, m_Interrupt, m_Awaken, wakeVars, queueVars, exit, caller,
                   m_Timers, owner, m_Event_list, alive>>

(* Mutant: the entry is erased and its handle not closed. *)
EraseWithoutClose(n) ==
    /\ m_Notifiers' = [m_Notifiers EXCEPT ![n] = None]
    /\ UNCHANGED uv

unregisterSocketNotifier(n) ==
    /\ m_Notifiers' = [m_Notifiers EXCEPT ![n] = None]
    /\ uv' = [h \in Handles |-> IF NotifierRegistered(n) /\ m_Notifiers[n] = h
                                THEN "closing" ELSE uv[h]]

(* setEnabled(false), or ~QSocketNotifier, which calls it. *)
DisableNotifier(n) ==
    /\ pc = "user"
    /\ n \in alive
    /\ unregisterSocketNotifier(n)
    /\ alive' \in {alive, alive \ {n}}
    /\ UNCHANGED <<loopVars, m_Interrupt, m_Awaken, wakeVars, queueVars, exit, caller,
                   m_Timers, owner, m_Event_list>>

(* A handler posts an event to its own thread. *)
PostHere ==
    /\ pc = "user"
    /\ posted < MaxPosted
    /\ posted' = posted + 1
    /\ WakeUpHere
    /\ UNCHANGED <<loopVars, m_Interrupt, m_Awaken, sendable, exit, caller, tableVars,
                   m_Event_list, alive>>

(* A handler calls interrupt(), on its own or from QEventLoop::exit of the outermost loop. *)
InterruptHere ==
    /\ pc = "user"
    /\ exit' \in {exit, TRUE}
    /\ m_Interrupt' = TRUE
    /\ WakeUpHere
    /\ UNCHANGED <<loopVars, m_Awaken, queueVars, caller, tableVars, m_Event_list, alive>>

(* A handler calls processEvents(flags): the pass in progress is suspended. *)
NestedPass ==
    /\ pc = "user"
    /\ depth < MaxNesting
    /\ saved' = [saved EXCEPT ![depth + 1] =
                     [pass EXCEPT !.reentered = @ \/ pass.phase = "post"]]
    /\ depth' = depth + 1
    /\ \E wait, exTimers, exNotifiers \in BOOLEAN :
           pass' = NewPass(wait, exTimers, exNotifiers)
    /\ pc' = "enter"
    /\ UNCHANGED <<m_Interrupt, m_Awaken, wakeVars, queueVars, exit, caller, tableVars,
                   m_Event_list, alive>>

Handler ==
    \/ \E t \in TimerIds : unregisterTimer(t) \/ \E o \in Objects : registerTimer(t, o)
    \/ \E o \in Objects : DestroyObject(o)
    \/ \E n \in Notifiers : registerSocketNotifier(n) \/ DisableNotifier(n)
    \/ PostHere
    \/ InterruptHere
    \/ NestedPass

-----------------------------------------------------------------------------
(* Every handle that m_Timers, or m_Notifiers, holds is closed. *)
killTimers(u)          == [h \in Handles |-> IF h \in TrackedTimers THEN "closing" ELSE u[h]]
killSocketNotifiers(u) == [h \in Handles |-> IF h \in TrackedNotifiers THEN "closing" ELSE u[h]]

(* The destructor, once exec has returned and no thread is inside a call: after the two    *)
(* kills uv_run(DEFAULT) runs the close callbacks, those of handles unregistered before    *)
(* included, and finds nothing active.                                                     *)
Destroy ==
    /\ pc = "stopped"
    /\ \A th \in Threads : caller[th] = "idle"
    /\ LET killed == killSocketNotifiers(killTimers(uv))
       IN  /\ \A h \in Handles : killed[h] # "active"
           /\ uv' = Closing(killed)
           /\ owner' = [h \in TimerHandles |->
                            IF killed[h] = "closing" THEN None ELSE owner[h]]
    /\ m_Timers' = [t \in TimerIds |-> None]
    /\ m_Notifiers' = [n \in Notifiers |-> None]
    /\ asyncPending' = FALSE
    /\ pc' = "destroyed"
    /\ UNCHANGED <<pass, frameVars, m_Interrupt, m_Awaken, m_Wakeups, queueVars, exit, caller,
                   m_Event_list, alive>>

(* The dispatcher is gone: not a deadlock. *)
Terminated == pc = "destroyed" /\ UNCHANGED vars

Next ==
    \/ \E th \in Threads : OtherThread(th)
    \/ LoopThread
    \/ HandlerReturns
    \/ Handler
    \/ \E h \in TimerHandles : timer_callback(h)
    \/ \E n \in Notifiers : socket_notifier_callback(n) \/ PollError(n)
    \/ Destroy
    \/ Terminated

Spec == Init /\ [][Next]_vars

(* A runnable thread is scheduled: the loop thread does its next step, handlers return and *)
(* a thread inside interrupt() or wakeUp() completes the call.  Nothing makes a thread     *)
(* post, a handler do anything, a timer come due or a descriptor become ready.             *)
Fairness ==
    /\ WF_vars(LoopThread)
    /\ WF_vars(HandlerReturns)
    /\ \A th \in Threads : WF_vars(interrupt(th) \/ wakeUp(th) \/ asyncSend(th))

FairSpec == Spec /\ Fairness

-----------------------------------------------------------------------------
(* A wake-up that will end, or keep from starting, the wait of uv_run(ONCE): the handle is *)
(* marked pending, or a thread inside interrupt() or wakeUp() is still to mark it.         *)
WakeComing == asyncPending \/ \E th \in Threads : caller[th] # "idle"

(* The wake-up token is never lost: the loop thread does not wait in uv_run(ONCE) while an *)
(* event is queued, or while its QEventLoop has been told to exit, unless a wake-up is on  *)
(* its way.  It relates the coalescing counter of wakeUp(), its reset in wake_up_handler   *)
(* and the order in which processEvents() clears m_Interrupt, sends the posted events and  *)
(* polls.  Two passes are excepted, whose sendPostedEvents() ran a nested pass that took   *)
(* the token: one that runs inside another sendPostedEvents(), for an event it will not    *)
(* send any more, and any, for an exit() whose m_Interrupt the nested pass has cleared.    *)
NoLostWakeup ==
    /\ pc = "block" /\ posted > 0 /\ ~(pass.reentered /\ Sending) => WakeComing
    /\ pc = "block" /\ exit /\ depth = 0 /\ ~pass.reentered => WakeComing

(* interrupt() is never slept through, in nested passes neither: while m_Interrupt is set  *)
(* the loop thread waits only if a wake-up is on its way.                                  *)
InterruptEndsWait == pc = "block" /\ m_Interrupt => WakeComing

(* No libuv handle leaks and none is used after it is closed: the handles that are open    *)
(* are those m_Timers and m_Notifiers hold, each held once, whatever handlers register,    *)
(* unregister and destroy, in nested passes too, and after the destructor there are none.  *)
HandlesTracked ==
    /\ OpenHandles = Tracked
    /\ \A t, u \in TimerIds : TimerRegistered(t) /\ m_Timers[t] = m_Timers[u] => t = u
    /\ \A n, k \in Notifiers : NotifierRegistered(n) /\ m_Notifiers[n] = m_Notifiers[k] => n = k
    /\ pc = "destroyed" => \A h \in Handles : uv[h] = "none"

(* timer_callback and socket_notifier_callback build a QPointer from a raw pointer: every  *)
(* open handle must belong to a receiver that has not been destroyed.                      *)
OwnersAlive ==
    /\ \A t \in TimerIds : TimerRegistered(t) => owner[m_Timers[t]] \in alive
    /\ \A n \in Notifiers : NotifierRegistered(n) => n \in alive

ExcludingTimers    == pass.exTimers    \/ \E i \in 1..depth : saved[i].exTimers
ExcludingNotifiers == pass.exNotifiers \/ \E i \in 1..depth : saved[i].exNotifiers

(* processEvents() starts again what it stopped, on every path out of it, the one that     *)
(* finds m_Interrupt set included: a registered timer or notifier is stopped only while a  *)
(* pass that excludes its kind is in progress.                                             *)
NothingStranded ==
    /\ \A h \in TrackedTimers : uv[h] = "stopped" => ExcludingTimers
    /\ \A h \in TrackedNotifiers : uv[h] = "stopped" => ExcludingNotifiers

(* The events that callbacks queue are handled by the pass whose uv_run queued them: none  *)
(* is left for another pass, a nested one (which would deliver it early) nor one after it. *)
EventsDrained == pc \notin {"block", "ready", "wake", "polled"} => m_Event_list = <<>>

Finished == pc \in {"stopped", "destroyed"}

(* A posted event is not left in the queue while the loop runs: whenever one is queued the *)
(* loop later handles one (they are handled in order), or exec has returned.               *)
PostedHandled == posted > 0 ~> (pc = "user" /\ pass.phase = "post") \/ Finished

(* QEventLoop::exit(), called by any thread at any moment of processEvents(), ends exec(). *)
ExitHonoured == exit ~> Finished
=============================================================================
