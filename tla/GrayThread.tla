----------------------------- MODULE GrayThread -----------------------------
(***************************************************************************)
(* QCatGrayThread: a thread that runs the function it was given, sleeps on *)
(* a condition variable, and runs the one it has when it is woken.         *)
(*                                                                         *)
(* m_qMutex is taken by run() alone, so Start() and Stop() do not exclude  *)
(* it: each of their statements is a step, and so is each of run()'s.      *)
(* QWaitCondition has no spurious wake-ups, and a notification that finds  *)
(* no waiter is lost.                                                      *)
(***************************************************************************)
EXTENDS Integers, FiniteSets

CONSTANTS
    Workers,     \* the QCatGrayThread objects
    Callers,     \* the threads that call Start() and Stop()
    MaxTasks,    \* bound: calls of Start()
    None

ASSUME TasksAssumption == MaxTasks \in Nat

Tasks == 1..MaxTasks
Null == 0

VARIABLES
    m_bStart,
    m_bWork,
    m_pFunction,   \* by worker, the task of its function, or Null
    pc,            \* by worker, where run() is
    call,          \* by caller, the statement it executes next, of which worker, with which task
    crashed,       \* a function was called that is empty, or replaced while it was called
    count,         \* history: tasks so far
    runs,          \* history: how often each task was run
    missed         \* history: the workers whose last notification came too late to be acted on

workerVars == <<m_bStart, m_bWork, m_pFunction>>
vars == <<workerVars, pc, call, crashed, count, runs, missed>>

Awake == {"loop", "test", "mark", "call", "running", "park"}
Statements == {"idle", "function", "work", "notify",
               "unwork", "unstart", "null", "notifyStop", "wait"}
Idle == [at |-> "idle", worker |-> None, task |-> Null]

TypeOK ==
    /\ m_bStart \in [Workers -> BOOLEAN]
    /\ m_bWork \in [Workers -> BOOLEAN]
    /\ m_pFunction \in [Workers -> Tasks \cup {Null}]
    /\ pc \in [Workers -> Awake \cup {"parked", "finished"}]
    /\ call \in [Callers -> [at : Statements, worker : Workers \cup {None},
                             task : Tasks \cup {Null}]]
    /\ crashed \in BOOLEAN
    /\ count \in 0..MaxTasks
    /\ runs \in [Tasks -> Nat]
    /\ missed \subseteq Workers

(* The constructor, which starts the thread. *)
Init ==
    /\ m_bStart = [w \in Workers |-> TRUE]
    /\ m_bWork = [w \in Workers |-> FALSE]
    /\ m_pFunction = [w \in Workers |-> Null]
    /\ pc = [w \in Workers |-> "loop"]
    /\ call = [c \in Callers |-> Idle]
    /\ crashed = FALSE
    /\ count = 0
    /\ runs = [t \in Tasks |-> 0]
    /\ missed = {}

-----------------------------------------------------------------------------
(* Start() and Stop(): their statements, for which the task of Stop() is Null.              *)

At(c, statement) == ~crashed /\ call[c].at = statement
Goes(c, statement) == call' = [call EXCEPT ![c].at = statement]
Returns(c) == call' = [call EXCEPT ![c] = Idle]

Start(c, w) ==
    /\ At(c, "idle")
    /\ count < MaxTasks
    /\ count' = count + 1
    /\ call' = [call EXCEPT ![c] = [at |-> "function", worker |-> w, task |-> count']]
    /\ UNCHANGED <<workerVars, pc, crashed, runs, missed>>

Stop(c, w) ==
    /\ At(c, "idle")
    /\ call' = [call EXCEPT ![c] = [at |-> "unwork", worker |-> w, task |-> Null]]
    /\ UNCHANGED <<workerVars, pc, crashed, count, runs, missed>>

(* Mutant: Stop() leaves m_bStart. *)
StopKeepsStart(c) == At(c, "unstart") /\ Goes(c, "null") /\ UNCHANGED workerVars

StopClearsStart(c) ==
    /\ At(c, "unstart") /\ Goes(c, "null")
    /\ m_bStart' = [m_bStart EXCEPT ![call[c].worker] = FALSE]
    /\ UNCHANGED <<m_bWork, m_pFunction>>

SetsFunction(c) ==
    /\ \/ At(c, "function") /\ Goes(c, "work")
       \/ At(c, "null") /\ Goes(c, "notifyStop")
    /\ m_pFunction' = [m_pFunction EXCEPT ![call[c].worker] = call[c].task]
    /\ UNCHANGED <<m_bStart, m_bWork>>

SetsWork(c) ==
    /\ \/ At(c, "work") /\ Goes(c, "notify")
       \/ At(c, "unwork") /\ Goes(c, "unstart")
    /\ m_bWork' = [m_bWork EXCEPT ![call[c].worker] = (call[c].at = "work")]
    /\ UNCHANGED <<m_bStart, m_pFunction>>

Assigns(c) ==
    /\ SetsFunction(c) \/ SetsWork(c) \/ StopClearsStart(c)
    /\ UNCHANGED <<pc, crashed, count, runs, missed>>

(* Wakes w if it waits; w misses it if it has passed the tests it should make again. *)
Notifies(w, passed) ==
    /\ pc' = IF pc[w] = "parked" THEN [pc EXCEPT ![w] = "loop"] ELSE pc
    /\ missed' = CASE pc[w] = "parked" -> missed \ {w}
                   [] pc[w] \in passed -> missed \cup {w}
                   [] OTHER -> missed

(* Mutant: Start() notifies only a thread that does not say it is working. *)
NotifiesStartIdle(c) ==
    /\ At(c, "notify") /\ Returns(c)
    /\ \/ ~m_bWork[call[c].worker] /\ Notifies(call[c].worker, {})
       \/ m_bWork[call[c].worker] /\ UNCHANGED <<pc, missed>>

(* A function that run() has yet to test or to call will be called. *)
NotifiesStart(c) ==
    /\ At(c, "notify") /\ Returns(c)
    /\ Notifies(call[c].worker, {"running", "park"})

NotifiesStop(c) ==
    /\ At(c, "notifyStop") /\ Goes(c, "wait")
    /\ Notifies(call[c].worker, Awake \ {"loop"})

NotifiesOne(c) ==
    /\ NotifiesStart(c) \/ NotifiesStop(c)
    /\ UNCHANGED <<workerVars, crashed, count, runs>>

Waits(c) ==
    /\ At(c, "wait") /\ Returns(c)
    /\ pc[call[c].worker] = "finished"
    /\ UNCHANGED <<workerVars, pc, crashed, count, runs, missed>>

CallerStatement(c) == Assigns(c) \/ NotifiesOne(c) \/ Waits(c)

-----------------------------------------------------------------------------
(* run().                                                                  *)

Reaches(w, from, to) == ~crashed /\ pc[w] = from /\ pc' = [pc EXCEPT ![w] = to]

(* Mutant: the thread does not wait. *)
ParksNot(w) == Reaches(w, "park", "loop")

Parks(w) == Reaches(w, "park", "parked")

(* while(m_bStart), if(m_pFunction != nullptr) and the wait. *)
Moves(w) ==
    /\ \/ Reaches(w, "loop", IF m_bStart[w] THEN "test" ELSE "finished")
       \/ Reaches(w, "test", IF m_pFunction[w] = Null THEN "park" ELSE "mark")
       \/ Parks(w)
    /\ UNCHANGED <<workerVars, call, crashed, count, runs, missed>>

(* m_bWork is set before the function is called and cleared when it has returned. *)
Marks(w) ==
    \/ Reaches(w, "mark", "call") /\ m_bWork' = [m_bWork EXCEPT ![w] = TRUE]
    \/ Reaches(w, "running", "park") /\ m_bWork' = [m_bWork EXCEPT ![w] = FALSE]

(* m_pFunction(), which throws if Stop() has emptied it since the test. *)
CallsFunction(w) ==
    /\ Reaches(w, "call", "running")
    /\ crashed' = (m_pFunction[w] = Null)
    /\ runs' = [t \in Tasks |-> IF t = m_pFunction[w] THEN runs[t] + 1 ELSE runs[t]]
    /\ UNCHANGED <<workerVars, call, count, missed>>

Run(w) ==
    \/ Moves(w)
    \/ Marks(w) /\ UNCHANGED <<m_bStart, m_pFunction, call, crashed, count, runs, missed>>
    \/ CallsFunction(w)

(* The std::function is assigned while it is tested or called, or by two callers: besides    *)
(* one before the other, the program may crash.                                             *)
FunctionShared == \E c \in Callers :
    /\ At(c, "function") \/ At(c, "null")
    /\ \/ pc[call[c].worker] \in {"test", "call", "running"}
       \/ \E d \in Callers \ {c} :
            (At(d, "function") \/ At(d, "null")) /\ call[d].worker = call[c].worker

RaceOnFunction ==
    /\ FunctionShared
    /\ crashed' = TRUE
    /\ UNCHANGED <<workerVars, pc, call, count, runs, missed>>

Terminated == crashed /\ UNCHANGED vars

Next ==
    \/ \E c \in Callers, w \in Workers : Start(c, w) \/ Stop(c, w)
    \/ \E c \in Callers : CallerStatement(c)
    \/ \E w \in Workers : Run(w)
    \/ RaceOnFunction
    \/ Terminated

Spec == Init /\ [][Next]_vars

(* The threads are scheduled, and the functions they run return. *)
FairSpec ==
    /\ Spec
    /\ \A w \in Workers : WF_vars(Run(w))
    /\ \A c \in Callers : WF_vars(CallerStatement(c))

-----------------------------------------------------------------------------
(* Properties.                                                             *)

Executes(statements, w) == \E c \in Callers : call[c].worker = w /\ call[c].at \in statements

(* A thread sleeps over a function it has not run, over Stop(), or saying that it works,     *)
(* only while the notification is still to come, or when it came too late.                  *)
SleepHasCause == \A w \in Workers : pc[w] = "parked" /\ w \notin missed =>
    /\ m_pFunction[w] # Null /\ runs[m_pFunction[w]] = 0 => Executes({"work", "notify"}, w)
    /\ ~m_bStart[w] => Executes({"null", "notifyStop"}, w)
    /\ m_bWork[w] => Executes({"notify", "notifyStop"}, w)

(* A function is run at most once more than there are callers: in the pass that its         *)
(* assignment finds under way, and in one for each notification that is still to come.      *)
RunsBounded == \A t \in Tasks : runs[t] <= 1 + Cardinality(Callers)

(* Stop() returns, unless its notification came too late or the function it empties was     *)
(* about to be called.                                                                      *)
StopEnds == \A c \in Callers :
    At(c, "wait") ~> (call[c] = Idle \/ crashed \/ call[c].worker \in missed)
=============================================================================
