----------------------------- MODULE ThreadPool -----------------------------
(***************************************************************************)
(* QCatGrayThreadPool: a list of threads (GrayThread) to which AddTask()   *)
(* gives functions, and a helper thread that now and then takes the idle   *)
(* ones above the initial number off the list.                             *)
(*                                                                         *)
(* m_pHandleMutex is taken to read the length of the list, to count the    *)
(* threads that work and to append one; the loops of AddTask() and of      *)
(* HandleNonWork() run without it.  A loop is the threads it has yet to    *)
(* visit.                                                                  *)
(***************************************************************************)
EXTENDS Integers, Sequences, FiniteSets, SequencesExt

CONSTANTS
    Callers,                  \* the threads that call AddTask()
    Owner,                    \* the one that deletes the pool
    MaxTasks,                 \* bound: calls of AddTask()
    m_iDefaultThreadCount,
    None

ASSUME PoolAssumption ==
    MaxTasks \in Nat /\ m_iDefaultThreadCount \in Nat /\ Owner \in Callers

(* Each call creates one thread at most. *)
Workers == 1..(m_iDefaultThreadCount + MaxTasks)
Null == 0

VARIABLES
    m_bStart, m_bWork, m_pFunction, pc, call, crashed, count, runs, missed,  \* GrayThread
    m_pThreadList,
    m_bHandle_NonWork_Threads,
    created,       \* the threads created so far
    orphans,       \* those of them that are no children of the pool
    locked,        \* who holds m_pHandleMutex, or None
    adding,        \* by caller, where it is in AddTask() or in the destructor
    helper,        \* where the helper thread is, in its loop or in HandleNonWork()
    pool,          \* the pool is used, being deleted, or gone
    given,         \* history: calls of AddTask() so far
    strays,        \* history: the orphans that the helper took off the list of a pool in use
    raced,         \* history: AddTask() has overlapped with itself or with HandleNonWork(), or a
                   \* thread has looked again at a function it had run
    dropped,       \* history: AddTask() has returned and given its task to no thread
    replaced       \* history: a function was assigned over one that had yet to run

threadVars == <<m_bStart, m_bWork, m_pFunction, pc, call, crashed, count, runs, missed>>
listVars == <<m_pThreadList, created, orphans, strays>>
poolVars == <<listVars, m_bHandle_NonWork_Threads, locked, adding, helper, pool, given, raced,
              dropped>>
vars == <<threadVars, poolVars, replaced>>

Thread == INSTANCE GrayThread

(* removeOne(). *)
Without(s, w) ==
    IF \E i \in DOMAIN s : s[i] = w THEN RemoveAt(s, CHOOSE i \in DOMAIN s : s[i] = w) ELSE s

Places == {"idle", "size", "lock", "count", "create", "push", "choose", "start",
           "delete", "stopping"}

(* What AddTask() has read: the length of the list, the threads it has yet to visit, how    *)
(* many of those it has visited work; and the thread it has created.                        *)
Idle == [at |-> "idle", size |-> 0, rest |-> <<>>, busy |-> 0, worker |-> Null]

TypeOK ==
    /\ Thread!TypeOK
    /\ m_pThreadList \in Seq(Workers)
    /\ m_bHandle_NonWork_Threads \in BOOLEAN
    /\ created \subseteq Workers /\ orphans \subseteq created /\ strays \subseteq orphans
    /\ locked \in Callers \cup {None}
    /\ adding \in [Callers -> [at : Places, size : Nat, rest : Seq(Workers), busy : Nat,
                               worker : Workers \cup {Null}]]
    /\ helper \in [at : {"begin", "test", "visit", "trim", "remove", "ended"}, rest : Seq(Workers)]
    /\ pool \in {"used", "deleting", "gone"}
    /\ given \in 0..MaxTasks
    /\ raced \in BOOLEAN /\ dropped \in BOOLEAN /\ replaced \in BOOLEAN

(* The constructor: its threads and the helper are at the start of their run(). *)
Init ==
    /\ Thread!Init
    /\ m_pThreadList = [i \in 1..m_iDefaultThreadCount |-> i]
    /\ m_bHandle_NonWork_Threads = FALSE
    /\ created = 1..m_iDefaultThreadCount /\ orphans = {} /\ strays = {}
    /\ locked = None
    /\ adding = [c \in Callers |-> Idle]
    /\ helper = [at |-> "begin", rest |-> <<>>]
    /\ pool = "used"
    /\ given = 0 /\ raced = FALSE /\ dropped = FALSE /\ replaced = FALSE

-----------------------------------------------------------------------------
(* AddTask().                                                              *)

At(c, place) == ~crashed /\ adding[c].at = place
AllIdle == \A c \in Callers : adding[c] = Idle
InPass == helper.at \in {"visit", "trim", "remove"}

AddTask(c) ==
    /\ At(c, "idle")
    /\ pool = "used"
    /\ given < MaxTasks
    /\ given' = given + 1
    /\ adding' = [adding EXCEPT ![c].at = "size"]
    /\ raced' = (raced \/ ~AllIdle \/ InPass)
    /\ UNCHANGED <<threadVars, listVars, m_bHandle_NonWork_Threads, locked, helper, pool, dropped>>

(* GetThreadCount(), then the lock of GetThreadWorkCount(). *)
GetThreadCount(c) ==
    /\ locked = None
    /\ \/ /\ At(c, "size")
          /\ adding' = [adding EXCEPT ![c].at = "lock", ![c].size = Len(m_pThreadList)]
          /\ UNCHANGED locked
       \/ /\ At(c, "lock")
          /\ adding' = [adding EXCEPT ![c].at = "count", ![c].rest = m_pThreadList]
          /\ locked' = c
    /\ UNCHANGED <<threadVars, listVars>>

(* Mutant: a new thread only when more threads work than there are. *)
SaturatedAbove(c) == adding[c].busy > adding[c].size

Saturated(c) == adding[c].busy = adding[c].size

(* GetThreadWorkCount(), one thread after the other, and its comparison with the length. *)
GetThreadWorkCount(c) ==
    /\ At(c, "count")
    /\ LET rest == adding[c].rest
           busy == adding[c].busy
       IN  IF rest # <<>>
           THEN /\ adding' = [adding EXCEPT ![c].rest = Tail(rest),
                                           ![c].busy = IF m_bWork[Head(rest)] THEN busy + 1 ELSE busy]
                /\ UNCHANGED locked
           ELSE /\ adding' = [adding EXCEPT
                      ![c].at = IF Saturated(c) THEN "create" ELSE "choose",
                      ![c].rest = m_pThreadList]
                /\ locked' = None
    /\ UNCHANGED <<threadVars, listVars>>

(* Every thread was at work: a new one, which starts its run() before it is appended.  Qt    *)
(* makes it a child of the pool only if the caller is the thread in which the pool lives.    *)
Creates(c) ==
    /\ At(c, "create")
    /\ \E w \in Workers :
         /\ created = 1..(w - 1)
         /\ created' = created \cup {w}
         /\ orphans' = IF c = Owner THEN orphans ELSE orphans \cup {w}
         /\ adding' = [adding EXCEPT ![c].at = "push", ![c].worker = w]
    /\ UNCHANGED <<threadVars, m_pThreadList, strays, locked>>

(* It is appended, and started before the mutex is given back. *)
Pushes(c) ==
    /\ At(c, "push")
    /\ locked = None
    /\ locked' = c
    /\ m_pThreadList' = Append(m_pThreadList, adding[c].worker)
    /\ adding' = [adding EXCEPT ![c].at = "start"]
    /\ Thread!Start(c, adding[c].worker)
    /\ UNCHANGED <<created, orphans, strays>>

(* The first thread that does not say it works is started; if there is none by now, the     *)
(* task is dropped.                                                                         *)
Chooses(c) ==
    /\ At(c, "choose")
    /\ LET rest == adding[c].rest
       IN  \/ /\ rest # <<>> /\ m_bWork[Head(rest)]
              /\ adding' = [adding EXCEPT ![c].rest = Tail(rest)]
              /\ UNCHANGED <<threadVars, dropped>>
           \/ /\ rest # <<>> /\ ~m_bWork[Head(rest)]
              /\ adding' = [adding EXCEPT ![c].at = "start"]
              /\ Thread!Start(c, Head(rest))
              /\ UNCHANGED dropped
           \/ /\ rest = <<>>
              /\ adding' = [adding EXCEPT ![c] = Idle]
              /\ dropped' = TRUE
              /\ UNCHANGED threadVars
    /\ UNCHANGED <<listVars, locked>>

Returns(c) ==
    /\ At(c, "start")
    /\ call[c] = Thread!Idle
    /\ adding' = [adding EXCEPT ![c] = Idle]
    /\ locked' = IF locked = c THEN None ELSE locked
    /\ UNCHANGED <<threadVars, listVars>>

-----------------------------------------------------------------------------
(* The helper thread.                                                      *)

(* It sets its flag, and then tests it before each pass and the sleep after it; it does so  *)
(* even when the pool is gone, which is undefined.                                          *)
HelperTests ==
    /\ ~crashed
    /\ \/ /\ helper.at = "begin"
          /\ helper' = [helper EXCEPT !.at = "test"]
          /\ m_bHandle_NonWork_Threads' = TRUE
          /\ UNCHANGED raced
       \/ /\ helper.at = "test"
          /\ helper' = IF m_bHandle_NonWork_Threads
                       THEN [at |-> "visit", rest |-> m_pThreadList]
                       ELSE [helper EXCEPT !.at = "ended"]
          /\ raced' = (raced \/ ~AllIdle)
          /\ UNCHANGED m_bHandle_NonWork_Threads
    /\ crashed' = (pool = "gone")
    /\ UNCHANGED <<m_bStart, m_bWork, m_pFunction, pc, call, count, runs, missed, m_pThreadList,
                   strays>>

Spare(list) == Len(list) > m_iDefaultThreadCount

(* What the loop has yet to visit when it takes w off the list: removeOne() moves the       *)
(* shorter end of the list, and when that is the back one, the loop passes over a thread    *)
(* and visits the last one twice.                                                           *)
AfterRemoval(w, rest) ==
    IF rest = <<>> \/ \E i \in DOMAIN m_pThreadList :
                         m_pThreadList[i] = w /\ 2 * i <= Len(m_pThreadList) + 1
    THEN rest
    ELSE Append(Tail(rest), rest[Len(rest)])

(* The length is read under the mutex, the removal is made without it. *)
HandleNonWork ==
    /\ ~crashed
    /\ LET rest == helper.rest
       IN  \/ /\ helper.at = "visit" /\ rest = <<>>
              /\ helper' = [helper EXCEPT !.at = "test"]
              /\ UNCHANGED <<m_pThreadList, strays>>
           \/ /\ helper.at = "visit" /\ rest # <<>>
              /\ helper' = IF m_bWork[Head(rest)] THEN [helper EXCEPT !.rest = Tail(rest)]
                                                  ELSE [helper EXCEPT !.at = "trim"]
              /\ UNCHANGED <<m_pThreadList, strays>>
           \/ /\ helper.at = "trim" /\ locked = None
              /\ helper' = IF Spare(m_pThreadList) THEN [helper EXCEPT !.at = "remove"]
                           ELSE [at |-> "visit", rest |-> Tail(rest)]
              /\ UNCHANGED <<m_pThreadList, strays>>
           \/ /\ helper.at = "remove"
              /\ m_pThreadList' = Without(m_pThreadList, Head(rest))
              /\ strays' = IF pool = "used" THEN strays \cup ({Head(rest)} \cap orphans) ELSE strays
              /\ helper' = [at |-> "visit", rest |-> AfterRemoval(Head(rest), Tail(rest))]
    /\ UNCHANGED <<threadVars, m_bHandle_NonWork_Threads, raced>>

-----------------------------------------------------------------------------
(* The destructor, when no AddTask() is in progress.  deleteLater() leaves the helper alone *)
(* until the event loop deletes it.                                                         *)

Destructor(c) ==
    /\ c = Owner
    /\ pool = "used"
    /\ ~crashed
    /\ AllIdle
    /\ pool' = "deleting"
    /\ m_bHandle_NonWork_Threads' = FALSE
    /\ adding' = [adding EXCEPT ![c].at = "delete", ![c].rest = m_pThreadList]
    /\ UNCHANGED <<threadVars, m_pThreadList>>

(* Mutant: the threads are created without a parent. *)
ChildrenNone == {}

(* The children that ~QObject deletes: threads that the helper has taken off the list.  One  *)
(* that another thread than the pool's has created is not among them.                       *)
Children == {w \in created \ orphans : m_bStart[w]}

(* delete thread: ~QCatGrayThread calls Stop(). *)
Deletes(c) ==
    /\ At(c, "delete")
    /\ IF adding[c].rest # <<>>
       THEN /\ adding' = [adding EXCEPT ![c].at = "stopping", ![c].worker = Head(adding[c].rest),
                                       ![c].rest = Tail(adding[c].rest)]
            /\ Thread!Stop(c, Head(adding[c].rest))
            /\ UNCHANGED pool
       ELSE \/ \E w \in Children :
                /\ adding' = [adding EXCEPT ![c].at = "stopping", ![c].worker = w]
                /\ Thread!Stop(c, w)
                /\ UNCHANGED pool
            \/ /\ Children = {}
               /\ pool' = "gone"
               /\ adding' = [adding EXCEPT ![c] = Idle]
               /\ UNCHANGED threadVars
    /\ UNCHANGED <<m_pThreadList, m_bHandle_NonWork_Threads>>

Deleted(c) ==
    /\ At(c, "stopping")
    /\ call[c] = Thread!Idle
    /\ adding' = [adding EXCEPT ![c].at = "delete", ![c].worker = Null]
    /\ m_pThreadList' = Without(m_pThreadList, adding[c].worker)
    /\ UNCHANGED <<threadVars, m_bHandle_NonWork_Threads, pool>>

-----------------------------------------------------------------------------

(* An append may move the list while a loop visits it, or HandleNonWork() takes a thread    *)
(* off it while another loop does, and the destructor deletes threads that HandleNonWork()  *)
(* visits: besides one after the other, the program may crash.                              *)
ListShared ==
    \/ InPass /\ pool = "deleting"
    \/ helper.at = "remove" /\ \E c \in Callers : At(c, "count") \/ At(c, "choose")
    \/ \E c \in Callers :
         /\ At(c, "push") /\ locked = None
         /\ InPass \/ \E d \in Callers : At(d, "choose")

RaceOnList ==
    /\ ListShared /\ ~crashed
    /\ crashed' = TRUE
    /\ UNCHANGED <<m_bStart, m_bWork, m_pFunction, pc, call, count, runs, missed, poolVars>>

AddTaskStatement(c) ==
    /\ \/ /\ GetThreadCount(c) \/ GetThreadWorkCount(c) \/ Creates(c) \/ Pushes(c) \/ Returns(c)
          /\ UNCHANGED dropped
       \/ Chooses(c)
    /\ UNCHANGED <<m_bHandle_NonWork_Threads, helper, pool, given, raced>>

destructorKeeps == <<created, orphans, strays, locked, helper, given, raced, dropped>>

DestructorGoesOn(c) == (Deletes(c) \/ Deleted(c)) /\ UNCHANGED destructorKeeps

DestructorStatement(c) ==
    \/ Destructor(c) /\ UNCHANGED destructorKeeps
    \/ DestructorGoesOn(c)

Helper ==
    /\ HelperTests \/ HandleNonWork
    /\ UNCHANGED <<created, orphans, locked, adding, pool, given, dropped>>

(* A statement of Start() or Stop(), and a step of run(), of GrayThread. *)
CallerStatement(c) == Thread!CallerStatement(c) /\ UNCHANGED poolVars

Again(w) == pc'[w] = "mark" /\ runs[m_pFunction[w]] > 0

WorkerStep(w) ==
    /\ w \in created
    /\ Thread!Run(w)
    /\ raced' = (raced \/ Again(w))
    /\ UNCHANGED <<listVars, m_bHandle_NonWork_Threads, locked, adding, helper, pool, given,
                   dropped>>

Terminated == crashed /\ UNCHANGED <<threadVars, poolVars>>

Overwrites(w) ==
    /\ m_pFunction'[w] \notin {Null, m_pFunction[w]}
    /\ m_pFunction[w] # Null /\ runs[m_pFunction[w]] = 0

NotesReplaced == replaced' = (replaced \/ \E w \in Workers : Overwrites(w))

Next ==
    /\ \/ \E c \in Callers : AddTask(c) \/ AddTaskStatement(c) \/ DestructorStatement(c)
       \/ \E c \in Callers : CallerStatement(c)
       \/ \E w \in Workers : WorkerStep(w)
       \/ Thread!RaceOnFunction /\ UNCHANGED poolVars
       \/ RaceOnList
       \/ Helper
       \/ Terminated
    /\ NotesReplaced

Spec == Init /\ [][Next]_vars

(* The threads are scheduled and the functions return; a caller goes on with what it began,  *)
(* though nothing makes one delete the pool.  Nothing makes the helper begin a pass: it      *)
(* sleeps for ten minutes.  It is enough that one of the others goes on as long as one can:  *)
(* with finitely many calls each of them takes finitely many steps.                         *)
FairSpec ==
    /\ Spec
    /\ WF_<<threadVars, poolVars>>(
         \/ \E w \in Workers : WorkerStep(w)
         \/ \E c \in Callers :
              AddTaskStatement(c) \/ DestructorGoesOn(c) \/ CallerStatement(c))

-----------------------------------------------------------------------------
(* Properties.                                                             *)

(* A task is given to no thread, or replaced before it has run, only when AddTask() has     *)
(* overlapped with itself or with a pass of the helper, or when a thread looked again at a   *)
(* function it had already run and so turned busy while AddTask() chose it.                 *)
LossHasCause == dropped \/ replaced => raced

(* The destructor waits for every thread on the list, and for those that the helper has     *)
(* taken off it, but for one that AddTask() created in another thread than the pool's: that *)
(* one has no parent, and lives on when the pool is gone.                                   *)
DestroyedAlone == pool = "gone" =>
    \A w \in created : pc[w] = "finished" \/ w \in strays

(* A task that a thread was started with is run, unless the thread was notified too late,   *)
(* the task was replaced or the pool is deleted first.                                      *)
TaskRuns == \A t \in Thread!Tasks :
    (\E c \in Callers : call[c].task = t) ~>
        \/ runs[t] > 0
        \/ replaced \/ crashed \/ pool # "used"
        \/ \E w \in missed : m_pFunction[w] = t

(* The destructor returns, unless a thread was notified too late of its end, or the program  *)
(* crashed.                                                                                 *)
DestructorEnds == pool = "deleting" ~> (pool = "gone" \/ crashed \/ missed # {})
=============================================================================
