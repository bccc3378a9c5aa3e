-------------------------- MODULE ThreadPoolProofs --------------------------
(***************************************************************************)
(* Theorems about ThreadPool for any callers, tasks and initial threads:   *)
(* its types; which threads the destructor may leave behind;               *)
(* when a task may be lost; and that the threads are used as GrayThread    *)
(* allows, so that its theorems hold of them.                              *)
(***************************************************************************)
EXTENDS ThreadPool, SequenceTheorems, TLAPS

(* The types of the pool's own variables; and the helper trims a thread it visits.           *)
PoolTyped ==
    /\ helper.at \in {"trim", "remove"} => helper.rest # <<>>
    /\ m_pThreadList \in Seq(Workers)
    /\ m_bHandle_NonWork_Threads \in BOOLEAN
    /\ created \subseteq Workers /\ orphans \subseteq created /\ strays \subseteq orphans
    /\ locked \in Callers \cup {None}
    /\ adding \in [Callers -> [at : Places, size : Nat, rest : Seq(Workers), busy : Nat,
                               worker : Workers \cup {Null}]]
    /\ helper \in [at : {"begin", "test", "visit", "trim", "remove", "ended"}, rest : Seq(Workers)]
    /\ pool \in {"used", "deleting", "gone"}
    /\ given \in 0..MaxTasks
    /\ raced \in BOOLEAN /\ dropped \in BOOLEAN

Starting == {"function", "work", "notify"}
Stopping == {"unwork", "unstart", "null", "notifyStop", "wait"}

(* Start() is called from the end of AddTask(), and Stop() from the destructor.              *)
CallsKnown == \A c \in Callers :
    /\ call[c].at # "idle" => call[c].worker \in Workers
    /\ call[c].at \in Starting => adding[c].at = "start"
    /\ call[c].at \in Stopping => adding[c].at = "stopping"
    /\ adding[c].at = "push" => adding[c].worker \in Workers

(* No AddTask() is in progress once the destructor has begun.                                *)
OwnerAlone ==
    /\ pool = "used" => \A c \in Callers : adding[c].at \notin {"delete", "stopping"}
    /\ pool # "used" =>
         /\ \A c \in Callers \ {Owner} : adding[c] = Idle
         /\ adding[Owner].at \in {"idle", "delete", "stopping"}
    /\ pool = "gone" => adding[Owner] = Idle

(* A thread whose m_bStart is clear has finished, or is the one the destructor waits for.    *)
StoppedWaitedFor == \A w \in Workers :
    ~m_bStart[w] => \/ pc[w] = "finished"
                    \/ \E c \in Callers : call[c].at \in Stopping /\ call[c].worker = w

Inductive ==
    /\ Thread!TypeOK /\ PoolTyped
    /\ CallsKnown /\ OwnerAlone /\ StoppedWaitedFor

-----------------------------------------------------------------------------
(* The threads.                                                              *)

CallType ==
    [at : Thread!Statements, worker : Workers \cup {None}, task : Thread!Tasks \cup {Thread!Null}]

LEMMA InitInductive == Init => Inductive
<1> SUFFICES ASSUME Init PROVE Inductive
  OBVIOUS
<1>1. m_iDefaultThreadCount \in Nat /\ MaxTasks \in Nat /\ Owner \in Callers
  BY PoolAssumption
<1>2. Thread!Idle \in CallType /\ Thread!Idle.at = "idle"
  BY DEF Thread!Idle, CallType, Thread!Statements, Thread!Null, Null
<1>3. Thread!TypeOK
  <2>1. call \in [Callers -> CallType]
    BY <1>2 DEF Init, Thread!Init
  <2>2. count \in 0..MaxTasks /\ runs \in [Thread!Tasks -> Nat]
    BY <1>1 DEF Init, Thread!Init
  <2>3. pc \in [Workers -> Thread!Awake \cup {"parked", "finished"}]
    BY DEF Init, Thread!Init, Thread!Awake
  <2>4. m_pFunction \in [Workers -> Thread!Tasks \cup {Thread!Null}]
    BY DEF Init, Thread!Init
  <2>5. /\ m_bStart \in [Workers -> BOOLEAN] /\ m_bWork \in [Workers -> BOOLEAN]
        /\ crashed \in BOOLEAN /\ missed \subseteq Workers
    BY DEF Init, Thread!Init
  <2> QED  BY <2>1, <2>2, <2>3, <2>4, <2>5 DEF Thread!TypeOK, CallType
<1>4. PoolTyped
  <2>1. \A i \in 1..m_iDefaultThreadCount : i \in Workers
    BY <1>1 DEF Workers
  <2>2. [i \in 1..m_iDefaultThreadCount |-> i] \in Seq(Workers)
    BY <1>1, <2>1, SeqDef
  <2>3. Idle \in [at : Places, size : Nat, rest : Seq(Workers), busy : Nat,
                  worker : Workers \cup {Null}]
    BY DEF Idle, Places
  <2>4. <<>> \in Seq(Workers)
    OBVIOUS
  <2>5. given \in 0..MaxTasks /\ created \subseteq Workers
    BY <1>1, <2>1 DEF Init
  <2> QED  BY <2>2, <2>3, <2>4, <2>5 DEF Init, PoolTyped
<1>5. \A c \in Callers : call[c].at = "idle" /\ adding[c].at = "idle"
  BY <1>2 DEF Init, Thread!Init, Idle
<1>6. CallsKnown /\ OwnerAlone
  BY <1>1, <1>5 DEF CallsKnown, OwnerAlone, Starting, Stopping, Init
<1>7. StoppedWaitedFor
  BY DEF Init, Thread!Init, StoppedWaitedFor
<1> QED  BY <1>3, <1>4, <1>6, <1>7 DEF Inductive

(* A statement of Start() or Stop().                                                         *)
LEMMA CallerKeeps ==
  ASSUME Inductive, NEW c \in Callers, CallerStatement(c)
  PROVE  Inductive'
<1> DEFINE w == call[c].worker
<1>1. /\ call \in [Callers -> CallType] /\ UNCHANGED poolVars
      /\ Thread!CallerStatement(c) /\ call[c].at # "idle" /\ w \in Workers
  BY DEF Inductive, Thread!TypeOK, CallType, CallerStatement, Thread!CallerStatement,
      Thread!Assigns, Thread!SetsFunction, Thread!SetsWork, Thread!StopClearsStart,
      Thread!NotifiesOne, Thread!NotifiesStart, Thread!NotifiesStop, Thread!Waits, Thread!At,
      CallsKnown, Thread!Null, Null
<1>2. PoolTyped' /\ OwnerAlone'
  BY <1>1 DEF Inductive, PoolTyped, OwnerAlone, poolVars, listVars
<1>3. \A s \in Thread!Statements : Thread!Goes(c, s) =>
        /\ call' \in [Callers -> CallType]
        /\ call'[c].at = s /\ call'[c].worker = w
        /\ \A d \in Callers \ {c} : call'[d] = call[d]
  <2> SUFFICES ASSUME NEW s \in Thread!Statements, Thread!Goes(c, s)
               PROVE  /\ call' \in [Callers -> CallType]
                      /\ call'[c].at = s /\ call'[c].worker = w
                      /\ \A d \in Callers \ {c} : call'[d] = call[d]
    OBVIOUS
  <2>1. call[c] \in CallType /\ [call[c] EXCEPT !.at = s] \in CallType
    BY <1>1 DEF CallType
  <2> QED  BY <1>1, <2>1 DEF Thread!Goes, CallType
<1>4. Thread!Returns(c) =>
        /\ call' \in [Callers -> CallType] /\ call'[c].at = "idle"
        /\ \A d \in Callers \ {c} : call'[d] = call[d]
  BY <1>1 DEF Thread!Returns, Thread!Idle, CallType, Thread!Statements, Thread!Null, Null
<1>5. CASE Thread!SetsFunction(c) /\ UNCHANGED <<pc, crashed, count, runs, missed>>
  <2>1. \E s \in {"work", "notifyStop"} : Thread!Goes(c, s)
          /\ (s = "work" => call[c].at = "function") /\ (s = "notifyStop" => call[c].at = "null")
    BY <1>5 DEF Thread!SetsFunction, Thread!At
  <2>2. Thread!TypeOK'
    BY <1>1, <1>3, <1>5, <2>1 DEF Inductive, Thread!TypeOK, CallType, Thread!SetsFunction,
        Thread!Statements, Thread!Null, Null
  <2>3. CallsKnown' /\ StoppedWaitedFor'
    BY <1>1, <1>3, <1>5, <2>1 DEF Inductive, CallsKnown, StoppedWaitedFor,
        Starting, Stopping, Thread!Statements, Thread!SetsFunction, poolVars
  <2> QED  BY <1>2, <2>2, <2>3 DEF Inductive
<1>6. CASE Thread!SetsWork(c) /\ UNCHANGED <<pc, crashed, count, runs, missed>>
  <2>1. \E s \in {"notify", "unstart"} : Thread!Goes(c, s)
          /\ (s = "notify" => call[c].at = "work") /\ (s = "unstart" => call[c].at = "unwork")
    BY <1>6 DEF Thread!SetsWork, Thread!At
  <2>2. Thread!TypeOK'
    BY <1>1, <1>3, <1>6, <2>1 DEF Inductive, Thread!TypeOK, CallType, Thread!SetsWork,
        Thread!Statements, Thread!Null, Null
  <2>3. CallsKnown' /\ StoppedWaitedFor'
    BY <1>1, <1>3, <1>6, <2>1 DEF Inductive, CallsKnown, StoppedWaitedFor,
        Starting, Stopping, Thread!Statements, Thread!SetsWork, poolVars
  <2> QED  BY <1>2, <2>2, <2>3 DEF Inductive
<1>7. CASE Thread!StopClearsStart(c) /\ UNCHANGED <<pc, crashed, count, runs, missed>>
  <2>1. Thread!Goes(c, "null") /\ call[c].at = "unstart" /\ "null" \in Thread!Statements
    BY <1>7 DEF Thread!StopClearsStart, Thread!At, Thread!Statements
  <2>2. Thread!TypeOK'
    BY <1>1, <1>3, <1>7, <2>1 DEF Inductive, Thread!TypeOK, CallType, Thread!StopClearsStart,
        Thread!Null, Null
  <2>3. CallsKnown'
    BY <1>1, <1>3, <1>7, <2>1 DEF Inductive, CallsKnown,
        Starting, Stopping, poolVars
  <2>4. StoppedWaitedFor'
    BY <1>1, <1>3, <1>7, <2>1 DEF Inductive, StoppedWaitedFor, Stopping,
        Thread!StopClearsStart, Thread!TypeOK
  <2> QED  BY <1>2, <2>2, <2>3, <2>4 DEF Inductive
<1>8. CASE Thread!NotifiesOne(c)
  <2>1. \/ Thread!Returns(c) /\ call[c].at = "notify"
        \/ Thread!Goes(c, "wait") /\ call[c].at = "notifyStop"
    BY <1>8 DEF Thread!NotifiesOne, Thread!NotifiesStart, Thread!NotifiesStop, Thread!At
  <2>2. /\ pc' = IF pc[w] = "parked" THEN [pc EXCEPT ![w] = "loop"] ELSE pc
        /\ missed' \in SUBSET Workers
    BY <1>1, <1>8 DEF Thread!NotifiesOne, Thread!NotifiesStart, Thread!NotifiesStop,
        Thread!Notifies,
        Inductive, Thread!TypeOK
  <2>3. pc' \in [Workers -> Thread!Awake \cup {"parked", "finished"}]
        /\ \A v \in Workers : pc[v] = "finished" => pc'[v] = "finished"
    BY <2>2 DEF Inductive, Thread!TypeOK, Thread!Awake
  <2>4. Thread!TypeOK'
    BY <1>1, <1>3, <1>4, <1>8, <2>1, <2>2, <2>3 DEF Inductive, Thread!TypeOK, CallType,
        Thread!NotifiesOne, Thread!workerVars, Thread!Statements, Thread!Null, Null
  <2>5. CallsKnown' /\ StoppedWaitedFor'
    BY <1>1, <1>3, <1>4, <1>8, <2>1, <2>3 DEF Inductive, CallsKnown, StoppedWaitedFor,
        Starting, Stopping, Thread!Statements, Thread!NotifiesOne, Thread!workerVars, poolVars
  <2> QED  BY <1>2, <2>4, <2>5 DEF Inductive
<1>9. CASE Thread!Waits(c)
  <2>1. Thread!Returns(c) /\ call[c].at = "wait" /\ pc[w] = "finished"
    BY <1>9 DEF Thread!Waits, Thread!At
  <2>2. Thread!TypeOK'
    BY <1>1, <1>4, <1>9, <2>1 DEF Inductive, Thread!TypeOK, CallType, Thread!Waits,
        Thread!workerVars,
        Thread!Null, Null
  <2>3. CallsKnown' /\ StoppedWaitedFor'
    BY <1>1, <1>4, <1>9, <2>1 DEF Inductive, CallsKnown, StoppedWaitedFor,
        Starting, Stopping, Thread!Waits, Thread!workerVars, poolVars
  <2> QED  BY <1>2, <2>2, <2>3 DEF Inductive
<1> QED  BY <1>1, <1>5, <1>6, <1>7, <1>8, <1>9 DEF Thread!CallerStatement, Thread!Assigns

(* A step of run().                                                                          *)
LEMMA WorkerKeeps ==
  ASSUME Inductive, NEW w \in Workers, WorkerStep(w)
  PROVE  Inductive'
<1>1. /\ Thread!Run(w) /\ pc \in [Workers -> Thread!Awake \cup {"parked", "finished"}]
      /\ UNCHANGED <<listVars, m_bHandle_NonWork_Threads, locked, adding, helper, pool, given,
                     dropped>>
  BY DEF WorkerStep, Inductive, Thread!TypeOK
<1>2. /\ pc' \in [Workers -> Thread!Awake \cup {"parked", "finished"}]
      /\ \A v \in Workers : pc[v] = "finished" => pc'[v] = "finished"
  BY <1>1 DEF Thread!Run, Thread!Moves, Thread!Marks, Thread!Parks, Thread!CallsFunction,
      Thread!Reaches, Thread!Awake
<1>3. UNCHANGED <<m_bStart, m_pFunction, call, count, missed>>
  BY <1>1 DEF Thread!Run, Thread!Moves, Thread!Marks, Thread!CallsFunction, Thread!workerVars
<1>4. m_bWork' \in [Workers -> BOOLEAN]
  BY <1>1 DEF Inductive, Thread!TypeOK, Thread!Run, Thread!Moves, Thread!Marks,
      Thread!CallsFunction, Thread!workerVars
<1>5. crashed' \in BOOLEAN /\ runs' \in [Thread!Tasks -> Nat]
  <2>1. CASE Thread!CallsFunction(w)
    BY <2>1 DEF Inductive, Thread!TypeOK, Thread!CallsFunction
  <2>2. CASE ~Thread!CallsFunction(w)
    BY <1>1, <2>2 DEF Inductive, Thread!TypeOK, Thread!Run, Thread!Moves
  <2> QED  BY <2>1, <2>2
<1>6. Thread!TypeOK'
  BY <1>2, <1>3, <1>4, <1>5 DEF Inductive, Thread!TypeOK
<1>7. raced' \in BOOLEAN
  BY DEF WorkerStep, Inductive, PoolTyped
<1>8. PoolTyped'
  BY <1>1, <1>7 DEF Inductive, PoolTyped, listVars
<1>9. CallsKnown' /\ OwnerAlone'
  BY <1>1, <1>3 DEF Inductive, CallsKnown, OwnerAlone
<1>10. StoppedWaitedFor'
  BY <1>1, <1>2, <1>3 DEF Inductive, StoppedWaitedFor, PoolTyped
<1> QED  BY <1>6, <1>8, <1>9, <1>10 DEF Inductive

-----------------------------------------------------------------------------
(* AddTask().                                                                *)

AddingType == [at : Places, size : Nat, rest : Seq(Workers), busy : Nat,
               worker : Workers \cup {Null}]

(* A step of AddTask() that leaves the threads alone, and is not the call of Start().        *)
LEMMA QuietKeeps ==
  ASSUME Inductive, NEW c \in Callers, UNCHANGED <<threadVars, pool>>,
         adding' \in [Callers -> AddingType],
         \A d \in Callers \ {c} : adding'[d] = adding[d],
         adding[c].at \notin {"delete", "stopping"},
         call[c].at = "idle",
         adding'[c].at \notin {"delete", "stopping"},
         adding'[c].at = "push" => adding'[c].worker \in Workers,
         pool = "used"
  PROVE  Thread!TypeOK' /\ CallsKnown' /\ OwnerAlone' /\ StoppedWaitedFor'
<1>1. Thread!TypeOK'
  BY DEF Inductive, Thread!TypeOK, threadVars
<1>2. CallsKnown' /\ OwnerAlone'
  BY DEF Inductive, CallsKnown, OwnerAlone, threadVars, Starting, Stopping
<1>3. StoppedWaitedFor'
  BY DEF Inductive, StoppedWaitedFor, threadVars
<1> QED  BY <1>1, <1>2, <1>3

(* A caller in AddTask(), and not yet in Start(), calls nothing, and the pool is in use.     *)
LEMMA CallerQuiet ==
  ASSUME Inductive, NEW c \in Callers, NEW place \in Places \ {"start", "delete", "stopping"},
         At(c, place)
  PROVE  /\ call[c].at = "idle" /\ adding[c].at = place
         /\ place # "idle" => pool = "used"
<1>1. call[c].at \in Thread!Statements
  BY DEF Inductive, Thread!TypeOK
<1>2. call[c].at = "idle" /\ adding[c].at = place
  BY <1>1 DEF Inductive, CallsKnown, Starting, Stopping, Thread!Statements, At
<1>3. place # "idle" => pool = "used"
  BY <1>2 DEF Inductive, OwnerAlone, Idle, Places
<1> QED  BY <1>2, <1>3

LEMMA AddTaskKeeps ==
  ASSUME Inductive, NEW c \in Callers, AddTask(c)
  PROVE  Inductive'
<1>1. /\ adding[c].at = "idle" /\ call[c].at = "idle" /\ pool = "used"
      /\ adding' = [adding EXCEPT ![c].at = "size"]
      /\ UNCHANGED <<threadVars, listVars, m_bHandle_NonWork_Threads, locked, helper, pool, dropped>>
  BY CallerQuiet DEF AddTask, Places
<1>2. adding \in [Callers -> AddingType]
  BY DEF Inductive, PoolTyped, AddingType
<1>3. adding' \in [Callers -> AddingType] /\ adding'[c].at = "size"
      /\ \A d \in Callers \ {c} : adding'[d] = adding[d]
  <2>1. [adding[c] EXCEPT !.at = "size"] \in AddingType
    BY <1>2 DEF AddingType, Places
  <2> QED  BY <1>1, <1>2, <2>1 DEF AddingType
<1>4. Thread!TypeOK' /\ CallsKnown' /\ OwnerAlone' /\ StoppedWaitedFor'
  BY <1>1, <1>3, QuietKeeps
<1>5. given' \in 0..MaxTasks
  BY PoolAssumption DEF AddTask, Inductive, PoolTyped
<1>6. raced' \in BOOLEAN
  BY DEF AddTask, Inductive, PoolTyped
<1>7. PoolTyped'
  BY <1>1, <1>3, <1>5, <1>6 DEF Inductive, PoolTyped, AddingType, listVars
<1> QED  BY <1>4, <1>7 DEF Inductive

addTaskKeeps == <<m_bHandle_NonWork_Threads, helper, pool, given, raced>>

(* The fields that the steps of AddTask() assign keep their types.                           *)
LEMMA AddingTyped ==
  ASSUME NEW x \in AddingType
  PROVE  /\ \A p \in Places, n \in Nat : [x EXCEPT !.at = p, !.size = n] \in AddingType
         /\ \A p \in Places, r \in Seq(Workers) : [x EXCEPT !.at = p, !.rest = r] \in AddingType
         /\ \A r \in Seq(Workers), n \in Nat : [x EXCEPT !.rest = r, !.busy = n] \in AddingType
         /\ \A r \in Seq(Workers) : [x EXCEPT !.rest = r] \in AddingType
         /\ \A p \in Places, w \in Workers \cup {Null} :
              [x EXCEPT !.at = p, !.worker = w] \in AddingType
         /\ \A p \in Places, w \in Workers \cup {Null}, r \in Seq(Workers) :
              [x EXCEPT !.at = p, !.worker = w, !.rest = r] \in AddingType
  BY DEF AddingType

LEMMA GetThreadCountKeeps ==
  ASSUME Inductive, NEW c \in Callers, GetThreadCount(c), UNCHANGED <<addTaskKeeps, dropped>>
  PROVE  Inductive'
<1>1. adding \in [Callers -> AddingType]
  BY DEF Inductive, PoolTyped, AddingType
<1>2. call[c].at = "idle" /\ pool = "used" /\ adding[c].at \notin {"delete", "stopping"}
  BY CallerQuiet DEF GetThreadCount, Places, At
<1>3. /\ adding' \in [Callers -> AddingType] /\ adding'[c].at \in {"lock", "count"}
      /\ \A d \in Callers \ {c} : adding'[d] = adding[d]
      /\ locked' \in Callers \cup {None}
  <2>1. [adding[c] EXCEPT !.at = "lock", !.size = Len(m_pThreadList)] \in AddingType
    <3>1. Len(m_pThreadList) \in Nat /\ adding[c] \in AddingType /\ "lock" \in Places
      BY <1>1 DEF Places, Inductive, PoolTyped
    <3> QED  BY <3>1, AddingTyped
  <2>2. [adding[c] EXCEPT !.at = "count", !.rest = m_pThreadList] \in AddingType
    <3>1. m_pThreadList \in Seq(Workers) /\ adding[c] \in AddingType /\ "count" \in Places
      BY <1>1 DEF Places, Inductive, PoolTyped
    <3> QED  BY <3>1, AddingTyped
  <2>3. \/ /\ adding' = [adding EXCEPT ![c].at = "lock", ![c].size = Len(m_pThreadList)]
           /\ locked' = locked
        \/ /\ adding' = [adding EXCEPT ![c].at = "count", ![c].rest = m_pThreadList]
           /\ locked' = c
    BY DEF GetThreadCount
  <2>4. locked' \in Callers \cup {None}
    BY <2>3 DEF Inductive, PoolTyped
  <2> QED  BY <1>1, <2>1, <2>2, <2>3, <2>4 DEF AddingType
<1>4. Thread!TypeOK' /\ CallsKnown' /\ OwnerAlone' /\ StoppedWaitedFor'
  BY <1>2, <1>3, QuietKeeps DEF GetThreadCount, addTaskKeeps
<1>5. PoolTyped'
  BY <1>3 DEF Inductive, PoolTyped, AddingType, GetThreadCount, addTaskKeeps, listVars
<1> QED  BY <1>4, <1>5 DEF Inductive

LEMMA GetThreadWorkCountKeeps ==
  ASSUME Inductive, NEW c \in Callers, GetThreadWorkCount(c), UNCHANGED <<addTaskKeeps, dropped>>
  PROVE  Inductive'
<1>1. adding \in [Callers -> AddingType]
  BY DEF Inductive, PoolTyped, AddingType
<1>2. call[c].at = "idle" /\ pool = "used" /\ adding[c].at = "count"
  BY CallerQuiet DEF GetThreadWorkCount, Places, At
<1>3. /\ adding' \in [Callers -> AddingType] /\ adding'[c].at \in {"count", "create", "choose"}
      /\ \A d \in Callers \ {c} : adding'[d] = adding[d]
      /\ locked' \in Callers \cup {None}
  <2>1. CASE adding[c].rest # <<>>
    <3>1. \A b \in Nat : [adding[c] EXCEPT !.rest = Tail(adding[c].rest), !.busy = b] \in AddingType
      <4>1. Tail(adding[c].rest) \in Seq(Workers) /\ adding[c] \in AddingType
        BY <1>1, <2>1 DEF AddingType
      <4> QED  BY <4>1, AddingTyped
    <3>2. adding[c].busy \in Nat
      BY <1>1 DEF AddingType
    <3>3. \E b \in Nat : adding' = [adding EXCEPT ![c].rest = Tail(adding[c].rest), ![c].busy = b]
      BY <2>1, <3>2 DEF GetThreadWorkCount
    <3>4. locked' = locked
      BY <2>1 DEF GetThreadWorkCount
    <3> QED  BY <1>1, <1>2, <3>1, <3>3, <3>4 DEF AddingType, Inductive, PoolTyped
  <2>2. CASE adding[c].rest = <<>>
    <3>1. \A p \in {"create", "choose"} :
            [adding[c] EXCEPT !.at = p, !.rest = m_pThreadList] \in AddingType
      <4>1. m_pThreadList \in Seq(Workers) /\ adding[c] \in AddingType
        BY <1>1 DEF Inductive, PoolTyped
      <4>2. {"create", "choose"} \subseteq Places
        BY DEF Places
      <4> QED  BY <4>1, <4>2, AddingTyped
    <3>2. \E p \in {"create", "choose"} :
            adding' = [adding EXCEPT ![c].at = p, ![c].rest = m_pThreadList]
      BY <2>2 DEF GetThreadWorkCount
    <3>3. locked' = None
      BY <2>2 DEF GetThreadWorkCount
    <3>4. PICK p \in {"create", "choose"} :
            adding' = [adding EXCEPT ![c].at = p, ![c].rest = m_pThreadList]
      BY <3>2
    <3> QED  BY <1>1, <3>1, <3>3, <3>4 DEF AddingType
  <2> QED  BY <2>1, <2>2
<1>4. Thread!TypeOK' /\ CallsKnown' /\ OwnerAlone' /\ StoppedWaitedFor'
  BY <1>2, <1>3, QuietKeeps DEF GetThreadWorkCount, addTaskKeeps
<1>5. PoolTyped'
  BY <1>3 DEF Inductive, PoolTyped, AddingType, GetThreadWorkCount, addTaskKeeps, listVars
<1> QED  BY <1>4, <1>5 DEF Inductive

LEMMA CreatesKeeps ==
  ASSUME Inductive, NEW c \in Callers, Creates(c), UNCHANGED <<addTaskKeeps, dropped>>
  PROVE  Inductive'
<1>1. adding \in [Callers -> AddingType]
  BY DEF Inductive, PoolTyped, AddingType
<1>2. call[c].at = "idle" /\ pool = "used" /\ adding[c].at = "create"
  BY CallerQuiet DEF Creates, Places, At
<1>3. /\ adding' \in [Callers -> AddingType]
      /\ adding'[c].at = "push" /\ adding'[c].worker \in Workers
      /\ \A d \in Callers \ {c} : adding'[d] = adding[d]
      /\ created' \subseteq Workers /\ orphans' \subseteq created' /\ strays' \subseteq orphans'
  <2>1. PICK w \in Workers : /\ created' = created \cup {w}
                             /\ orphans' = orphans \/ orphans' = orphans \cup {w}
                             /\ strays' = strays
                             /\ adding' = [adding EXCEPT ![c].at = "push", ![c].worker = w]
    BY DEF Creates
  <2>2. [adding[c] EXCEPT !.at = "push", !.worker = w] \in AddingType
    BY <1>1 DEF AddingType, Places
  <2> QED  BY <1>1, <2>1, <2>2 DEF AddingType, Inductive, PoolTyped
<1>4. Thread!TypeOK' /\ CallsKnown' /\ OwnerAlone' /\ StoppedWaitedFor'
  BY <1>2, <1>3, QuietKeeps DEF Creates, addTaskKeeps
<1>5. PoolTyped'
  BY <1>3 DEF Inductive, PoolTyped, AddingType, Creates, addTaskKeeps
<1> QED  BY <1>4, <1>5 DEF Inductive

LEMMA ReturnsKeeps ==
  ASSUME Inductive, NEW c \in Callers, Returns(c), UNCHANGED <<addTaskKeeps, dropped>>
  PROVE  Inductive'
<1>1. adding \in [Callers -> AddingType]
  BY DEF Inductive, PoolTyped, AddingType
<1>2. call[c].at = "idle" /\ pool = "used" /\ adding[c].at = "start"
  <2>1. adding[c].at = "start" /\ call[c].at = "idle"
    BY DEF Returns, At, Thread!Idle
  <2>2. pool = "used"
    BY <2>1 DEF Inductive, OwnerAlone, Idle
  <2> QED  BY <2>1, <2>2
<1>3. /\ adding' \in [Callers -> AddingType] /\ adding'[c].at = "idle"
      /\ \A d \in Callers \ {c} : adding'[d] = adding[d]
      /\ locked' \in Callers \cup {None}
  <2>1. Idle \in AddingType
    BY DEF Idle, AddingType, Places
  <2> QED  BY <1>1, <2>1 DEF Returns, Idle, Inductive, PoolTyped
<1>4. Thread!TypeOK' /\ CallsKnown' /\ OwnerAlone' /\ StoppedWaitedFor'
  BY <1>2, <1>3, QuietKeeps DEF Returns, addTaskKeeps
<1>5. PoolTyped'
  BY <1>3 DEF Inductive, PoolTyped, AddingType, Returns, addTaskKeeps, listVars
<1> QED  BY <1>4, <1>5 DEF Inductive

(* The call of Start() from AddTask().                                                       *)
LEMMA StartKeeps ==
  ASSUME Inductive, NEW c \in Callers, NEW w \in Workers, Thread!Start(c, w),
         adding[c].at \in {"push", "choose"},
         adding' = [adding EXCEPT ![c].at = "start"],
         m_pThreadList' \in Seq(Workers), locked' \in Callers \cup {None},
         UNCHANGED <<addTaskKeeps, created, orphans, strays, dropped>>
  PROVE  Inductive'
<1>1. /\ call \in [Callers -> CallType] /\ adding \in [Callers -> AddingType]
      /\ count \in 0..MaxTasks /\ MaxTasks \in Nat
  BY PoolAssumption DEF Inductive, Thread!TypeOK, PoolTyped, CallType, AddingType
<1>2. pool = "used" /\ call[c].at = "idle"
  BY DEF Inductive, OwnerAlone, Idle, PoolTyped, Thread!Start, Thread!At
<1>3. /\ adding' \in [Callers -> AddingType] /\ adding'[c].at = "start"
      /\ \A d \in Callers \ {c} : adding'[d] = adding[d]
  <2>1. [adding[c] EXCEPT !.at = "start"] \in AddingType
    BY <1>1 DEF AddingType, Places
  <2> QED  BY <1>1, <2>1 DEF AddingType
<1>4. /\ call' \in [Callers -> CallType] /\ call'[c].at = "function" /\ call'[c].worker = w
      /\ \A d \in Callers \ {c} : call'[d] = call[d]
      /\ count' \in 0..MaxTasks
  <2>1. count' \in Thread!Tasks /\ count' \in 0..MaxTasks
    BY <1>1 DEF Thread!Start, Thread!Tasks
  <2>2. [at |-> "function", worker |-> w, task |-> count'] \in CallType
    BY <2>1 DEF CallType, Thread!Statements
  <2> QED  BY <1>1, <2>1, <2>2 DEF Thread!Start
<1>5. UNCHANGED <<m_bStart, m_bWork, m_pFunction, pc, crashed, runs, missed>>
  BY DEF Thread!Start, Thread!workerVars
<1>6. Thread!TypeOK'
  BY <1>4, <1>5 DEF Inductive, Thread!TypeOK, CallType
<1>7. PoolTyped'
  BY <1>3 DEF Inductive, PoolTyped, AddingType, addTaskKeeps
<1>8. CallsKnown' /\ OwnerAlone'
  BY <1>2, <1>3, <1>4 DEF Inductive, CallsKnown, OwnerAlone, Starting, Stopping, addTaskKeeps
<1>9. StoppedWaitedFor'
  BY <1>2, <1>4, <1>5 DEF Inductive, StoppedWaitedFor, Stopping, addTaskKeeps
<1> QED  BY <1>6, <1>7, <1>8, <1>9 DEF Inductive

LEMMA PushesKeeps ==
  ASSUME Inductive, NEW c \in Callers, Pushes(c), UNCHANGED <<addTaskKeeps, dropped>>
  PROVE  Inductive'
<1>1. adding[c].at = "push" /\ adding[c].worker \in Workers
  BY DEF Pushes, At, Inductive, CallsKnown
<1>2. m_pThreadList' \in Seq(Workers) /\ locked' \in Callers \cup {None}
  BY <1>1 DEF Pushes, Inductive, PoolTyped
<1> QED  BY <1>1, <1>2, StartKeeps DEF Pushes

LEMMA ChoosesKeeps ==
  ASSUME Inductive, NEW c \in Callers, Chooses(c), UNCHANGED addTaskKeeps
  PROVE  Inductive'
<1> DEFINE rest == adding[c].rest
<1>1. adding \in [Callers -> AddingType] /\ m_pThreadList \in Seq(Workers)
      /\ locked \in Callers \cup {None}
  BY DEF Inductive, PoolTyped, AddingType
<1>2. call[c].at = "idle" /\ pool = "used" /\ adding[c].at = "choose"
  BY CallerQuiet DEF Chooses, Places, At
<1>3. UNCHANGED <<listVars, locked>> /\ rest \in Seq(Workers)
  BY <1>1 DEF Chooses, AddingType
<1>4. ASSUME UNCHANGED threadVars, dropped' \in BOOLEAN,
             adding' = [adding EXCEPT ![c].rest = Tail(rest)], rest # <<>>
      PROVE  Inductive'
  <2>1. [adding[c] EXCEPT !.rest = Tail(rest)] \in AddingType
    <3>1. Tail(rest) \in Seq(Workers) /\ adding[c] \in AddingType
      BY <1>1, <1>3, <1>4
    <3> QED  BY <3>1, AddingTyped
  <2>2. /\ adding' \in [Callers -> AddingType] /\ adding'[c].at = "choose"
        /\ \A d \in Callers \ {c} : adding'[d] = adding[d]
    BY <1>1, <1>2, <1>4, <2>1 DEF AddingType
  <2>3. Thread!TypeOK' /\ CallsKnown' /\ OwnerAlone' /\ StoppedWaitedFor'
    BY <1>2, <1>4, <2>2, QuietKeeps DEF addTaskKeeps
  <2>4. PoolTyped'
    BY <1>3, <1>4, <2>2 DEF Inductive, PoolTyped, AddingType, addTaskKeeps, listVars
  <2> QED  BY <2>3, <2>4 DEF Inductive
<1>5. ASSUME UNCHANGED threadVars, dropped' \in BOOLEAN,
             adding' = [adding EXCEPT ![c] = Idle]
      PROVE  Inductive'
  <2>1. Idle \in AddingType
    BY DEF Idle, AddingType, Places
  <2>2. /\ adding' \in [Callers -> AddingType] /\ adding'[c].at = "idle"
        /\ \A d \in Callers \ {c} : adding'[d] = adding[d]
    BY <1>1, <1>5, <2>1 DEF Idle
  <2>3. Thread!TypeOK' /\ CallsKnown' /\ OwnerAlone' /\ StoppedWaitedFor'
    BY <1>2, <1>5, <2>2, QuietKeeps DEF addTaskKeeps
  <2>4. PoolTyped'
    BY <1>3, <1>5, <2>2 DEF Inductive, PoolTyped, AddingType, addTaskKeeps, listVars
  <2> QED  BY <2>3, <2>4 DEF Inductive
<1>6. CASE rest # <<>> /\ m_bWork[Head(rest)]
  BY <1>4, <1>6 DEF Chooses, Inductive, PoolTyped
<1>7. CASE rest # <<>> /\ ~m_bWork[Head(rest)]
  <2>1. /\ adding' = [adding EXCEPT ![c].at = "start"] /\ Thread!Start(c, Head(rest))
        /\ UNCHANGED dropped
    BY <1>7 DEF Chooses
  <2>2. Head(rest) \in Workers
    BY <1>3, <1>7
  <2> QED  BY <1>1, <1>2, <1>3, <2>1, <2>2, StartKeeps DEF listVars
<1>8. CASE rest = <<>>
  BY <1>5, <1>8 DEF Chooses
<1> QED  BY <1>6, <1>7, <1>8

LEMMA AddTaskStatementKeeps ==
  ASSUME Inductive, NEW c \in Callers, AddTaskStatement(c)
  PROVE  Inductive'
<1>1. UNCHANGED addTaskKeeps
  BY DEF AddTaskStatement, addTaskKeeps
<1> QED  BY <1>1, GetThreadCountKeeps, GetThreadWorkCountKeeps, CreatesKeeps, PushesKeeps,
            ReturnsKeeps, ChoosesKeeps DEF AddTaskStatement

-----------------------------------------------------------------------------
(* The destructor.                                                           *)

LEMMA DestructorKeeps ==
  ASSUME Inductive, NEW c \in Callers, Destructor(c), UNCHANGED destructorKeeps
  PROVE  Inductive'
<1>1. /\ c = Owner /\ \A d \in Callers : adding[d] = Idle
      /\ \A d \in Callers : call[d].at = "idle"
  BY DEF Destructor, AllIdle, Inductive, CallsKnown, Starting, Stopping, Thread!TypeOK,
      Thread!Statements, Idle
<1>2. adding \in [Callers -> AddingType] /\ m_pThreadList \in Seq(Workers)
  BY DEF Inductive, PoolTyped, AddingType
<1>3. /\ adding' \in [Callers -> AddingType] /\ adding'[c].at = "delete"
      /\ \A d \in Callers \ {c} : adding'[d] = adding[d]
  <2>1. adding[c] \in AddingType /\ "delete" \in Places
    BY <1>2 DEF Places
  <2>2. [adding[c] EXCEPT !.at = "delete", !.rest = m_pThreadList] \in AddingType
    BY <1>2, <2>1, AddingTyped
  <2> QED  BY <1>2, <2>2 DEF Destructor, AddingType
<1>4. Thread!TypeOK'
  BY DEF Inductive, Thread!TypeOK, Destructor, threadVars
<1>5. PoolTyped'
  BY <1>3 DEF Inductive, PoolTyped, AddingType, Destructor, destructorKeeps
<1>6. CallsKnown' /\ OwnerAlone'
  BY <1>1, <1>3 DEF Inductive, CallsKnown, OwnerAlone, Destructor, Starting, Stopping, threadVars
<1>7. StoppedWaitedFor'
  BY DEF Inductive, StoppedWaitedFor, Destructor, threadVars
<1> QED  BY <1>4, <1>5, <1>6, <1>7 DEF Inductive

(* Only the owner is in the destructor.                                                      *)
LEMMA OwnerDeletes ==
  ASSUME Inductive, NEW c \in Callers, adding[c].at \in {"delete", "stopping"}
  PROVE  c = Owner /\ pool = "deleting" /\ \A d \in Callers \ {c} : adding[d] = Idle
  BY PoolAssumption DEF Inductive, OwnerAlone, Idle, PoolTyped

(* delete of a thread: Stop() begins.                                                        *)
LEMMA StopKeeps ==
  ASSUME Inductive, NEW c \in Callers, NEW w \in Workers, Thread!Stop(c, w),
         adding[c].at = "delete",
         adding' \in [Callers -> AddingType], adding'[c].at = "stopping",
         \A d \in Callers \ {c} : adding'[d] = adding[d],
         UNCHANGED <<m_pThreadList, m_bHandle_NonWork_Threads, pool, destructorKeeps>>
  PROVE  Inductive'
<1>1. call \in [Callers -> CallType]
  BY DEF Inductive, Thread!TypeOK, CallType
<1>2. c = Owner /\ pool = "deleting" /\ \A d \in Callers \ {c} : adding[d] = Idle
  BY OwnerDeletes
<1>3. /\ call' \in [Callers -> CallType] /\ call'[c].at = "unwork" /\ call'[c].worker = w
      /\ call[c].at = "idle" /\ \A d \in Callers \ {c} : call'[d] = call[d]
  <2>1. [at |-> "unwork", worker |-> w, task |-> Thread!Null] \in CallType
    BY DEF CallType, Thread!Statements
  <2> QED  BY <1>1, <2>1 DEF Thread!Stop, Thread!At
<1>4. UNCHANGED <<m_bStart, m_bWork, m_pFunction, pc, crashed, count, runs, missed>>
  BY DEF Thread!Stop, Thread!workerVars
<1>5. Thread!TypeOK'
  BY <1>3, <1>4 DEF Inductive, Thread!TypeOK, CallType
<1>6. PoolTyped'
  BY DEF Inductive, PoolTyped, AddingType, destructorKeeps
<1>7. CallsKnown' /\ OwnerAlone'
  BY <1>2, <1>3 DEF Inductive, CallsKnown, OwnerAlone, Starting, Stopping
<1>8. StoppedWaitedFor'
  BY <1>2, <1>3, <1>4 DEF Inductive, StoppedWaitedFor, Stopping
<1> QED  BY <1>5, <1>6, <1>7, <1>8 DEF Inductive

LEMMA DeletesKeeps ==
  ASSUME Inductive, NEW c \in Callers, Deletes(c), UNCHANGED destructorKeeps
  PROVE  Inductive'
<1> DEFINE rest == adding[c].rest
<1>1. adding \in [Callers -> AddingType] /\ adding[c] \in AddingType /\ adding[c].at = "delete"
      /\ rest \in Seq(Workers) /\ "stopping" \in Places /\ created \subseteq Workers
  BY DEF Inductive, PoolTyped, AddingType, Deletes, At, Places
<1>2. UNCHANGED <<m_pThreadList, m_bHandle_NonWork_Threads>>
  BY DEF Deletes
<1>3. CASE rest # <<>>
  <2>1. Head(rest) \in Workers /\ Tail(rest) \in Seq(Workers)
    BY <1>1, <1>3
  <2>2. [adding[c] EXCEPT !.at = "stopping", !.worker = Head(rest), !.rest = Tail(rest)]
            \in AddingType
    BY <1>1, <2>1, AddingTyped
  <2>3. /\ adding' = [adding EXCEPT ![c].at = "stopping", ![c].worker = Head(rest),
                                    ![c].rest = Tail(rest)]
        /\ Thread!Stop(c, Head(rest)) /\ UNCHANGED pool
    BY <1>3 DEF Deletes
  <2>4. /\ adding' \in [Callers -> AddingType] /\ adding'[c].at = "stopping"
        /\ \A d \in Callers \ {c} : adding'[d] = adding[d]
    BY <1>1, <2>2, <2>3 DEF AddingType
  <2> QED  BY <1>1, <1>2, <2>1, <2>3, <2>4, StopKeeps
<1>4. ASSUME rest = <<>>, NEW w \in Children, Thread!Stop(c, w), UNCHANGED pool,
             adding' = [adding EXCEPT ![c].at = "stopping", ![c].worker = w]
      PROVE  Inductive'
  <2>1. w \in Workers
    BY <1>1 DEF Children
  <2>2. [adding[c] EXCEPT !.at = "stopping", !.worker = w] \in AddingType
    BY <1>1, <2>1, AddingTyped
  <2>3. /\ adding' \in [Callers -> AddingType] /\ adding'[c].at = "stopping"
        /\ \A d \in Callers \ {c} : adding'[d] = adding[d]
    BY <1>1, <1>4, <2>2 DEF AddingType
  <2> QED  BY <1>1, <1>2, <1>4, <2>1, <2>3, StopKeeps
<1>5. CASE /\ Children = {} /\ pool' = "gone" /\ adding' = [adding EXCEPT ![c] = Idle]
           /\ UNCHANGED threadVars
  <2>1. c = Owner /\ pool = "deleting" /\ \A d \in Callers \ {c} : adding[d] = Idle
    BY <1>1, OwnerDeletes
  <2>2. \A d \in Callers : call[d].at \notin Stopping
    BY <1>1, <2>1 DEF Inductive, CallsKnown, Idle
  <2>4. \A d \in Callers : adding'[d] = Idle
    BY <1>1, <1>5, <2>1
  <2>5. Idle \in AddingType
    BY DEF Idle, AddingType, Places
  <2>6. adding' \in [Callers -> AddingType]
    BY <1>1, <1>5, <2>5
  <2>7. Thread!TypeOK'
    BY <1>5 DEF Inductive, Thread!TypeOK, threadVars
  <2>8. PoolTyped'
    BY <1>2, <1>5, <2>6 DEF Inductive, PoolTyped, AddingType, destructorKeeps
  <2>9. \A d \in Callers : call[d].at \notin Starting
    BY <1>1, <2>1 DEF Inductive, CallsKnown, Idle
  <2>10. CallsKnown' /\ OwnerAlone'
    BY <1>5, <2>2, <2>4, <2>9, PoolAssumption DEF Inductive, CallsKnown, OwnerAlone, Idle,
        threadVars
  <2>11. StoppedWaitedFor'
    BY <1>5 DEF Inductive, StoppedWaitedFor, threadVars, destructorKeeps
  <2> QED  BY <2>7, <2>8, <2>10, <2>11 DEF Inductive
<1>6. CASE rest = <<>>
  BY <1>4, <1>5, <1>6 DEF Deletes
<1> QED  BY <1>3, <1>6

(* A sequence without one of its elements.                                                   *)
LEMMA WithoutTyped ==
  ASSUME NEW S, NEW s \in Seq(S), NEW w
  PROVE  Without(s, w) \in Seq(S)
<1>1. CASE \E i \in DOMAIN s : s[i] = w
  <2> DEFINE i == CHOOSE j \in DOMAIN s : s[j] = w
  <2>1. i \in DOMAIN s
    BY <1>1
  <2>2. i \in 1..Len(s) /\ Len(s) \in Nat
    BY <2>1
  <2> HIDE DEF i
  <2>3. SubSeq(s, 1, i - 1) \in Seq(S)
    BY <2>2, SubSeqProperties
  <2>4. SubSeq(s, i + 1, Len(s)) \in Seq(S)
    BY <2>2, SubSeqProperties
  <2>5. RemoveAt(s, i) \in Seq(S)
    BY <2>3, <2>4, ConcatProperties DEF RemoveAt
  <2> QED  BY <1>1, <2>5 DEF Without, i
<1>2. CASE ~ \E i \in DOMAIN s : s[i] = w
  BY <1>2 DEF Without
<1> QED  BY <1>1, <1>2

LEMMA DeletedKeeps ==
  ASSUME Inductive, NEW c \in Callers, Deleted(c), UNCHANGED destructorKeeps
  PROVE  Inductive'
<1>1. adding \in [Callers -> AddingType] /\ adding[c] \in AddingType /\ adding[c].at = "stopping"
      /\ call[c].at = "idle" /\ "delete" \in Places /\ m_pThreadList \in Seq(Workers)
  BY DEF Inductive, PoolTyped, AddingType, Deleted, At, Places, Thread!Idle
<1>2. c = Owner /\ pool = "deleting" /\ \A d \in Callers \ {c} : adding[d] = Idle
  BY <1>1, OwnerDeletes
<1>3. /\ adding' \in [Callers -> AddingType] /\ adding'[c].at = "delete"
      /\ \A d \in Callers \ {c} : adding'[d] = adding[d]
  <2>1. [adding[c] EXCEPT !.at = "delete", !.worker = Null] \in AddingType
    BY <1>1, AddingTyped
  <2> QED  BY <1>1, <2>1 DEF Deleted, AddingType
<1>4. m_pThreadList' \in Seq(Workers)
  BY <1>1, WithoutTyped DEF Deleted
<1>5. Thread!TypeOK'
  BY DEF Inductive, Thread!TypeOK, Deleted, threadVars
<1>6. PoolTyped'
  BY <1>3, <1>4 DEF Inductive, PoolTyped, AddingType, Deleted, destructorKeeps
<1>7. CallsKnown' /\ OwnerAlone'
  BY <1>1, <1>2, <1>3 DEF Inductive, CallsKnown, OwnerAlone, Starting, Stopping, Deleted, threadVars
<1>8. StoppedWaitedFor'
  BY <1>2 DEF Inductive, StoppedWaitedFor, Deleted, threadVars
<1> QED  BY <1>5, <1>6, <1>7, <1>8 DEF Inductive

-----------------------------------------------------------------------------
(* The helper, and the theorems.                                             *)

LEMMA HelperKeeps ==
  ASSUME Inductive, Helper
  PROVE  Inductive'
<1>1. /\ UNCHANGED <<m_bStart, m_bWork, m_pFunction, pc, call, count, runs, missed>>
      /\ UNCHANGED <<created, orphans, locked, adding, pool, given, dropped>>
      /\ crashed' \in BOOLEAN
  BY DEF Helper, HelperTests, HandleNonWork, threadVars, Inductive, Thread!TypeOK
<1> DEFINE H == [at : {"begin", "test", "visit", "trim", "remove", "ended"}, rest : Seq(Workers)]
<1>2. /\ helper \in H /\ m_pThreadList \in Seq(Workers) /\ strays \subseteq orphans
      /\ helper.at \in {"trim", "remove"} => helper.rest # <<>>
  BY DEF Inductive, PoolTyped
<1>3. /\ helper' \in H /\ m_pThreadList' \in Seq(Workers) /\ strays' \subseteq orphans
      /\ helper'.at \in {"trim", "remove"} => helper'.rest # <<>>
      /\ m_bHandle_NonWork_Threads' \in BOOLEAN /\ raced' \in BOOLEAN
  <2>1. CASE HelperTests
    <3>1. /\ [helper EXCEPT !.at = "test"] \in H /\ [helper EXCEPT !.at = "ended"] \in H
          /\ [at |-> "visit", rest |-> m_pThreadList] \in H
      BY <1>2
    <3>2. helper' \in H
      BY <2>1, <3>1 DEF HelperTests
    <3>3. m_bHandle_NonWork_Threads' \in BOOLEAN /\ UNCHANGED <<m_pThreadList, strays>>
      BY <2>1 DEF HelperTests, Inductive, PoolTyped
    <3>4. raced' \in BOOLEAN
      BY <2>1 DEF HelperTests, Inductive, PoolTyped
    <3>5. helper'.at \notin {"trim", "remove"}
      BY <1>2, <2>1 DEF HelperTests
    <3> QED  BY <1>2, <3>2, <3>3, <3>4, <3>5
  <2>2. CASE HandleNonWork
    <3> DEFINE r == Tail(helper.rest)
    <3>1. UNCHANGED <<m_bHandle_NonWork_Threads, raced>>
      BY <2>2 DEF HandleNonWork
    <3>2. helper.rest # <<>> => r \in Seq(Workers)
      BY <1>2
    <3>3. CASE helper.at # "remove"
      <4>1. UNCHANGED <<m_pThreadList, strays>>
        BY <2>2, <3>3 DEF HandleNonWork
      <4>2. /\ \A p \in {"test", "trim", "remove"} : [helper EXCEPT !.at = p] \in H
            /\ helper.rest # <<>> => /\ [helper EXCEPT !.rest = r] \in H
                                     /\ [at |-> "visit", rest |-> r] \in H
        BY <1>2, <3>2
      <4>3. helper' \in H
        BY <1>2, <2>2, <3>3, <4>2 DEF HandleNonWork
      <4>4. helper'.at \in {"trim", "remove"} => helper'.rest # <<>>
        BY <1>2, <2>2, <3>2, <3>3 DEF HandleNonWork
      <4> QED  BY <1>2, <3>1, <4>1, <4>3, <4>4 DEF Inductive, PoolTyped
    <3>4. CASE helper.at = "remove"
      <4>1. AfterRemoval(Head(helper.rest), r) \in Seq(Workers)
        <5>1. r # <<>> => Append(Tail(r), r[Len(r)]) \in Seq(Workers)
          BY <1>2, <3>2, <3>4
        <5> QED  BY <1>2, <3>2, <3>4, <5>1 DEF AfterRemoval
      <4>2. /\ helper' = [at |-> "visit", rest |-> AfterRemoval(Head(helper.rest), r)]
            /\ m_pThreadList' = Without(m_pThreadList, Head(helper.rest))
            /\ strays' \subseteq strays \cup orphans
        BY <2>2, <3>4 DEF HandleNonWork
      <4> QED  BY <1>2, <3>1, <4>1, <4>2, WithoutTyped DEF Inductive, PoolTyped
    <3> QED  BY <3>3, <3>4
  <2> QED  BY <2>1, <2>2 DEF Helper
<1>4. Thread!TypeOK'
  BY <1>1 DEF Inductive, Thread!TypeOK
<1>5. PoolTyped'
  BY <1>1, <1>3 DEF Inductive, PoolTyped
<1>6. CallsKnown' /\ OwnerAlone' /\ StoppedWaitedFor'
  BY <1>1 DEF Inductive, CallsKnown, OwnerAlone, StoppedWaitedFor
<1> QED  BY <1>4, <1>5, <1>6 DEF Inductive

(* A crash changes nothing else.                                                             *)
LEMMA CrashKeeps ==
  ASSUME Inductive, crashed' \in BOOLEAN,
         UNCHANGED <<m_bStart, m_bWork, m_pFunction, pc, call, count, runs, missed, poolVars>>
  PROVE  Inductive'
<1>1. Thread!TypeOK' /\ PoolTyped'
  BY DEF Inductive, Thread!TypeOK, PoolTyped, poolVars, listVars
<1>2. CallsKnown' /\ OwnerAlone' /\ StoppedWaitedFor'
  BY DEF Inductive, CallsKnown, OwnerAlone, StoppedWaitedFor, poolVars
<1> QED  BY <1>1, <1>2 DEF Inductive

IInv == Inductive /\ replaced \in BOOLEAN

(* IInv is inductive, for any number of callers, tasks and threads.                          *)
THEOREM Invariant == Spec => []IInv
<1>1. Init => IInv
  BY InitInductive DEF IInv, Init
<1>2. IInv /\ [Next]_vars => IInv'
  <2> SUFFICES ASSUME IInv, [Next]_vars PROVE IInv'
    OBVIOUS
  <2>1. Inductive /\ replaced \in BOOLEAN
    BY DEF IInv
  <2>2. replaced' \in BOOLEAN
    BY <2>1 DEF Next, NotesReplaced, vars
  <2>3. CASE \E c \in Callers : AddTask(c)
    BY <2>1, <2>2, <2>3, AddTaskKeeps DEF IInv
  <2>4. CASE \E c \in Callers : AddTaskStatement(c)
    BY <2>1, <2>2, <2>4, AddTaskStatementKeeps DEF IInv
  <2>5. CASE \E c \in Callers : DestructorStatement(c)
    BY <2>1, <2>2, <2>5, DestructorKeeps, DeletesKeeps, DeletedKeeps
    DEF IInv, DestructorStatement, DestructorGoesOn
  <2>6. CASE \E c \in Callers : CallerStatement(c)
    BY <2>1, <2>2, <2>6, CallerKeeps DEF IInv
  <2>7. CASE \E w \in Workers : WorkerStep(w)
    BY <2>1, <2>2, <2>7, WorkerKeeps DEF IInv
  <2>8. CASE Thread!RaceOnFunction /\ UNCHANGED poolVars
    BY <2>1, <2>2, <2>8, CrashKeeps DEF IInv, Thread!RaceOnFunction, Thread!workerVars
  <2>9. CASE RaceOnList
    BY <2>1, <2>2, <2>9, CrashKeeps DEF IInv, RaceOnList
  <2>10. CASE Helper
    BY <2>1, <2>2, <2>10, HelperKeeps DEF IInv
  <2>11. CASE Terminated \/ UNCHANGED vars
    <3>1. /\ UNCHANGED <<m_bStart, m_bWork, m_pFunction, pc, call, count, runs, missed, poolVars>>
          /\ crashed' = crashed
      BY <2>11 DEF Terminated, threadVars, vars
    <3>2. crashed' \in BOOLEAN
      BY <2>1, <3>1 DEF Inductive, Thread!TypeOK
    <3> QED  BY <2>1, <2>2, <3>1, <3>2, CrashKeeps DEF IInv
  <2> QED  BY <2>3, <2>4, <2>5, <2>6, <2>7, <2>8, <2>9, <2>10, <2>11 DEF Next
<1> QED  BY <1>1, <1>2, PTL DEF Spec

(* The variables of the pool and of its threads keep their types.                            *)
THEOREM TypeCorrect == Spec => []TypeOK
<1>1. IInv => TypeOK
  BY DEF IInv, Inductive, PoolTyped, TypeOK
<1> QED  BY <1>1, Invariant, PTL

-----------------------------------------------------------------------------
(* What the destructor leaves behind.                                        *)

(* A thread that is no child of the pool is on the list, or about to be, as long as the      *)
(* helper has not taken it off; and the destructor, which goes through the list, stops it.   *)
OrphansKept == \A w \in orphans \ strays :
    /\ pool = "used" =>
         \/ \E i \in DOMAIN m_pThreadList : m_pThreadList[i] = w
         \/ \E c \in Callers : adding[c].at = "push" /\ adding[c].worker = w
    /\ pool = "deleting" =>
         \/ ~m_bStart[w]
         \/ \E i \in DOMAIN adding[Owner].rest : adding[Owner].rest[i] = w
         \/ call[Owner].at \in {"unwork", "unstart"} /\ call[Owner].worker = w

DestroyedInv == OrphansKept /\ DestroyedAlone

(* A sequence without one element still has the others.                                      *)
LEMMA WithoutKeeps ==
  ASSUME NEW S, NEW s \in Seq(S), NEW w, NEW k \in DOMAIN s, s[k] # w
  PROVE  \E j \in DOMAIN Without(s, w) : Without(s, w)[j] = s[k]
<1>1. CASE \E i \in DOMAIN s : s[i] = w
  <2> DEFINE i == CHOOSE j \in DOMAIN s : s[j] = w
             a == SubSeq(s, 1, i - 1)
             b == SubSeq(s, i + 1, Len(s))
  <2>1. i \in DOMAIN s /\ s[i] = w
    BY <1>1
  <2>2. i \in 1..Len(s) /\ Len(s) \in Nat /\ k \in 1..Len(s) /\ k # i
    BY <2>1
  <2>3. Without(s, w) = a \o b
    BY <1>1 DEF Without, RemoveAt
  <2> HIDE DEF i
  <2>4. /\ a \in Seq(S) /\ Len(a) = i - 1 /\ \A j \in 1..(i - 1) : a[j] = s[j]
        /\ b \in Seq(S) /\ Len(b) = Len(s) - i /\ \A j \in 1..(Len(s) - i) : b[j] = s[i + j]
    <3>1. a \in Seq(S) /\ Len(a) = i - 1 /\ \A j \in 1..(i - 1) : a[j] = s[j]
      BY <2>2, SubSeqProperties
    <3>2. b \in Seq(S) /\ Len(b) = Len(s) - i /\ \A j \in 1..(Len(s) - i) : b[j] = s[i + j]
      BY <2>2, SubSeqProperties
    <3> QED  BY <3>1, <3>2
  <2> HIDE DEF a, b
  <2>5. CASE k < i
    <3>1. k \in DOMAIN (a \o b) /\ (a \o b)[k] = a[k]
      BY <2>2, <2>4, <2>5, ConcatProperties
    <3> QED  BY <2>2, <2>3, <2>4, <2>5, <3>1
  <2>6. CASE k > i
    <3>1. k - 1 \in DOMAIN (a \o b) /\ (a \o b)[k - 1] = b[k - i]
      BY <2>2, <2>4, <2>6, ConcatProperties
    <3>2. b[k - i] = s[k]
      BY <2>2, <2>4, <2>6
    <3> QED  BY <2>3, <3>1, <3>2
  <2> QED  BY <2>2, <2>5, <2>6
<1>2. CASE ~ \E i \in DOMAIN s : s[i] = w
  BY <1>2 DEF Without
<1> QED  BY <1>1, <1>2

(* A step that moves no thread between the list and the callers.                             *)
LEMMA OrphansSame ==
  ASSUME Inductive, DestroyedInv, UNCHANGED <<m_bStart, call, listVars, pool>>,
         \A c \in Callers : adding[c].at = "push" => adding'[c] = adding[c],
         adding'[Owner].rest = adding[Owner].rest \/ pool # "deleting",
         \A w \in Workers : pc[w] = "finished" => pc'[w] = "finished"
  PROVE  DestroyedInv'
<1>1. OrphansKept'
  BY DEF DestroyedInv, OrphansKept, listVars
<1>2. DestroyedAlone'
  BY DEF DestroyedInv, DestroyedAlone, listVars, Inductive, PoolTyped
<1> QED  BY <1>1, <1>2 DEF DestroyedInv

LEMMA OrphansAdd ==
  ASSUME Inductive, DestroyedInv, NEW c \in Callers, AddTask(c) \/ AddTaskStatement(c)
  PROVE  DestroyedInv'
<1>1. adding \in [Callers -> AddingType] /\ m_pThreadList \in Seq(Workers)
  BY DEF Inductive, PoolTyped, AddingType
<1>2. pool = "used" /\ UNCHANGED <<pool, m_bStart>>
  <2>1. AddTaskStatement(c) => adding[c].at \in {"size", "lock", "count", "create", "push",
                                                 "choose", "start"}
    BY DEF AddTaskStatement, GetThreadCount, GetThreadWorkCount, Creates, Pushes, Chooses, Returns,
        At
  <2>2. AddTaskStatement(c) => pool = "used"
    BY <2>1, PoolAssumption DEF Inductive, OwnerAlone, Idle
  <2> QED  BY <2>2 DEF AddTask, AddTaskStatement, GetThreadCount, GetThreadWorkCount, Creates,
               Pushes, Chooses, Returns, Thread!Start, Thread!workerVars, threadVars
<1> SUFFICES OrphansKept'
  BY <1>2 DEF DestroyedInv, DestroyedAlone
<1> SUFFICES ASSUME NEW w \in orphans' \ strays'
             PROVE  \/ \E i \in DOMAIN m_pThreadList' : m_pThreadList'[i] = w
                    \/ \E d \in Callers : adding'[d].at = "push" /\ adding'[d].worker = w
  BY <1>2 DEF OrphansKept
<1>3. \A v \in orphans \ strays :
        \/ \E i \in DOMAIN m_pThreadList : m_pThreadList[i] = v
        \/ \E d \in Callers : adding[d].at = "push" /\ adding[d].worker = v
  BY <1>2 DEF DestroyedInv, OrphansKept
<1>4. CASE Creates(c)
  <2>1. PICK v \in Workers : /\ orphans' = orphans \/ orphans' = orphans \cup {v}
                             /\ adding' = [adding EXCEPT ![c].at = "push", ![c].worker = v]
    BY <1>4 DEF Creates
  <2>2. UNCHANGED <<m_pThreadList, strays>> /\ adding[c].at = "create"
    BY <1>4 DEF Creates, At
  <2>3. /\ adding'[c].at = "push" /\ adding'[c].worker = v
        /\ \A d \in Callers \ {c} : adding'[d] = adding[d]
    BY <1>1, <2>1 DEF AddingType
  <2>4. CASE w = v
    BY <2>3, <2>4
  <2>5. CASE w # v
    <3>1. w \in orphans \ strays
      BY <2>1, <2>2, <2>5
    <3> QED  BY <1>3, <2>2, <2>3, <3>1
  <2> QED  BY <2>4, <2>5
<1>5. CASE Pushes(c)
  <2>1. /\ UNCHANGED <<orphans, strays>> /\ adding[c].worker \in Workers
        /\ m_pThreadList' = Append(m_pThreadList, adding[c].worker)
        /\ \A d \in Callers \ {c} : adding'[d] = adding[d]
    BY <1>1, <1>5 DEF Pushes, At, Inductive, CallsKnown
  <2>2. /\ \A i \in DOMAIN m_pThreadList : i \in DOMAIN m_pThreadList'
                                          /\ m_pThreadList'[i] = m_pThreadList[i]
        /\ \E i \in DOMAIN m_pThreadList' : m_pThreadList'[i] = adding[c].worker
    BY <1>1, <2>1
  <2> QED  BY <1>3, <2>1, <2>2
<1>6. CASE AddTask(c) \/ GetThreadCount(c) \/ GetThreadWorkCount(c) \/ Chooses(c) \/ Returns(c)
  <2>1. UNCHANGED listVars /\ adding[c].at # "push"
    BY <1>6 DEF AddTask, GetThreadCount, GetThreadWorkCount, Chooses, Returns, At
  <2>2. \A d \in Callers \ {c} : adding'[d] = adding[d]
    BY <1>1, <1>6 DEF AddTask, GetThreadCount, GetThreadWorkCount, Chooses, Returns
  <2> QED  BY <1>3, <2>1, <2>2 DEF listVars
<1> QED  BY <1>4, <1>5, <1>6 DEF AddTaskStatement

LEMMA OrphansDestructor ==
  ASSUME Inductive, DestroyedInv, NEW c \in Callers, DestructorStatement(c)
  PROVE  DestroyedInv'
<1>1. /\ adding \in [Callers -> AddingType] /\ m_pThreadList \in Seq(Workers)
      /\ adding[c].rest \in Seq(Workers) /\ orphans \subseteq Workers
      /\ UNCHANGED <<created, orphans, strays>>
  BY DEF Inductive, PoolTyped, AddingType, DestructorStatement, DestructorGoesOn, destructorKeeps
<1>2. UNCHANGED <<m_bStart, pc>>
  BY DEF DestructorStatement, DestructorGoesOn, Destructor, Deletes, Deleted, Thread!Stop,
      Thread!workerVars, threadVars
<1>3. CASE Destructor(c)
  <2>1. /\ c = Owner /\ pool = "used" /\ pool' = "deleting"
        /\ \A d \in Callers : adding[d].at = "idle"
        /\ adding'[Owner].rest = m_pThreadList
    BY <1>1, <1>3 DEF Destructor, AllIdle, Idle, AddingType
  <2>2. \A w \in orphans \ strays : \E i \in DOMAIN m_pThreadList : m_pThreadList[i] = w
    BY <2>1 DEF DestroyedInv, OrphansKept
  <2> QED  BY <1>1, <2>1, <2>2 DEF DestroyedInv, OrphansKept, DestroyedAlone
<1>4. ASSUME adding[c].at \in {"delete", "stopping"}
      PROVE  /\ c = Owner /\ pool = "deleting"
             /\ \A w \in orphans \ strays :
                  \/ ~m_bStart[w]
                  \/ \E i \in DOMAIN adding[Owner].rest : adding[Owner].rest[i] = w
                  \/ call[Owner].at \in {"unwork", "unstart"} /\ call[Owner].worker = w
  BY <1>4, OwnerDeletes DEF DestroyedInv, OrphansKept
<1>5. CASE Deleted(c)
  <2>1. /\ adding[c].at = "stopping" /\ UNCHANGED <<pool, call>>
        /\ adding'[c].rest = adding[c].rest
    BY <1>1, <1>5 DEF Deleted, At, threadVars, AddingType
  <2> QED  BY <1>1, <1>2, <1>4, <2>1 DEF DestroyedInv, OrphansKept, DestroyedAlone
<1>6. ASSUME Deletes(c), NEW v \in Workers, Thread!Stop(c, v), UNCHANGED pool,
             \/ /\ adding[c].rest # <<>> /\ v = Head(adding[c].rest)
                /\ adding'[c].rest = Tail(adding[c].rest)
             \/ adding[c].rest = <<>> /\ adding'[c].rest = adding[c].rest
      PROVE  DestroyedInv'
  <2>1. adding[c].at = "delete"
    BY <1>6 DEF Deletes, At
  <2>2. call[c].at = "idle" /\ call'[c].at = "unwork" /\ call'[c].worker = v
    BY <1>6 DEF Thread!Stop, Thread!At, Inductive, Thread!TypeOK
  <2>3. \A i \in DOMAIN adding[c].rest :
          \/ adding[c].rest[i] = v
          \/ \E j \in DOMAIN adding'[c].rest : adding'[c].rest[j] = adding[c].rest[i]
    <3>1. SUFFICES ASSUME NEW i \in DOMAIN adding[c].rest, adding[c].rest[i] # v
                   PROVE  \E j \in DOMAIN adding'[c].rest : adding'[c].rest[j] = adding[c].rest[i]
      OBVIOUS
    <3>2. i \in 1..Len(adding[c].rest) /\ adding[c].rest # <<>>
      BY <1>1
    <3>3. v = adding[c].rest[1] /\ adding'[c].rest = Tail(adding[c].rest) /\ i > 1
      BY <1>1, <1>6, <3>1, <3>2
    <3>4. i - 1 \in DOMAIN adding'[c].rest /\ adding'[c].rest[i - 1] = adding[c].rest[i]
      BY <1>1, <3>2, <3>3
    <3> QED  BY <3>4
  <2> QED  BY <1>1, <1>2, <1>4, <1>6, <2>1, <2>2, <2>3 DEF DestroyedInv, OrphansKept, DestroyedAlone
<1>7. CASE Deletes(c)
  <2>1. adding[c].at = "delete" /\ adding[c] \in AddingType
    BY <1>1, <1>7 DEF Deletes, At
  <2>2. CASE adding[c].rest # <<>>
    <3>1. Head(adding[c].rest) \in Workers
      BY <1>1, <2>2
    <3>2. /\ Thread!Stop(c, Head(adding[c].rest)) /\ UNCHANGED pool
          /\ adding'[c].rest = Tail(adding[c].rest)
      BY <1>1, <1>7, <2>1, <2>2 DEF Deletes, AddingType
    <3> QED  BY <1>6, <1>7, <2>2, <3>1, <3>2
  <2>3. CASE adding[c].rest = <<>> /\ \E w \in Children : Thread!Stop(c, w) /\ UNCHANGED pool
              /\ adding' = [adding EXCEPT ![c].at = "stopping", ![c].worker = w]
    <3>1. PICK w \in Children : Thread!Stop(c, w) /\ UNCHANGED pool
              /\ adding' = [adding EXCEPT ![c].at = "stopping", ![c].worker = w]
      BY <2>3
    <3>2. w \in Workers
      BY DEF Children, Inductive, PoolTyped
    <3>3. adding'[c].rest = adding[c].rest
      BY <1>1, <2>1, <3>1 DEF AddingType
    <3> QED  BY <1>6, <1>7, <2>3, <3>1, <3>2, <3>3
  <2>4. CASE adding[c].rest = <<>> /\ Children = {} /\ pool' = "gone"
    <3>1. c = Owner /\ \A d \in Callers \ {c} : adding[d] = Idle
      BY <2>1, OwnerDeletes
    <3>2. \A d \in Callers : call[d].at \notin Stopping
      BY <2>1, <3>1 DEF Inductive, CallsKnown, Idle
    <3>3. \A w \in Workers : ~m_bStart[w] => pc[w] = "finished"
      BY <3>2 DEF Inductive, StoppedWaitedFor
    <3>4. \A w \in orphans \ strays : ~m_bStart[w]
      BY <1>4, <2>1, <2>4, <3>1, <3>2 DEF Stopping
    <3>5. \A w \in created \ orphans : ~m_bStart[w]
      BY <2>4 DEF Children
    <3>6. \A w \in created : pc[w] = "finished" \/ w \in strays
      BY <3>3, <3>4, <3>5 DEF Inductive, PoolTyped
    <3> QED  BY <1>1, <1>2, <2>4, <3>6 DEF DestroyedInv, OrphansKept, DestroyedAlone
  <2> QED  BY <1>7, <2>2, <2>3, <2>4 DEF Deletes
<1> QED  BY <1>3, <1>5, <1>7 DEF DestructorStatement, DestructorGoesOn

(* A statement of Stop() of the thread that the destructor deletes clears its m_bStart.      *)
LEMMA OrphansCaller ==
  ASSUME Inductive, DestroyedInv, NEW c \in Callers, CallerStatement(c)
  PROVE  DestroyedInv'
<1>1. /\ UNCHANGED poolVars /\ call \in [Callers -> CallType] /\ Thread!CallerStatement(c)
      /\ m_bStart \in [Workers -> BOOLEAN]
      /\ pc \in [Workers -> Thread!Awake \cup {"parked", "finished"}]
  BY DEF CallerStatement, Inductive, Thread!TypeOK, CallType
<1>2. \A w \in Workers : /\ ~m_bStart[w] => ~m_bStart'[w]
                         /\ pc[w] = "finished" => pc'[w] = "finished"
  BY <1>1 DEF Thread!CallerStatement, Thread!Assigns, Thread!SetsFunction, Thread!SetsWork,
      Thread!StopClearsStart, Thread!NotifiesOne, Thread!NotifiesStart, Thread!NotifiesStop,
      Thread!Notifies, Thread!Waits, Thread!workerVars
<1>3. call[Owner].at \in {"unwork", "unstart"} /\ call[Owner].worker \in Workers =>
        \/ ~m_bStart'[call[Owner].worker]
        \/ call'[Owner].at \in {"unwork", "unstart"} /\ call'[Owner].worker = call[Owner].worker
  <2>1. CASE c = Owner
    <3>1. call[c].at = "unwork" => Thread!SetsWork(c)
      BY <1>1 DEF Thread!CallerStatement, Thread!Assigns, Thread!SetsFunction, Thread!SetsWork,
          Thread!StopClearsStart, Thread!NotifiesOne, Thread!NotifiesStart, Thread!NotifiesStop,
          Thread!Waits, Thread!At
    <3>2. call[c].at = "unstart" => Thread!StopClearsStart(c)
      BY <1>1 DEF Thread!CallerStatement, Thread!Assigns, Thread!SetsFunction, Thread!SetsWork,
          Thread!StopClearsStart, Thread!NotifiesOne, Thread!NotifiesStart, Thread!NotifiesStop,
          Thread!Waits, Thread!At
    <3>3. Thread!Goes(c, "unstart") => call'[c].at = "unstart" /\ call'[c].worker = call[c].worker
      BY <1>1 DEF Thread!Goes, CallType
    <3> QED  BY <1>1, <2>1, <3>1, <3>2, <3>3 DEF Thread!SetsWork, Thread!StopClearsStart, Thread!At
  <2>2. CASE c # Owner
    BY <1>1, <2>2, PoolAssumption DEF Thread!CallerStatement, Thread!Assigns, Thread!SetsFunction,
        Thread!SetsWork, Thread!StopClearsStart, Thread!NotifiesOne, Thread!NotifiesStart,
        Thread!NotifiesStop, Thread!Waits, Thread!Goes, Thread!Returns
  <2> QED  BY <2>1, <2>2
<1>4. orphans \subseteq Workers /\ created \subseteq Workers
  BY DEF Inductive, PoolTyped
<1>5. OrphansKept'
  <2>1. UNCHANGED <<orphans, strays, m_pThreadList, adding, pool>>
    BY <1>1 DEF poolVars, listVars
  <2> QED  BY <1>2, <1>3, <1>4, <2>1 DEF DestroyedInv, OrphansKept
<1>6. DestroyedAlone'
  BY <1>1, <1>2, <1>4 DEF DestroyedInv, DestroyedAlone, poolVars, listVars
<1> QED  BY <1>5, <1>6 DEF DestroyedInv

LEMMA OrphansHelper ==
  ASSUME Inductive, DestroyedInv, Helper
  PROVE  DestroyedInv'
<1>1. /\ UNCHANGED <<m_bStart, call, pc, created, orphans, adding, pool>>
      /\ m_pThreadList \in Seq(Workers)
  BY DEF Helper, HelperTests, HandleNonWork, threadVars, Inductive, PoolTyped
<1>2. CASE UNCHANGED <<m_pThreadList, strays>>
  BY <1>1, <1>2 DEF DestroyedInv, OrphansKept, DestroyedAlone
<1>3. CASE HandleNonWork /\ helper.at = "remove"
  <2> DEFINE h == Head(helper.rest)
  <2>1. /\ m_pThreadList' = Without(m_pThreadList, h)
        /\ strays' = IF pool = "used" THEN strays \cup ({h} \cap orphans) ELSE strays
    BY <1>3 DEF HandleNonWork
  <2>2. pool = "used" => \A w \in orphans \ strays' : w \in orphans \ strays /\ w # h
    BY <2>1
  <2>3. \A i \in DOMAIN m_pThreadList : m_pThreadList[i] # h =>
          \E j \in DOMAIN m_pThreadList' : m_pThreadList'[j] = m_pThreadList[i]
    BY <1>1, <2>1, WithoutKeeps
  <2> HIDE DEF h
  <2>4. CASE pool = "used"
    BY <1>1, <2>2, <2>3, <2>4 DEF DestroyedInv, OrphansKept, DestroyedAlone
  <2>5. CASE pool # "used"
    BY <1>1, <2>1, <2>5 DEF DestroyedInv, OrphansKept, DestroyedAlone
  <2> QED  BY <2>4, <2>5
<1> QED  BY <1>2, <1>3 DEF Helper, HelperTests, HandleNonWork

LEMMA DestroyedStep == Inductive /\ DestroyedInv /\ [Next]_vars => DestroyedInv'
<1> SUFFICES ASSUME Inductive, DestroyedInv, [Next]_vars PROVE DestroyedInv'
  OBVIOUS
<1>1. CASE \E w \in Workers : WorkerStep(w)
  <2>1. PICK w \in Workers : WorkerStep(w)
    BY <1>1
  <2>2. /\ Thread!Run(w) /\ pc \in [Workers -> Thread!Awake \cup {"parked", "finished"}]
        /\ UNCHANGED <<listVars, adding, pool>>
    BY <2>1 DEF WorkerStep, Inductive, Thread!TypeOK
  <2>3. \A v \in Workers : pc[v] = "finished" => pc'[v] = "finished"
    BY <2>2 DEF Thread!Run, Thread!Moves, Thread!Marks, Thread!Parks, Thread!CallsFunction,
        Thread!Reaches, Thread!Awake
  <2>4. UNCHANGED <<m_bStart, call>>
    BY <2>2 DEF Thread!Run, Thread!Moves, Thread!Marks, Thread!CallsFunction, Thread!workerVars
  <2> QED  BY <2>2, <2>3, <2>4, OrphansSame
<1>2. CASE (Thread!RaceOnFunction /\ UNCHANGED poolVars) \/ RaceOnList \/ Terminated
           \/ UNCHANGED vars
  <2>1. UNCHANGED <<m_bStart, call, pc, listVars, adding, pool>>
    BY <1>2 DEF Thread!RaceOnFunction, RaceOnList, Terminated, Thread!workerVars, threadVars,
        poolVars, vars
  <2> QED  BY <2>1, OrphansSame
<1>3. CASE \E c \in Callers : \/ AddTask(c) \/ AddTaskStatement(c) \/ DestructorStatement(c)
                              \/ CallerStatement(c)
  BY <1>3, OrphansAdd, OrphansDestructor, OrphansCaller
<1>4. CASE Helper
  BY <1>4, OrphansHelper
<1> QED  BY <1>1, <1>2, <1>3, <1>4 DEF Next

(* When the destructor has returned, every thread the pool ever created has finished: the    *)
(* ones that the helper took off the list too, but for those that another thread than the    *)
(* pool's had created.  This holds whatever AddTask() and the helper did before.             *)
THEOREM DestroyedCorrect == Spec => []DestroyedAlone
<1>1. Init => DestroyedInv
  BY DEF Init, DestroyedInv, OrphansKept, DestroyedAlone
<1>2. IInv /\ DestroyedInv /\ [Next]_vars => DestroyedInv'
  BY DestroyedStep DEF IInv
<1>3. DestroyedInv => DestroyedAlone
  BY DEF DestroyedInv
<1> QED  BY <1>1, <1>2, <1>3, Invariant, PTL DEF Spec

-----------------------------------------------------------------------------
(* What a task may be lost by.  While AddTask() has overlapped with nothing and no thread    *)
(* has looked again at a function it had run, and the pool is in use:                        *)

(* The function of w has yet to run.                                                         *)
Unrun(w) == m_pFunction[w] # Null /\ runs[m_pFunction[w]] = 0

Executing(statement, w) == \E c \in Callers : call[c].worker = w /\ call[c].at = statement

(* One AddTask() at a time, and none during a pass of the helper.                            *)
AddsAlone ==
    /\ \A c \in Callers : adding[c].at = "idle" => adding[c] = Idle
    /\ \A c, d \in Callers : adding[c].at # "idle" /\ adding[d].at # "idle" => c = d
    /\ InPass => \A c \in Callers : adding[c].at = "idle"

(* Functions are given to threads of the pool, and a thread about to be appended has none.   *)
GivenToCreated ==
    /\ \A i \in DOMAIN m_pThreadList : m_pThreadList[i] \in created
    /\ \A w \in Workers \ created : m_pFunction[w] = Null
    /\ \A c \in Callers : call[c].at \in Starting => call[c].worker \in created
    /\ \A c \in Callers : adding[c].at = "push" =>
         adding[c].worker \in created /\ m_pFunction[adding[c].worker] = Null

(* Each task is the function of one thread, and a new one has not run.                       *)
TasksApart ==
    /\ \A w \in Workers : m_pFunction[w] <= count
    /\ \A t \in Thread!Tasks : t > count => runs[t] = 0
    /\ \A v, w \in Workers : m_pFunction[v] = m_pFunction[w] => v = w \/ m_pFunction[v] = Null
    /\ \A c \in Callers : call[c].at = "function" =>
         /\ call[c].task \in 1..count /\ runs[call[c].task] = 0
         /\ \A w \in Workers : m_pFunction[w] # call[c].task

(* A thread whose function has yet to run says that it works, or is about to be made to; it  *)
(* is given a function only when it has run the one before and looks at none.                *)
BusyUntilRun == \A w \in Workers :
    /\ pc[w] \in {"mark", "call"} => Unrun(w)
    /\ pc[w] = "running" => m_pFunction[w] # Null /\ ~Unrun(w)
    /\ pc[w] \in {"call", "running"} => m_bWork[w]
    /\ Unrun(w) => m_bWork[w] \/ Executing("work", w)
    /\ Executing("function", w) => ~Unrun(w) /\ pc[w] \notin {"mark", "call", "running"}

Listed(c) == \A j \in DOMAIN adding[c].rest :
    \E i \in DOMAIN m_pThreadList : m_pThreadList[i] = adding[c].rest[j]

(* The threads counted so far all work, or one on the list does not; and when the count was  *)
(* below the length, one that does not work is still to be visited.                          *)
Counted(c) ==
    /\ adding[c].at \in {"size", "lock"} => adding[c].busy = 0
    /\ adding[c].at \in {"lock", "count"} => adding[c].size = Len(m_pThreadList)
    /\ adding[c].at \in {"count", "choose"} => Listed(c)
    /\ adding[c].at = "count" =>
         \/ adding[c].busy + Len(adding[c].rest) = adding[c].size
         \/ \E i \in DOMAIN m_pThreadList : ~m_bWork[m_pThreadList[i]]
    /\ adding[c].at = "choose" =>
         \E i \in DOMAIN adding[c].rest : ~m_bWork[adding[c].rest[i]]

InUse ==
    /\ AddsAlone /\ GivenToCreated /\ TasksApart /\ BusyUntilRun
    /\ \A c \in Callers : Counted(c)

(* And Stop() gives no function.                                                             *)
StopGivesNull == \A c \in Callers : call[c].at \in Stopping => call[c].task = Null

LossInv ==
    /\ StopGivesNull
    /\ ~raced => ~dropped /\ ~replaced /\ (pool = "used" => InUse)

(* A step of AddTask() that leaves the threads and the list alone.                           *)
LEMMA UsedQuiet ==
  ASSUME Inductive, InUse, NEW c \in Callers,
         UNCHANGED <<threadVars, helper, m_pThreadList>>, created \subseteq created',
         \A d \in Callers \ {c} : adding[d] = Idle /\ adding'[d] = adding[d],
         ~InPass,
         adding'[c].at = "idle" => adding'[c] = Idle,
         adding'[c].at = "push" =>
            adding'[c].worker \in created' /\ m_pFunction[adding'[c].worker] = Null,
         Counted(c)'
  PROVE  InUse'
<1>1. UNCHANGED <<m_bWork, m_pFunction, pc, call, count, runs>>
  BY DEF threadVars
<1>2. \A d \in Callers \ {c} : adding'[d].at = "idle" /\ adding'[d] = Idle
  BY DEF Idle
<1>3. AddsAlone'
  BY <1>2 DEF AddsAlone, InPass
<1>4. GivenToCreated'
  BY <1>1, <1>2 DEF InUse, GivenToCreated
<1>5. TasksApart'
  BY <1>1 DEF InUse, TasksApart
<1>6. BusyUntilRun'
  BY <1>1 DEF InUse, BusyUntilRun, Unrun, Executing
<1>7. \A d \in Callers : Counted(d)'
  BY <1>2 DEF Counted
<1> QED  BY <1>3, <1>4, <1>5, <1>6, <1>7 DEF InUse

(* The other callers, while one is in AddTask().                                             *)
LEMMA OthersIdle ==
  ASSUME InUse, NEW c \in Callers, adding[c].at # "idle"
  PROVE  ~InPass /\ \A d \in Callers \ {c} : adding[d] = Idle /\ adding[d].at = "idle"
  BY DEF InUse, AddsAlone, Idle

LEMMA UsedAddTask ==
  ASSUME Inductive, InUse, NEW c \in Callers, AddTask(c), ~raced'
  PROVE  InUse'
<1>1. adding \in [Callers -> AddingType] /\ adding[c].at = "idle" /\ adding[c] = Idle
  BY DEF Inductive, PoolTyped, AddingType, AddTask, At, InUse, AddsAlone
<1>2. adding' = [adding EXCEPT ![c].at = "size"] /\ AllIdle /\ ~InPass
      /\ UNCHANGED <<threadVars, helper, m_pThreadList, created>>
  BY DEF AddTask, listVars
<1>3. adding'[c].at = "size" /\ adding'[c].busy = 0
  BY <1>1, <1>2 DEF Idle
<1>4. \A d \in Callers \ {c} : adding[d] = Idle /\ adding'[d] = adding[d]
  BY <1>1, <1>2 DEF AllIdle
<1>5. Counted(c)'
  BY <1>3 DEF Counted
<1> QED  BY <1>2, <1>3, <1>4, <1>5, UsedQuiet

LEMMA UsedGetThreadCount ==
  ASSUME Inductive, InUse, NEW c \in Callers, GetThreadCount(c), UNCHANGED helper
  PROVE  InUse'
<1>1. adding \in [Callers -> AddingType] /\ adding[c].at \in {"size", "lock"}
      /\ adding[c] \in AddingType /\ m_pThreadList \in Seq(Workers)
      /\ UNCHANGED <<threadVars, m_pThreadList, created>>
  BY DEF Inductive, PoolTyped, AddingType, GetThreadCount, At, listVars
<1>2. ~InPass /\ \A d \in Callers \ {c} : adding[d] = Idle /\ adding'[d] = adding[d]
  BY <1>1, OthersIdle DEF GetThreadCount
<1>3. CASE adding[c].at = "size"
  <2>1. adding' = [adding EXCEPT ![c].at = "lock", ![c].size = Len(m_pThreadList)]
    BY <1>3 DEF GetThreadCount, At
  <2>2. adding'[c].at = "lock" /\ adding'[c].size = Len(m_pThreadList) /\ adding'[c].busy = 0
    BY <1>1, <1>3, <2>1 DEF AddingType, InUse, Counted
  <2>3. Counted(c)'
    BY <1>1, <2>2 DEF Counted
  <2> QED  BY <1>1, <1>2, <2>2, <2>3, UsedQuiet
<1>4. CASE adding[c].at = "lock"
  <2>1. adding' = [adding EXCEPT ![c].at = "count", ![c].rest = m_pThreadList]
    BY <1>4 DEF GetThreadCount, At
  <2>2. /\ adding'[c].at = "count" /\ adding'[c].size = Len(m_pThreadList)
        /\ adding'[c].busy = 0 /\ adding'[c].rest = m_pThreadList
    BY <1>1, <1>4, <2>1 DEF AddingType, InUse, Counted
  <2>3. Listed(c)'
    BY <1>1, <2>2 DEF Listed
  <2>4. adding'[c].busy + Len(adding'[c].rest) = adding'[c].size
    BY <1>1, <2>2
  <2>5. Counted(c)'
    BY <1>1, <2>2, <2>3, <2>4 DEF Counted
  <2> QED  BY <1>1, <1>2, <2>2, <2>5, UsedQuiet
<1> QED  BY <1>1, <1>3, <1>4

LEMMA UsedGetThreadWorkCount ==
  ASSUME Inductive, InUse, NEW c \in Callers, GetThreadWorkCount(c), UNCHANGED helper
  PROVE  InUse'
<1> DEFINE rest == adding[c].rest
           busy == adding[c].busy
<1>1. /\ adding \in [Callers -> AddingType] /\ adding[c].at = "count"
      /\ adding[c] \in AddingType /\ m_pThreadList \in Seq(Workers)
      /\ rest \in Seq(Workers) /\ busy \in Nat
      /\ UNCHANGED <<threadVars, m_pThreadList, created, m_bWork>>
  BY DEF Inductive, PoolTyped, AddingType, GetThreadWorkCount, At, threadVars, listVars
<1>2. ~InPass /\ \A d \in Callers \ {c} : adding[d] = Idle /\ adding'[d] = adding[d]
  BY <1>1, OthersIdle DEF GetThreadWorkCount
<1>3. /\ adding[c].size = Len(m_pThreadList) /\ Listed(c)
      /\ \/ busy + Len(rest) = adding[c].size
         \/ \E i \in DOMAIN m_pThreadList : ~m_bWork[m_pThreadList[i]]
  BY <1>1 DEF InUse, Counted
<1>4. CASE rest # <<>>
  <2>1. adding' = [adding EXCEPT ![c].rest = Tail(rest),
                                 ![c].busy = IF m_bWork[Head(rest)] THEN busy + 1 ELSE busy]
    BY <1>4 DEF GetThreadWorkCount
  <2>2. /\ adding'[c].at = "count" /\ adding'[c].size = Len(m_pThreadList)
        /\ adding'[c].rest = Tail(rest)
        /\ adding'[c].busy = IF m_bWork[Head(rest)] THEN busy + 1 ELSE busy
    BY <1>1, <1>3, <2>1 DEF AddingType
  <2>3. /\ Len(Tail(rest)) = Len(rest) - 1 /\ DOMAIN Tail(rest) = 1..(Len(rest) - 1)
        /\ \A j \in 1..(Len(rest) - 1) : Tail(rest)[j] = rest[j + 1] /\ j + 1 \in DOMAIN rest
        /\ Head(rest) = rest[1] /\ 1 \in DOMAIN rest /\ Len(rest) \in Nat
    BY <1>1, <1>4
  <2>4. Listed(c)'
    BY <1>1, <1>3, <2>2, <2>3 DEF Listed
  <2>5. CASE m_bWork[Head(rest)]
    <3>1. \/ adding'[c].busy + Len(adding'[c].rest) = adding'[c].size
          \/ \E i \in DOMAIN m_pThreadList : ~m_bWork[m_pThreadList[i]]
      BY <1>1, <1>3, <2>2, <2>3, <2>5
    <3>2. Counted(c)'
      BY <1>1, <2>2, <2>4, <3>1 DEF Counted
    <3> QED  BY <1>1, <1>2, <2>2, <3>2, UsedQuiet
  <2>6. CASE ~m_bWork[Head(rest)]
    <3>1. \E i \in DOMAIN m_pThreadList : ~m_bWork[m_pThreadList[i]]
      BY <1>3, <2>3, <2>6 DEF Listed
    <3>2. Counted(c)'
      BY <1>1, <2>2, <2>4, <3>1 DEF Counted
    <3> QED  BY <1>1, <1>2, <2>2, <3>2, UsedQuiet
  <2> QED  BY <2>5, <2>6
<1>5. CASE rest = <<>>
  <2>1. adding' = [adding EXCEPT ![c].at = IF Saturated(c) THEN "create" ELSE "choose",
                                 ![c].rest = m_pThreadList]
    BY <1>5 DEF GetThreadWorkCount
  <2>2. /\ adding'[c].at = IF Saturated(c) THEN "create" ELSE "choose"
        /\ adding'[c].rest = m_pThreadList
    BY <1>1, <2>1 DEF AddingType
  <2>3. ~Saturated(c) => \E i \in DOMAIN m_pThreadList : ~m_bWork[m_pThreadList[i]]
    BY <1>1, <1>3, <1>5 DEF Saturated
  <2>4. Listed(c)'
    BY <1>1, <2>2 DEF Listed
  <2>5. Counted(c)'
    BY <1>1, <2>2, <2>3, <2>4 DEF Counted
  <2> QED  BY <1>1, <1>2, <2>2, <2>5, UsedQuiet
<1> QED  BY <1>4, <1>5

LEMMA UsedCreates ==
  ASSUME Inductive, InUse, NEW c \in Callers, Creates(c), UNCHANGED helper
  PROVE  InUse'
<1>1. /\ adding \in [Callers -> AddingType] /\ adding[c].at = "create"
      /\ UNCHANGED <<threadVars, m_pThreadList>>
  BY DEF Inductive, PoolTyped, AddingType, Creates, At
<1>2. PICK w \in Workers : /\ created = 1..(w - 1) /\ created' = created \cup {w}
                           /\ adding' = [adding EXCEPT ![c].at = "push", ![c].worker = w]
  BY DEF Creates
<1>3. ~InPass /\ \A d \in Callers \ {c} : adding[d] = Idle /\ adding'[d] = adding[d]
  BY <1>1, <1>2, OthersIdle
<1>4. adding'[c].at = "push" /\ adding'[c].worker = w
  BY <1>1, <1>2 DEF AddingType
<1>5. m_pFunction[w] = Null
  <2>1. w \notin created
    BY <1>2 DEF Workers
  <2> QED  BY <2>1 DEF InUse, GivenToCreated
<1>6. Counted(c)'
  BY <1>4 DEF Counted
<1> QED  BY <1>1, <1>2, <1>3, <1>4, <1>5, <1>6, UsedQuiet

LEMMA UsedReturns ==
  ASSUME Inductive, InUse, NEW c \in Callers, Returns(c), UNCHANGED helper
  PROVE  InUse'
<1>1. /\ adding \in [Callers -> AddingType] /\ adding[c].at = "start"
      /\ adding' = [adding EXCEPT ![c] = Idle]
      /\ UNCHANGED <<threadVars, m_pThreadList, created>>
  BY DEF Inductive, PoolTyped, AddingType, Returns, At, listVars
<1>2. ~InPass /\ \A d \in Callers \ {c} : adding[d] = Idle /\ adding'[d] = adding[d]
  BY <1>1, OthersIdle
<1>3. adding'[c] = Idle /\ adding'[c].at = "idle"
  BY <1>1 DEF Idle
<1>4. Counted(c)'
  BY <1>3 DEF Counted
<1> QED  BY <1>1, <1>2, <1>3, <1>4, UsedQuiet

(* While one is in AddTask(), and not yet in Start(), nobody calls Start() or Stop().        *)
LEMMA CallsQuiet ==
  ASSUME Inductive, InUse, NEW c \in Callers, adding[c].at \in {"push", "choose"},
         call[c].at = "idle"
  PROVE  \A d \in Callers : call[d].at = "idle"
<1>1. \A d \in Callers : call[d].at \in Thread!Statements
  BY DEF Inductive, Thread!TypeOK
<1>2. \A d \in Callers : adding[d].at \notin {"start", "stopping"}
  BY OthersIdle
<1> QED  BY <1>1, <1>2 DEF Inductive, CallsKnown, Starting, Stopping, Thread!Statements

(* Start() is called of a thread of the pool that has no function yet to run.                *)
LEMMA UsedStart ==
  ASSUME Inductive, InUse, NEW c \in Callers, NEW w \in created, Thread!Start(c, w),
         adding[c].at \in {"push", "choose"},
         adding' = [adding EXCEPT ![c].at = "start"],
         ~Unrun(w), pc[w] \notin {"mark", "call", "running"},
         \A i \in DOMAIN m_pThreadList' : m_pThreadList'[i] \in created,
         UNCHANGED <<helper, created>>
  PROVE  InUse'
<1>1. /\ call \in [Callers -> CallType] /\ adding \in [Callers -> AddingType]
      /\ count \in Nat /\ created \subseteq Workers /\ runs \in [Thread!Tasks -> Nat]
      /\ m_pFunction \in [Workers -> Thread!Tasks \cup {Thread!Null}]
  BY PoolAssumption DEF Inductive, Thread!TypeOK, PoolTyped, CallType, AddingType
<1>2. ~InPass /\ \A d \in Callers \ {c} : adding[d] = Idle /\ adding[d].at = "idle"
  BY OthersIdle
<1>3. \A d \in Callers : call[d].at = "idle"
  BY CallsQuiet DEF Thread!Start, Thread!At
<1>4. /\ adding'[c].at = "start" /\ \A d \in Callers \ {c} : adding'[d] = adding[d]
  BY <1>1 DEF AddingType
<1>5. /\ call'[c] = [at |-> "function", worker |-> w, task |-> count + 1]
      /\ \A d \in Callers \ {c} : call'[d].at = "idle"
      /\ count' = count + 1 /\ count < MaxTasks
  BY <1>1, <1>3 DEF Thread!Start
<1>6. UNCHANGED <<m_bWork, m_pFunction, pc, runs>>
  BY DEF Thread!Start, Thread!workerVars
<1>7. AddsAlone'
  BY <1>2, <1>4 DEF AddsAlone, InPass
<1>8. GivenToCreated'
  <2>1. \A d \in Callers : call'[d].at \in Starting => call'[d].worker \in created
    BY <1>5 DEF Starting
  <2>2. \A d \in Callers : adding'[d].at # "push"
    BY <1>2, <1>4
  <2> QED  BY <1>6, <2>1, <2>2 DEF InUse, GivenToCreated
<1>9. TasksApart'
  <2>1. TasksApart
    BY DEF InUse
  <2>2. \A v \in Workers : m_pFunction[v] \in Nat /\ m_pFunction[v] <= count
    BY <1>1, <2>1 DEF TasksApart, Thread!Tasks, Thread!Null
  <2>3. \A v \in Workers : m_pFunction'[v] <= count' /\ m_pFunction'[v] # count + 1
    BY <1>1, <1>5, <1>6, <2>2
  <2>4. count + 1 \in Thread!Tasks
    BY <1>1, <1>5, PoolAssumption DEF Thread!Tasks
  <2>5. runs[count + 1] = 0
    BY <1>1, <2>1, <2>4 DEF TasksApart
  <2>6. \A t \in Thread!Tasks : t > count' => runs'[t] = 0
    BY <1>1, <1>5, <1>6, <2>1 DEF TasksApart, Thread!Tasks
  <2>7. \A d \in Callers : call'[d].at = "function" => call'[d].task = count + 1
    BY <1>5
  <2>8. count + 1 \in 1..count'
    BY <1>1, <1>5
  <2> QED  BY <1>6, <2>1, <2>3, <2>5, <2>6, <2>7, <2>8 DEF TasksApart
<1>10. BusyUntilRun'
  <2>1. \A v \in Workers : ~Executing("work", v) /\ ~Executing("work", v)'
    BY <1>3, <1>5 DEF Executing
  <2>2. \A v \in Workers : Executing("function", v)' => v = w
    BY <1>5 DEF Executing
  <2>3. \A v \in Workers : Unrun(v)' <=> Unrun(v)
    BY <1>6 DEF Unrun
  <2> QED  BY <1>6, <2>1, <2>2, <2>3 DEF InUse, BusyUntilRun
<1>11. \A d \in Callers : Counted(d)'
  BY <1>2, <1>4 DEF Counted
<1> QED  BY <1>7, <1>8, <1>9, <1>10, <1>11 DEF InUse

LEMMA UsedPushes ==
  ASSUME Inductive, InUse, NEW c \in Callers, Pushes(c), UNCHANGED helper
  PROVE  InUse'
<1> DEFINE w == adding[c].worker
<1>1. /\ adding[c].at = "push" /\ w \in created /\ m_pFunction[w] = Null
      /\ created \subseteq Workers /\ m_pThreadList \in Seq(Workers)
  BY DEF Pushes, At, InUse, GivenToCreated, Inductive, PoolTyped
<1>2. ~Unrun(w) /\ pc[w] \notin {"mark", "call", "running"}
  BY <1>1 DEF InUse, BusyUntilRun, Unrun
<1>3. \A i \in DOMAIN m_pThreadList' : m_pThreadList'[i] \in created
  <2>1. /\ m_pThreadList' = Append(m_pThreadList, w)
        /\ \A i \in DOMAIN m_pThreadList : m_pThreadList[i] \in created
    BY DEF Pushes, InUse, GivenToCreated
  <2>2. \A i \in DOMAIN m_pThreadList' :
          \/ m_pThreadList'[i] = w
          \/ i \in DOMAIN m_pThreadList /\ m_pThreadList'[i] = m_pThreadList[i]
    <3>1. /\ DOMAIN m_pThreadList = 1..Len(m_pThreadList)
          /\ DOMAIN m_pThreadList' = 1..(Len(m_pThreadList) + 1)
          /\ \A i \in 1..(Len(m_pThreadList) + 1) : m_pThreadList'[i] =
                IF i <= Len(m_pThreadList) THEN m_pThreadList[i] ELSE w
      BY <1>1, <2>1
    <3>2. Len(m_pThreadList) \in Nat
      BY <1>1
    <3> QED  BY <3>1, <3>2
  <2> QED  BY <1>1, <2>1, <2>2
<1> QED  BY <1>1, <1>2, <1>3, UsedStart DEF Pushes

(* AddTask() finds the thread it has counted idle, and so drops nothing.                     *)
LEMMA UsedChooses ==
  ASSUME Inductive, InUse, NEW c \in Callers, Chooses(c), UNCHANGED helper
  PROVE  InUse' /\ dropped' = dropped
<1> DEFINE rest == adding[c].rest
<1>1. /\ adding \in [Callers -> AddingType] /\ adding[c] \in AddingType
      /\ adding[c].at = "choose" /\ rest \in Seq(Workers)
      /\ UNCHANGED <<m_pThreadList, created>> /\ created \subseteq Workers
  BY DEF Inductive, PoolTyped, AddingType, Chooses, At, listVars
<1>2. ~InPass /\ \A d \in Callers \ {c} : adding[d] = Idle
  BY <1>1, OthersIdle
<1>3. Listed(c) /\ \E i \in DOMAIN rest : ~m_bWork[rest[i]]
  BY <1>1 DEF InUse, Counted
<1>4. /\ rest # <<>> /\ Head(rest) = rest[1] /\ 1 \in DOMAIN rest
      /\ Len(Tail(rest)) = Len(rest) - 1 /\ DOMAIN Tail(rest) = 1..(Len(rest) - 1)
      /\ \A j \in 1..(Len(rest) - 1) : Tail(rest)[j] = rest[j + 1] /\ j + 1 \in DOMAIN rest
      /\ DOMAIN rest = 1..Len(rest) /\ Len(rest) \in Nat
  <2>1. rest # <<>>
    BY <1>3
  <2> QED  BY <1>1, <2>1
<1>5. CASE m_bWork[Head(rest)]
  <2>1. adding' = [adding EXCEPT ![c].rest = Tail(rest)] /\ UNCHANGED <<threadVars, dropped>>
    BY <1>4, <1>5 DEF Chooses
  <2>2. /\ adding'[c].at = "choose" /\ adding'[c].rest = Tail(rest)
        /\ \A d \in Callers \ {c} : adding'[d] = adding[d]
    BY <1>1, <2>1 DEF AddingType
  <2>3. m_bWork' = m_bWork
    BY <2>1 DEF threadVars
  <2>4. Listed(c)'
    BY <1>1, <1>3, <1>4, <2>2 DEF Listed
  <2>5. \E j \in DOMAIN Tail(rest) : ~m_bWork[Tail(rest)[j]]
    <3>1. PICK i \in DOMAIN rest : ~m_bWork[rest[i]]
      BY <1>3
    <3>2. i # 1
      BY <1>4, <1>5, <3>1
    <3>3. i - 1 \in 1..(Len(rest) - 1) /\ (i - 1) + 1 = i
      BY <1>4, <3>2
    <3>4. Tail(rest)[i - 1] = rest[i]
      BY <1>4, <3>3
    <3> QED  BY <1>4, <3>1, <3>3, <3>4
  <2>6. Counted(c)'
    BY <2>2, <2>3, <2>4, <2>5 DEF Counted
  <2> QED  BY <1>1, <1>2, <2>1, <2>2, <2>6, UsedQuiet
<1>6. CASE ~m_bWork[Head(rest)]
  <2> DEFINE w == Head(rest)
  <2>1. adding' = [adding EXCEPT ![c].at = "start"] /\ Thread!Start(c, w) /\ UNCHANGED dropped
    BY <1>4, <1>6 DEF Chooses
  <2>2. w \in created
    BY <1>3, <1>4 DEF Listed, InUse, GivenToCreated
  <2>3. \A d \in Callers : call[d].at = "idle"
    BY <1>1, <2>1, CallsQuiet DEF Thread!Start, Thread!At
  <2>4. ~Unrun(w) /\ pc[w] \notin {"mark", "call", "running"}
    <3>1. ~Executing("work", w) /\ w \in Workers
      BY <1>1, <2>2, <2>3 DEF Executing
    <3> QED  BY <1>6, <3>1 DEF InUse, BusyUntilRun
  <2>5. \A i \in DOMAIN m_pThreadList' : m_pThreadList'[i] \in created
    BY <1>1 DEF InUse, GivenToCreated
  <2> QED  BY <1>1, <2>1, <2>2, <2>4, <2>5, UsedStart
<1> QED  BY <1>5, <1>6

(* A statement of Start(), while the pool is in use.                                         *)
LEMMA UsedCaller ==
  ASSUME Inductive, InUse, pool = "used", NEW c \in Callers, CallerStatement(c)
  PROVE  InUse' /\ \A v \in Workers : ~Overwrites(v)
<1> DEFINE w == call[c].worker
           t == call[c].task
<1>1. /\ call \in [Callers -> CallType] /\ UNCHANGED poolVars /\ Thread!CallerStatement(c)
      /\ adding \in [Callers -> AddingType] /\ call[c] \in CallType
      /\ m_pFunction \in [Workers -> Thread!Tasks \cup {Thread!Null}]
      /\ m_bWork \in [Workers -> BOOLEAN] /\ created \subseteq Workers
      /\ pc \in [Workers -> Thread!Awake \cup {"parked", "finished"}]
  BY DEF Inductive, Thread!TypeOK, CallType, CallerStatement, PoolTyped, AddingType
<1>2. call[c].at \in Starting
  <2>1. call[c].at # "idle"
    BY <1>1 DEF Thread!CallerStatement, Thread!Assigns, Thread!SetsFunction, Thread!SetsWork,
        Thread!StopClearsStart, Thread!NotifiesOne, Thread!NotifiesStart, Thread!NotifiesStop,
        Thread!Waits, Thread!At
  <2>2. call[c].at \notin Stopping
    BY DEF Inductive, CallsKnown, OwnerAlone
  <2> QED  BY <1>1, <2>1, <2>2 DEF CallType, Thread!Statements, Starting, Stopping
<1>3. adding[c].at = "start" /\ w \in created /\ w \in Workers
  BY <1>1, <1>2 DEF Inductive, CallsKnown, InUse, GivenToCreated
<1>4. \A d \in Callers \ {c} : adding[d].at = "idle" /\ call[d].at = "idle"
  <2>1. \A d \in Callers \ {c} : adding[d].at = "idle"
    BY <1>3, OthersIdle
  <2> QED  BY <1>1, <2>1 DEF Inductive, CallsKnown, CallType, Thread!Statements, Starting, Stopping
<1>5. UNCHANGED <<m_pThreadList, created, adding, helper, pool>>
  BY <1>1 DEF poolVars, listVars
<1>6. AddsAlone' /\ \A d \in Callers : Counted(d)'
  BY <1>3, <1>4, <1>5 DEF InUse, AddsAlone, InPass, Counted
<1>7. \A s \in {"work", "notify"} : Thread!Goes(c, s) =>
        /\ call'[c].at = s /\ call'[c].worker = w
        /\ \A d \in Callers \ {c} : call'[d] = call[d]
  BY <1>1 DEF Thread!Goes, CallType
<1>8. CASE call[c].at = "function"
  <2>1. /\ Thread!Goes(c, "work") /\ m_pFunction' = [m_pFunction EXCEPT ![w] = t]
        /\ UNCHANGED <<m_bWork, pc, count, runs>>
    BY <1>1, <1>8 DEF Thread!CallerStatement, Thread!Assigns, Thread!SetsFunction, Thread!SetsWork,
        Thread!StopClearsStart, Thread!NotifiesOne, Thread!NotifiesStart, Thread!NotifiesStop,
        Thread!Waits, Thread!At
  <2>2. /\ call'[c].at = "work" /\ call'[c].worker = w
        /\ \A d \in Callers \ {c} : call'[d].at = "idle"
    BY <1>4, <1>7, <2>1
  <2>3. /\ t \in 1..count /\ runs[t] = 0 /\ \A v \in Workers : m_pFunction[v] # t
    BY <1>8 DEF InUse, TasksApart
  <2>4. m_pFunction'[w] = t /\ \A v \in Workers \ {w} : m_pFunction'[v] = m_pFunction[v]
    BY <1>1, <1>3, <2>1
  <2>5. ~Unrun(w) /\ pc[w] \notin {"mark", "call", "running"}
    BY <1>3, <1>8 DEF InUse, BusyUntilRun, Executing
  <2>6. GivenToCreated'
    <3>1. \A d \in Callers : call'[d].at \in Starting => call'[d].worker \in created
      BY <1>3, <2>2 DEF Starting
    <3>2. \A d \in Callers : adding'[d].at # "push"
      BY <1>3, <1>4, <1>5
    <3>3. \A v \in Workers \ created : m_pFunction'[v] = Null
      BY <1>3, <2>4 DEF InUse, GivenToCreated
    <3> QED  BY <1>5, <3>1, <3>2, <3>3 DEF InUse, GivenToCreated
  <2>7. TasksApart'
    <3>1. \A v \in Workers : m_pFunction'[v] <= count'
      BY <2>1, <2>3, <2>4 DEF InUse, TasksApart
    <3>2. \A u, v \in Workers :
            m_pFunction'[u] = m_pFunction'[v] => u = v \/ m_pFunction'[u] = Null
      BY <2>3, <2>4 DEF InUse, TasksApart
    <3>3. \A d \in Callers : call'[d].at # "function"
      BY <2>2
    <3> QED  BY <2>1, <3>1, <3>2, <3>3 DEF InUse, TasksApart
  <2>8. BusyUntilRun'
    <3>1. \A v \in Workers : ~Executing("work", v) /\ ~Executing("function", v)'
      BY <1>4, <1>8, <2>2 DEF Executing
    <3>2. \A v \in Workers : v = w => Executing("work", v)'
      BY <2>2 DEF Executing
    <3>3. \A v \in Workers \ {w} : Unrun(v)' <=> Unrun(v)
      BY <2>1, <2>4 DEF Unrun
    <3>4. \A v \in Workers \ {w} :
            /\ pc'[v] \in {"mark", "call"} => Unrun(v)'
            /\ pc'[v] = "running" => m_pFunction'[v] # Null /\ ~Unrun(v)'
            /\ pc'[v] \in {"call", "running"} => m_bWork'[v]
            /\ Unrun(v)' => m_bWork'[v]
      <4> SUFFICES ASSUME NEW v \in Workers \ {w}
                   PROVE  /\ pc'[v] \in {"mark", "call"} => Unrun(v)'
                          /\ pc'[v] = "running" => m_pFunction'[v] # Null /\ ~Unrun(v)'
                          /\ pc'[v] \in {"call", "running"} => m_bWork'[v]
                          /\ Unrun(v)' => m_bWork'[v]
        OBVIOUS
      <4>1. pc'[v] = pc[v] /\ m_bWork'[v] = m_bWork[v] /\ m_pFunction'[v] = m_pFunction[v]
        BY <2>1, <2>4
      <4>2. Unrun(v) => m_bWork[v]
        BY <3>1 DEF InUse, BusyUntilRun
      <4> QED  BY <3>3, <4>1, <4>2 DEF InUse, BusyUntilRun
    <3>5. pc'[w] \notin {"mark", "call", "running"}
      BY <2>1, <2>5
    <3>6. \A v \in Workers : Unrun(v)' => m_bWork'[v] \/ Executing("work", v)'
      BY <3>2, <3>4
    <3>7. \A v \in Workers : /\ pc'[v] \in {"mark", "call"} => Unrun(v)'
                             /\ pc'[v] = "running" => m_pFunction'[v] # Null /\ ~Unrun(v)'
                             /\ pc'[v] \in {"call", "running"} => m_bWork'[v]
      BY <3>4, <3>5
    <3> QED  BY <3>1, <3>6, <3>7 DEF BusyUntilRun
  <2>9. \A v \in Workers : ~Overwrites(v)
    BY <2>4, <2>5 DEF Overwrites, Unrun
  <2> QED  BY <1>6, <2>6, <2>7, <2>8, <2>9 DEF InUse
<1>9. CASE call[c].at \in {"work", "notify"}
  <2>1. /\ UNCHANGED <<m_pFunction, count, runs>>
        /\ \/ /\ call[c].at = "work" /\ Thread!Goes(c, "notify") /\ pc' = pc
              /\ m_bWork' = [m_bWork EXCEPT ![w] = TRUE]
           \/ /\ call[c].at = "notify" /\ Thread!Returns(c) /\ m_bWork' = m_bWork
              /\ pc' = IF pc[w] = "parked" THEN [pc EXCEPT ![w] = "loop"] ELSE pc
    BY <1>1, <1>9 DEF Thread!CallerStatement, Thread!Assigns, Thread!SetsFunction, Thread!SetsWork,
        Thread!StopClearsStart, Thread!NotifiesOne, Thread!NotifiesStart, Thread!NotifiesStop,
        Thread!Notifies, Thread!Waits, Thread!At, Thread!workerVars
  <2>2. /\ call'[c].at \in {"notify", "idle"} /\ (call'[c].at = "notify" => call'[c].worker = w)
        /\ \A d \in Callers \ {c} : call'[d].at = "idle"
    BY <1>1, <1>4, <1>7, <2>1 DEF Thread!Returns, Thread!Idle
  <2>3. GivenToCreated'
    BY <1>3, <1>5, <2>1, <2>2 DEF InUse, GivenToCreated, Starting
  <2>4. TasksApart'
    BY <2>1, <2>2 DEF InUse, TasksApart
  <2>5. BusyUntilRun'
    <3>1. \A v \in Workers : ~Executing("work", v)' /\ ~Executing("function", v)'
      BY <2>2 DEF Executing
    <3>2. \A v \in Workers : Unrun(v)' <=> Unrun(v)
      BY <2>1 DEF Unrun
    <3>3. \A v \in Workers : /\ pc'[v] \in {"mark", "call", "running"} => pc'[v] = pc[v]
                             /\ m_bWork[v] => m_bWork'[v]
      BY <1>1, <1>3, <2>1
    <3>4. \A v \in Workers : Unrun(v) => m_bWork'[v]
      <4>1. \A v \in Workers : Executing("work", v) => call[c].at = "work" /\ v = w
        BY <1>4 DEF Executing
      <4>2. call[c].at = "work" => m_bWork'[w]
        BY <1>1, <1>3, <2>1
      <4> QED  BY <3>3, <4>1, <4>2 DEF InUse, BusyUntilRun
    <3>5. \A v \in Workers :
            /\ pc'[v] \in {"mark", "call"} => Unrun(v)'
            /\ pc'[v] = "running" => m_pFunction'[v] # Null /\ ~Unrun(v)'
            /\ pc'[v] \in {"call", "running"} => m_bWork'[v]
      <4> SUFFICES ASSUME NEW v \in Workers, pc'[v] \in {"mark", "call", "running"}
                   PROVE  /\ pc'[v] \in {"mark", "call"} => Unrun(v)'
                          /\ pc'[v] = "running" => m_pFunction'[v] # Null /\ ~Unrun(v)'
                          /\ pc'[v] \in {"call", "running"} => m_bWork'[v]
        OBVIOUS
      <4>1. pc'[v] = pc[v] /\ m_pFunction'[v] = m_pFunction[v]
        BY <2>1, <3>3
      <4> QED  BY <3>2, <3>3, <4>1 DEF InUse, BusyUntilRun
    <3> QED  BY <3>1, <3>2, <3>4, <3>5 DEF BusyUntilRun
  <2>6. \A v \in Workers : ~Overwrites(v)
    BY <2>1 DEF Overwrites
  <2> QED  BY <1>6, <2>3, <2>4, <2>5, <2>6 DEF InUse
<1> QED  BY <1>2, <1>8, <1>9 DEF Starting

(* A step of run(): a thread that did not say it worked does so only to run what it was      *)
(* given.                                                                                    *)
LEMMA UsedWorker ==
  ASSUME Inductive, InUse, NEW w \in Workers, WorkerStep(w), ~raced'
  PROVE  InUse'
<1>1. /\ Thread!Run(w) /\ pc \in [Workers -> Thread!Awake \cup {"parked", "finished"}]
      /\ m_bWork \in [Workers -> BOOLEAN] /\ runs \in [Thread!Tasks -> Nat]
      /\ m_pFunction \in [Workers -> Thread!Tasks \cup {Thread!Null}]
      /\ UNCHANGED <<m_pThreadList, created, adding, helper>>
  BY DEF WorkerStep, Inductive, Thread!TypeOK, listVars
<1>2. UNCHANGED <<m_pFunction, call, count>>
  BY <1>1 DEF Thread!Run, Thread!Moves, Thread!Marks, Thread!CallsFunction, Thread!workerVars
<1>3. ~Again(w)
  BY DEF WorkerStep
<1>4. AddsAlone' /\ GivenToCreated'
  BY <1>1, <1>2 DEF InUse, AddsAlone, InPass, GivenToCreated
<1>5. \A v \in Workers \ {w} : pc'[v] = pc[v] /\ m_bWork'[v] = m_bWork[v]
  <2>1. \A v \in Workers \ {w} : pc'[v] = pc[v]
    <3>1. \E to : pc' = [pc EXCEPT ![w] = to]
      BY <1>1 DEF Thread!Run, Thread!Moves, Thread!Marks, Thread!Parks, Thread!CallsFunction,
          Thread!Reaches
    <3> QED  BY <1>1, <3>1
  <2>2. m_bWork' = m_bWork \/ \E b \in BOOLEAN : m_bWork' = [m_bWork EXCEPT ![w] = b]
    BY <1>1 DEF Thread!Run, Thread!Moves, Thread!Marks, Thread!CallsFunction, Thread!workerVars
  <2> QED  BY <1>1, <2>1, <2>2
<1>6. \/ /\ pc[w] \in {"loop", "test", "park"} /\ pc'[w] \notin {"call", "running"}
         /\ UNCHANGED <<m_bWork, runs>>
         /\ pc'[w] = "mark" => m_pFunction[w] # Null
      \/ pc[w] = "mark" /\ pc'[w] = "call" /\ m_bWork'[w] /\ UNCHANGED runs
      \/ pc[w] = "running" /\ pc'[w] = "park" /\ UNCHANGED runs
      \/ /\ pc[w] = "call" /\ pc'[w] = "running" /\ UNCHANGED m_bWork
         /\ runs' = [t \in Thread!Tasks |-> IF t = m_pFunction[w] THEN runs[t] + 1 ELSE runs[t]]
  <2>1. CASE Thread!Moves(w)
    BY <1>1, <2>1 DEF Thread!Moves, Thread!Parks, Thread!Reaches, Thread!workerVars, Thread!Null,
        Null
  <2>2. CASE Thread!Marks(w) /\ UNCHANGED runs
    BY <1>1, <2>2 DEF Thread!Marks, Thread!Reaches
  <2>3. CASE Thread!CallsFunction(w)
    BY <1>1, <2>3 DEF Thread!CallsFunction, Thread!Reaches, Thread!workerVars
  <2> QED  BY <1>1, <2>1, <2>2, <2>3 DEF Thread!Run
<1>7. pc'[w] = "mark" => Unrun(w)
  <2>1. pc'[w] = "mark" => m_pFunction[w] # Null
    BY <1>6
  <2>2. m_pFunction[w] # Null => runs[m_pFunction[w]] \in Nat
    BY <1>1 DEF Thread!Null, Null
  <2> QED  BY <1>3, <2>1, <2>2 DEF Again, Unrun
<1>8. /\ \A t \in Thread!Tasks : t # m_pFunction[w] => runs'[t] = runs[t]
      /\ pc[w] # "call" => runs' = runs
      /\ pc[w] = "call" => m_pFunction[w] # Null /\ runs'[m_pFunction[w]] # 0
  <2>1. pc[w] = "call" => m_pFunction[w] \in Thread!Tasks /\ m_pFunction[w] # Null
    BY <1>1 DEF InUse, BusyUntilRun, Unrun, Thread!Null, Null
  <2>2. pc[w] = "call" => runs'[m_pFunction[w]] = runs[m_pFunction[w]] + 1
    BY <1>6, <2>1
  <2>3. pc[w] = "call" => runs[m_pFunction[w]] \in Nat
    BY <1>1, <2>1
  <2> QED  BY <1>6, <2>1, <2>2, <2>3
<1>9. TasksApart'
  <2>1. \A t \in Thread!Tasks : t > count => runs'[t] = 0
    <3>1. \A t \in Thread!Tasks : t > count => t # m_pFunction[w]
      BY DEF InUse, TasksApart, Inductive, Thread!TypeOK, Thread!Tasks
    <3> QED  BY <1>8, <3>1 DEF InUse, TasksApart
  <2>2. \A c \in Callers : call[c].at = "function" => runs'[call[c].task] = 0
    <3> SUFFICES ASSUME NEW c \in Callers, call[c].at = "function" PROVE runs'[call[c].task] = 0
      OBVIOUS
    <3>1. /\ call[c].task \in 1..count /\ runs[call[c].task] = 0
          /\ m_pFunction[w] # call[c].task
      BY DEF InUse, TasksApart
    <3>2. call[c].task \in Thread!Tasks
      BY <3>1, PoolAssumption DEF Inductive, Thread!TypeOK, Thread!Tasks
    <3> QED  BY <1>8, <3>1, <3>2
  <2> QED  BY <1>2, <2>1, <2>2 DEF InUse, TasksApart
<1>10. /\ \A v \in Workers \ {w} : Unrun(v)' <=> Unrun(v)
       /\ Unrun(w)' => Unrun(w)
       /\ pc[w] # "call" => (Unrun(w)' <=> Unrun(w))
       /\ pc[w] = "call" => ~Unrun(w)'
  <2>1. \A v \in Workers \ {w} : m_pFunction[v] # Null => m_pFunction[v] # m_pFunction[w]
    BY DEF InUse, TasksApart
  <2>2. \A v \in Workers \ {w} :
          m_pFunction[v] # Null => runs'[m_pFunction[v]] = runs[m_pFunction[v]]
    BY <1>1, <1>8, <2>1 DEF Thread!Null, Null
  <2> QED  BY <1>2, <1>8, <2>2 DEF Unrun
<1>11. \A s, v : Executing(s, v)' <=> Executing(s, v)
  BY <1>2 DEF Executing
<1>12. BusyUntilRun'
  <2>1. BusyUntilRun
    BY DEF InUse
  <2>2. \A v \in Workers \ {w} :
          /\ pc'[v] \in {"mark", "call"} => Unrun(v)'
          /\ pc'[v] = "running" => m_pFunction'[v] # Null /\ ~Unrun(v)'
          /\ pc'[v] \in {"call", "running"} => m_bWork'[v]
          /\ Unrun(v)' => m_bWork'[v] \/ Executing("work", v)'
          /\ Executing("function", v)' => ~Unrun(v)' /\ pc'[v] \notin {"mark", "call", "running"}
    BY <1>2, <1>5, <1>10, <1>11, <2>1 DEF BusyUntilRun
  <2>3. pc'[w] \in {"mark", "call"} => Unrun(w)'
    BY <1>6, <1>7, <1>10, <2>1 DEF BusyUntilRun
  <2>4. pc'[w] = "running" => m_pFunction'[w] # Null /\ ~Unrun(w)'
    BY <1>2, <1>6, <1>8, <1>10
  <2>5. pc'[w] \in {"call", "running"} => m_bWork'[w]
    BY <1>6, <2>1 DEF BusyUntilRun
  <2>6. Unrun(w)' => m_bWork'[w] \/ Executing("work", w)'
    BY <1>6, <1>10, <1>11, <2>1 DEF BusyUntilRun
  <2>7. Executing("function", w)' => ~Unrun(w)' /\ pc'[w] \notin {"mark", "call", "running"}
    BY <1>6, <1>7, <1>10, <1>11, <2>1 DEF BusyUntilRun
  <2> QED  BY <2>2, <2>3, <2>4, <2>5, <2>6, <2>7 DEF BusyUntilRun
<1>13. \A c \in Callers : Counted(c)'
  <2> SUFFICES ASSUME NEW c \in Callers PROVE Counted(c)'
    OBVIOUS
  <2>1. Counted(c)
    BY DEF InUse
  <2>2. adding[c].at \in {"count", "choose"} => \A v \in Workers : ~m_bWork[v] => ~m_bWork'[v]
    <3> SUFFICES ASSUME adding[c].at \in {"count", "choose"}, ~m_bWork[w], m_bWork'[w]
                 PROVE  FALSE
      BY <1>5
    <3>1. pc[w] = "mark"
      BY <1>1, <1>6 DEF Thread!Run, Thread!Marks, Thread!Moves, Thread!CallsFunction,
          Thread!Reaches, Thread!workerVars
    <3>2. Executing("work", w)
      BY <3>1 DEF InUse, BusyUntilRun
    <3>3. \A d \in Callers : adding[d].at # "start"
      BY OthersIdle
    <3> QED  BY <3>2, <3>3 DEF Executing, Inductive, CallsKnown, Starting
  <2>3. m_pThreadList \in Seq(Workers) /\ adding[c].rest \in Seq(Workers)
    BY DEF Inductive, PoolTyped
  <2>4. (\E i \in DOMAIN m_pThreadList : ~m_bWork[m_pThreadList[i]]) /\ adding[c].at = "count"
          => \E i \in DOMAIN m_pThreadList : ~m_bWork'[m_pThreadList[i]]
    BY <2>2, <2>3
  <2>5. (\E i \in DOMAIN adding[c].rest : ~m_bWork[adding[c].rest[i]]) /\ adding[c].at = "choose"
          => \E i \in DOMAIN adding[c].rest : ~m_bWork'[adding[c].rest[i]]
    BY <2>2, <2>3
  <2>6. Listed(c)' <=> Listed(c)
    BY <1>1 DEF Listed
  <2> QED  BY <1>1, <2>1, <2>4, <2>5, <2>6 DEF Counted
<1> QED  BY <1>4, <1>9, <1>12, <1>13 DEF InUse

(* A step of the helper.                                                                     *)
LEMMA UsedHelper ==
  ASSUME Inductive, InUse, Helper, ~raced'
  PROVE  InUse'
<1>1. /\ UNCHANGED <<m_bWork, m_pFunction, pc, call, count, runs>>
      /\ UNCHANGED <<created, adding>>
  BY DEF Helper, HelperTests, HandleNonWork, threadVars
<1>2. m_pThreadList \in Seq(Workers) /\ created \subseteq Workers
  BY DEF Inductive, PoolTyped
<1>3. TasksApart' /\ BusyUntilRun'
  <2>1. TasksApart'
    BY <1>1 DEF InUse, TasksApart
  <2>2. BusyUntilRun'
    BY <1>1 DEF InUse, BusyUntilRun, Unrun, Executing
  <2> QED  BY <2>1, <2>2
<1>4. CASE HelperTests
  <2>1. m_pThreadList' = m_pThreadList
    BY <1>4 DEF HelperTests
  <2>2. InPass' => AllIdle
    BY <1>4 DEF HelperTests, InPass, Inductive, PoolTyped
  <2>3. AddsAlone'
    BY <1>1, <2>2 DEF InUse, AddsAlone, AllIdle, Idle
  <2>4. GivenToCreated'
    BY <1>1, <2>1 DEF InUse, GivenToCreated
  <2>5. \A c \in Callers : Counted(c)'
    BY <1>1, <2>1 DEF InUse, Counted, Listed
  <2> QED  BY <1>3, <2>3, <2>4, <2>5 DEF InUse
<1>5. CASE HandleNonWork
  <2>1. InPass /\ \A c \in Callers : adding[c].at = "idle"
    BY <1>5 DEF HandleNonWork, InPass, InUse, AddsAlone
  <2>2. \/ m_pThreadList' = m_pThreadList
        \/ \E w \in Workers : m_pThreadList' = Without(m_pThreadList, w)
    <3>1. helper.rest # <<>> => Head(helper.rest) \in Workers
      BY DEF Inductive, PoolTyped
    <3> QED  BY <1>5, <3>1 DEF HandleNonWork, Inductive, PoolTyped
  <2>3. \A i \in DOMAIN m_pThreadList' : m_pThreadList'[i] \in created
    <3>1. \A i \in DOMAIN m_pThreadList : m_pThreadList[i] \in created
      BY DEF InUse, GivenToCreated
    <3>2. m_pThreadList \in Seq(created)
      BY <1>2, <3>1
    <3>3. m_pThreadList' \in Seq(created)
      BY <2>2, <3>2, WithoutTyped
    <3> QED  BY <3>3
  <2>4. AddsAlone'
    BY <1>1, <2>1 DEF InUse, AddsAlone
  <2>5. GivenToCreated'
    BY <1>1, <2>3 DEF InUse, GivenToCreated
  <2>6. \A c \in Callers : Counted(c)'
    BY <1>1, <2>1 DEF Counted
  <2> QED  BY <1>3, <2>4, <2>5, <2>6 DEF InUse
<1> QED  BY <1>4, <1>5 DEF Helper

(* A step that changes nothing it reads, as a crash.                                         *)
LEMMA UsedSame ==
  ASSUME InUse,
         UNCHANGED <<m_bWork, m_pFunction, pc, call, count, runs>>,
         UNCHANGED <<m_pThreadList, created, adding, helper>>
  PROVE  InUse'
<1>1. AddsAlone' /\ GivenToCreated'
  BY DEF InUse, AddsAlone, InPass, GivenToCreated
<1>2. TasksApart' /\ BusyUntilRun'
  BY DEF InUse, TasksApart, BusyUntilRun, Unrun, Executing
<1>3. \A c \in Callers : Counted(c)'
  BY DEF InUse, Counted, Listed
<1> QED  BY <1>1, <1>2, <1>3 DEF InUse

LEMMA LossInit == Init => LossInv
<1> SUFFICES ASSUME Init PROVE LossInv
  OBVIOUS
<1>1. Inductive
  BY InitInductive
<1>2. \A c \in Callers : adding[c] = Idle /\ adding[c].at = "idle" /\ call[c].at = "idle"
  BY DEF Init, Thread!Init, Idle, Thread!Idle
<1>3. AddsAlone
  BY <1>2 DEF Init, AddsAlone, InPass
<1>4. GivenToCreated
  <2>1. m_iDefaultThreadCount \in Nat
    BY PoolAssumption
  <2>2. \A i \in DOMAIN m_pThreadList : m_pThreadList[i] \in created
    BY <2>1 DEF Init
  <2>3. \A w \in Workers \ created : m_pFunction[w] = Null
    BY DEF Init, Thread!Init, Thread!Null, Null
  <2> QED  BY <1>2, <2>2, <2>3 DEF GivenToCreated, Starting
<1>5. TasksApart
  BY <1>2 DEF Init, Thread!Init, TasksApart, Thread!Null, Null
<1>6. BusyUntilRun
  BY <1>2 DEF Init, Thread!Init, BusyUntilRun, Unrun, Executing, Thread!Null, Null
<1>7. \A c \in Callers : Counted(c)
  BY <1>2 DEF Counted
<1>8. StopGivesNull
  BY <1>2 DEF StopGivesNull, Stopping
<1> QED  BY <1>3, <1>4, <1>5, <1>6, <1>7, <1>8 DEF LossInv, InUse, Init

(* Stop() gives no function: the statements of a call keep its task.                         *)
LEMMA StopKeepsNull ==
  ASSUME Inductive, StopGivesNull, Next
  PROVE  StopGivesNull'
<1>1. call \in [Callers -> CallType]
  BY DEF Inductive, Thread!TypeOK, CallType
<1> SUFFICES ASSUME NEW c \in Callers, call'[c].at \in Stopping PROVE call'[c].task = Null
  BY DEF StopGivesNull
<1>2. CASE call'[c] = call[c]
  BY <1>2 DEF StopGivesNull
<1>3. ASSUME NEW d \in Callers, NEW w \in Workers, Thread!Stop(d, w) PROVE call'[c].task = Null
  <2>1. call'[d].task = Null /\ \A e \in Callers \ {d} : call'[e] = call[e]
    BY <1>1, <1>3 DEF Thread!Stop, Thread!Null, Null
  <2> QED  BY <1>2, <2>1
<1>4. ASSUME NEW d \in Callers, NEW w \in Workers, Thread!Start(d, w) PROVE call'[c].task = Null
  <2>1. call'[d].at = "function" /\ \A e \in Callers \ {d} : call'[e] = call[e]
    BY <1>1, <1>4 DEF Thread!Start
  <2> QED  BY <1>2, <2>1 DEF Stopping
<1>5. ASSUME NEW d \in Callers, CallerStatement(d) PROVE call'[c].task = Null
  <2>1. /\ \A e \in Callers \ {d} : call'[e] = call[e]
        /\ \/ call'[d].at \in {"work", "notify", "idle"}
           \/ call'[d].task = call[d].task /\ call[d].at \in Stopping
    BY <1>1, <1>5 DEF CallerStatement, Thread!CallerStatement, Thread!Assigns, Thread!SetsFunction,
        Thread!SetsWork, Thread!StopClearsStart, Thread!NotifiesOne, Thread!NotifiesStart,
        Thread!NotifiesStop, Thread!Waits, Thread!At, Thread!Goes, Thread!Returns, Thread!Idle,
        CallType, Stopping
  <2> QED  BY <1>2, <2>1 DEF StopGivesNull, Stopping
<1>6. ASSUME NEW d \in Callers, AddTask(d) \/ AddTaskStatement(d) \/ DestructorStatement(d)
      PROVE  call'[c].task = Null
  <2>1. \/ call' = call
        \/ \E w \in Workers : Thread!Start(d, w) \/ Thread!Stop(d, w)
    <3>1. CASE AddTask(d)
      BY <3>1 DEF AddTask, threadVars
    <3>2. CASE GetThreadCount(d) \/ GetThreadWorkCount(d) \/ Creates(d) \/ Returns(d)
      BY <3>2 DEF GetThreadCount, GetThreadWorkCount, Creates, Returns, threadVars
    <3>3. CASE Pushes(d)
      BY <3>3 DEF Pushes, At, Inductive, CallsKnown
    <3>4. CASE Chooses(d)
      <4>1. adding[d].rest # <<>> => Head(adding[d].rest) \in Workers
        BY DEF Inductive, PoolTyped
      <4> QED  BY <3>4, <4>1 DEF Chooses, threadVars
    <3>5. CASE Destructor(d) \/ Deleted(d)
      BY <3>5 DEF Destructor, Deleted, threadVars
    <3>6. CASE Deletes(d)
      <4>1. adding[d].rest # <<>> => Head(adding[d].rest) \in Workers
        BY DEF Inductive, PoolTyped
      <4>2. Children \subseteq Workers
        BY DEF Children, Inductive, PoolTyped
      <4> QED  BY <3>6, <4>1, <4>2 DEF Deletes, threadVars
    <3> QED  BY <1>6, <3>1, <3>2, <3>3, <3>4, <3>5, <3>6
             DEF AddTaskStatement, DestructorStatement, DestructorGoesOn
  <2> QED  BY <1>2, <1>3, <1>4, <2>1
<1>7. CASE \/ \E w \in Workers : WorkerStep(w)
           \/ Thread!RaceOnFunction \/ RaceOnList \/ Helper \/ Terminated
  <2>1. call' = call
    BY <1>7 DEF WorkerStep, Thread!Run, Thread!Moves, Thread!Marks, Thread!CallsFunction,
        Thread!RaceOnFunction, RaceOnList, Helper, HelperTests, HandleNonWork, Terminated,
        threadVars
  <2> QED  BY <1>2, <2>1
<1> QED  BY <1>5, <1>6, <1>7 DEF Next

(* Start() and Stop() begin, and run() and the helper go on, without assigning a function.   *)
LEMMA FunctionStays ==
  ASSUME NEW c \in Callers,
         \/ AddTask(c) \/ AddTaskStatement(c) \/ DestructorStatement(c)
         \/ \E w \in Workers : WorkerStep(w)
         \/ Thread!RaceOnFunction \/ RaceOnList \/ Helper \/ Terminated \/ UNCHANGED vars
  PROVE  m_pFunction' = m_pFunction /\ \A v \in Workers : ~Overwrites(v)
<1>1. CASE AddTask(c) \/ AddTaskStatement(c)
  BY <1>1 DEF AddTask, AddTaskStatement, GetThreadCount, GetThreadWorkCount, Creates, Pushes,
      Chooses, Returns, Thread!Start, Thread!workerVars, threadVars, Overwrites
<1>2. CASE DestructorStatement(c)
  BY <1>2 DEF DestructorStatement, DestructorGoesOn, Destructor, Deletes, Deleted, Thread!Stop,
      Thread!workerVars, threadVars, Overwrites
<1>3. CASE \E w \in Workers : WorkerStep(w)
  BY <1>3 DEF WorkerStep, Thread!Run, Thread!Moves, Thread!Marks, Thread!CallsFunction,
      Thread!workerVars, Overwrites
<1>4. CASE Thread!RaceOnFunction \/ RaceOnList \/ Helper \/ Terminated \/ UNCHANGED vars
  BY <1>4 DEF Thread!RaceOnFunction, RaceOnList, Helper, HelperTests, HandleNonWork, Terminated,
      Thread!workerVars, threadVars, vars, Overwrites
<1> QED  BY <1>1, <1>2, <1>3, <1>4

(* Once the destructor has begun, functions are only emptied.                                *)
LEMMA CallerOverwrites ==
  ASSUME Inductive, StopGivesNull, pool # "used", NEW c \in Callers, CallerStatement(c)
  PROVE  \A v \in Workers : ~Overwrites(v)
<1>1. call[c].at \notin Starting
  <2>1. adding[c].at # "start"
    BY PoolAssumption DEF Inductive, OwnerAlone, Idle
  <2> QED  BY <2>1 DEF Inductive, CallsKnown
<1>2. m_pFunction \in [Workers -> Thread!Tasks \cup {Thread!Null}]
  BY DEF Inductive, Thread!TypeOK
<1>3. \/ m_pFunction' = m_pFunction
      \/ m_pFunction' = [m_pFunction EXCEPT ![call[c].worker] = Null]
  <2>1. call[c].at = "null" => call[c].task = Null
    BY DEF StopGivesNull, Stopping
  <2> QED  BY <1>1, <2>1 DEF CallerStatement, Thread!CallerStatement, Thread!Assigns,
               Thread!SetsFunction, Thread!SetsWork, Thread!StopClearsStart, Thread!NotifiesOne,
               Thread!Waits, Thread!At, Thread!workerVars, Starting
<1>4. \A v \in Workers : m_pFunction'[v] \in {Null, m_pFunction[v]}
  BY <1>2, <1>3
<1> QED  BY <1>4 DEF Overwrites

(* A step of AddTask() while the pool is in use.                                             *)
LEMMA UsedAddTaskStatement ==
  ASSUME Inductive, InUse, NEW c \in Callers, AddTaskStatement(c)
  PROVE  InUse' /\ dropped' = dropped
<1>1. UNCHANGED helper
  BY DEF AddTaskStatement
<1>2. CASE Chooses(c)
  BY <1>1, <1>2, UsedChooses
<1>3. CASE /\ GetThreadCount(c) \/ GetThreadWorkCount(c) \/ Creates(c) \/ Pushes(c) \/ Returns(c)
           /\ UNCHANGED dropped
  BY <1>1, <1>3, UsedGetThreadCount, UsedGetThreadWorkCount, UsedCreates, UsedPushes, UsedReturns
<1> QED  BY <1>2, <1>3 DEF AddTaskStatement

LEMMA LossStep == Inductive /\ LossInv /\ [Next]_vars => LossInv'
<1> SUFFICES ASSUME Inductive, LossInv, [Next]_vars PROVE LossInv'
  OBVIOUS
<1>1. StopGivesNull'
  <2>1. CASE UNCHANGED vars
    BY <2>1 DEF LossInv, StopGivesNull, vars, threadVars
  <2> QED  BY <2>1, StopKeepsNull DEF LossInv
<1> SUFFICES ASSUME ~raced' PROVE ~dropped' /\ ~replaced' /\ (pool' = "used" => InUse')
  BY <1>1 DEF LossInv
<1>2. ~raced
  <2>1. raced' = raced \/ raced' = TRUE \/ \E b : raced' = (raced \/ b)
    BY DEF Next, AddTask, AddTaskStatement, DestructorStatement, DestructorGoesOn,
        destructorKeeps, CallerStatement, WorkerStep, RaceOnList, Helper, HelperTests,
        HandleNonWork, Terminated, vars, poolVars
  <2> QED  BY <2>1
<1>3. ~dropped /\ ~replaced /\ (pool = "used" => InUse) /\ StopGivesNull
  BY <1>2 DEF LossInv
<1>4. (\A v \in Workers : ~Overwrites(v)) => ~replaced'
  BY <1>3 DEF Next, NotesReplaced, vars
<1>5. ASSUME NEW c \in Callers, AddTask(c) PROVE ~dropped' /\ ~replaced' /\ InUse'
  BY <1>3, <1>4, <1>5, UsedAddTask, FunctionStays DEF AddTask
<1>6. ASSUME NEW c \in Callers, AddTaskStatement(c) PROVE ~dropped' /\ ~replaced' /\ InUse'
  <2>1. pool = "used"
    <3>1. adding[c].at \notin {"idle", "delete", "stopping"}
      BY <1>6 DEF AddTaskStatement, GetThreadCount, GetThreadWorkCount, Creates, Pushes, Chooses,
          Returns, At
    <3> QED  BY <3>1, PoolAssumption DEF Inductive, OwnerAlone, Idle
  <2> QED  BY <1>3, <1>4, <1>6, <2>1, UsedAddTaskStatement, FunctionStays
<1>7. ASSUME NEW c \in Callers, DestructorStatement(c)
      PROVE  ~dropped' /\ ~replaced' /\ pool' # "used"
  <2>1. pool' # "used"
    <3>1. CASE Destructor(c)
      BY <3>1 DEF Destructor
    <3>2. CASE Deletes(c) \/ Deleted(c)
      <4>1. adding[c].at \in {"delete", "stopping"}
        BY <3>2 DEF Deletes, Deleted, At
      <4>2. pool = "deleting"
        BY <4>1, OwnerDeletes
      <4> QED  BY <3>2, <4>2 DEF Deletes, Deleted
    <3> QED  BY <1>7, <3>1, <3>2 DEF DestructorStatement, DestructorGoesOn
  <2>2. dropped' = dropped
    BY <1>7 DEF DestructorStatement, DestructorGoesOn, destructorKeeps
  <2> QED  BY <1>3, <1>4, <1>7, <2>1, <2>2, FunctionStays
<1>8. ASSUME NEW c \in Callers, CallerStatement(c)
      PROVE  ~dropped' /\ ~replaced' /\ (pool' = "used" => InUse')
  <2>1. UNCHANGED <<dropped, pool>>
    BY <1>8 DEF CallerStatement, poolVars
  <2> QED  BY <1>3, <1>4, <1>8, <2>1, UsedCaller, CallerOverwrites
<1>9. ASSUME NEW w \in Workers, WorkerStep(w)
      PROVE  ~dropped' /\ ~replaced' /\ (pool' = "used" => InUse')
  <2>1. UNCHANGED <<dropped, pool>>
    BY <1>9 DEF WorkerStep
  <2> QED  BY <1>3, <1>4, <1>9, <2>1, UsedWorker, FunctionStays, PoolAssumption
<1>10. CASE Helper
  <2>1. UNCHANGED <<dropped, pool>>
    BY <1>10 DEF Helper
  <2> QED  BY <1>3, <1>4, <1>10, <2>1, UsedHelper, FunctionStays, PoolAssumption
<1>11. CASE (Thread!RaceOnFunction /\ UNCHANGED poolVars) \/ RaceOnList \/ Terminated
            \/ UNCHANGED vars
  <2>1. /\ UNCHANGED <<m_bWork, m_pFunction, pc, call, count, runs>>
        /\ UNCHANGED <<m_pThreadList, created, adding, helper, pool, dropped>>
    BY <1>11 DEF Thread!RaceOnFunction, RaceOnList, Terminated, Thread!workerVars, threadVars,
        listVars, poolVars, vars
  <2> QED  BY <1>3, <1>4, <1>11, <2>1, UsedSame, FunctionStays, PoolAssumption
<1> QED  BY <1>5, <1>6, <1>7, <1>8, <1>9, <1>10, <1>11 DEF Next

(* A task is dropped, or replaced before it has run, only when AddTask() has overlapped with *)
(* itself or with a pass of the helper, or a thread has looked again at a function it had    *)
(* run: for any callers, tasks and initial threads.                                          *)
THEOREM LossCorrect == Spec => []LossHasCause
<1>1. Init => LossInv
  BY LossInit
<1>2. IInv /\ LossInv /\ [Next]_vars => LossInv'
  BY LossStep DEF IInv
<1>3. LossInv => LossHasCause
  BY DEF LossInv, LossHasCause
<1> QED  BY <1>1, <1>2, <1>3, Invariant, PTL DEF Spec

-----------------------------------------------------------------------------
(* The threads are used as GrayThread allows, so its theorems hold of the pool's threads.    *)

ThreadProofs == INSTANCE GrayThreadProofs

(* The program crashes on the list, or in the helper of a pool that is gone.                 *)
Crashes ==
    /\ crashed' = TRUE
    /\ UNCHANGED <<m_bStart, m_bWork, m_pFunction, pc, call, count, runs, missed>>

LEMMA ThreadStep ==
  ASSUME Inductive, [Next]_vars
  PROVE  Thread!Next \/ Crashes \/ UNCHANGED threadVars
<1>1. ASSUME NEW c \in Callers, AddTask(c) \/ AddTaskStatement(c) \/ DestructorStatement(c)
      PROVE  (\E w \in Workers : Thread!Start(c, w) \/ Thread!Stop(c, w)) \/ UNCHANGED threadVars
  <2>1. adding[c].rest # <<>> => Head(adding[c].rest) \in Workers
    BY DEF Inductive, PoolTyped
  <2>2. CASE AddTask(c)
    BY <2>2 DEF AddTask
  <2>3. CASE GetThreadCount(c) \/ GetThreadWorkCount(c) \/ Creates(c) \/ Returns(c)
    BY <2>3 DEF GetThreadCount, GetThreadWorkCount, Creates, Returns
  <2>4. CASE Pushes(c)
    BY <2>4 DEF Pushes, At, Inductive, CallsKnown
  <2>5. CASE Chooses(c)
    BY <2>1, <2>5 DEF Chooses
  <2>6. CASE Destructor(c) \/ Deleted(c)
    BY <2>6 DEF Destructor, Deleted
  <2>7. CASE Deletes(c)
    BY <2>1, <2>7 DEF Deletes, Children, Inductive, PoolTyped
  <2> QED  BY <1>1, <2>2, <2>3, <2>4, <2>5, <2>6, <2>7
           DEF AddTaskStatement, DestructorStatement, DestructorGoesOn
<1>2. CASE Helper
  <2>1. crashed' = crashed \/ crashed' = TRUE
    BY <1>2 DEF Helper, HelperTests, HandleNonWork, threadVars, Inductive, Thread!TypeOK
  <2> QED  BY <1>2, <2>1 DEF Helper, HelperTests, HandleNonWork, threadVars, Crashes
<1>3. CASE RaceOnList
  BY <1>3 DEF RaceOnList, Crashes
<1>4. CASE (\E w \in Workers : WorkerStep(w)) \/ (\E c \in Callers : CallerStatement(c))
            \/ Thread!RaceOnFunction
  BY <1>4 DEF WorkerStep, CallerStatement, Thread!Next
<1>5. CASE Terminated \/ UNCHANGED vars
  BY <1>5 DEF Terminated, vars
<1> QED  BY <1>1, <1>2, <1>3, <1>4, <1>5 DEF Next, Thread!Next

(* Every step of the pool is, for its threads, a step of GrayThread or a crash: AddTask()    *)
(* and the destructor call Start() and Stop() one after the other, of threads that exist.    *)
THEOREM ThreadsUsed == Spec => Thread!Init /\ [][Thread!Next \/ Crashes]_threadVars
<1>1. Init => Thread!Init
  BY DEF Init
<1>2. IInv /\ [Next]_vars => [Thread!Next \/ Crashes]_threadVars
  BY ThreadStep DEF IInv
<1> QED  BY <1>1, <1>2, Invariant, PTL DEF Spec

LEMMA ThreadInit == Thread!Init <=> ThreadProofs!Init
  BY DEF Thread!Init, ThreadProofs!Init, Thread!Idle, ThreadProofs!Idle, Thread!Null,
      ThreadProofs!Null, Thread!Tasks, ThreadProofs!Tasks

LEMMA ThreadNext == Thread!Next => ThreadProofs!Next
<1>1. \A c \in Callers, w \in Workers :
        /\ Thread!Start(c, w) => ThreadProofs!Start(c, w)
        /\ Thread!Stop(c, w) => ThreadProofs!Stop(c, w)
  BY DEF Thread!Start, ThreadProofs!Start, Thread!Stop, ThreadProofs!Stop, Thread!At,
      ThreadProofs!At, Thread!workerVars, ThreadProofs!workerVars, Thread!Null, ThreadProofs!Null
<1>2. \A c \in Callers : Thread!CallerStatement(c) => ThreadProofs!CallerStatement(c)
  <2> USE DEF Thread!At, ThreadProofs!At, Thread!Goes, ThreadProofs!Goes, Thread!Returns,
          ThreadProofs!Returns, Thread!workerVars, ThreadProofs!workerVars, Thread!Null,
          ThreadProofs!Null, Thread!Idle, ThreadProofs!Idle
  <2>1. \A c \in Callers : Thread!Assigns(c) => ThreadProofs!Assigns(c)
    BY DEF Thread!Assigns, ThreadProofs!Assigns, Thread!SetsFunction, ThreadProofs!SetsFunction,
        Thread!SetsWork, ThreadProofs!SetsWork, Thread!StopClearsStart,
        ThreadProofs!StopClearsStart
  <2>2. \A c \in Callers : Thread!NotifiesOne(c) => ThreadProofs!NotifiesOne(c)
    BY DEF Thread!NotifiesOne, ThreadProofs!NotifiesOne, Thread!NotifiesStart,
        ThreadProofs!NotifiesStart, Thread!NotifiesStop, ThreadProofs!NotifiesStop,
        Thread!Notifies, ThreadProofs!Notifies, Thread!Awake, ThreadProofs!Awake
  <2>3. \A c \in Callers : Thread!Waits(c) => ThreadProofs!Waits(c)
    BY DEF Thread!Waits, ThreadProofs!Waits
  <2> QED  BY <2>1, <2>2, <2>3 DEF Thread!CallerStatement, ThreadProofs!CallerStatement
<1>3. \A w \in Workers : Thread!Run(w) => ThreadProofs!Run(w)
  BY DEF Thread!Run, ThreadProofs!Run, Thread!Moves, ThreadProofs!Moves, Thread!Parks,
      ThreadProofs!Parks, Thread!Marks, ThreadProofs!Marks, Thread!CallsFunction,
      ThreadProofs!CallsFunction, Thread!Reaches, ThreadProofs!Reaches, Thread!workerVars,
      ThreadProofs!workerVars, Thread!Null, ThreadProofs!Null, Thread!Tasks, ThreadProofs!Tasks
<1>4. Thread!RaceOnFunction => ThreadProofs!RaceOnFunction
  BY DEF Thread!RaceOnFunction, ThreadProofs!RaceOnFunction, Thread!FunctionShared,
      ThreadProofs!FunctionShared, Thread!At, ThreadProofs!At, Thread!workerVars,
      ThreadProofs!workerVars
<1>5. Thread!Terminated => ThreadProofs!Terminated
  BY DEF Thread!Terminated, ThreadProofs!Terminated, Thread!vars, ThreadProofs!vars,
      Thread!workerVars, ThreadProofs!workerVars
<1> QED  BY <1>1, <1>2, <1>3, <1>4, <1>5 DEF Thread!Next, ThreadProofs!Next

(* The invariants of GrayThread survive a crash, which is no step of its own.                *)
LEMMA CrashSparesThreads ==
  ASSUME Crashes
  PROVE  /\ ThreadProofs!IInv => ThreadProofs!IInv'
         /\ ThreadProofs!RunsInv => ThreadProofs!RunsInv'
<1> USE DEF Crashes
<1>1. ASSUME ThreadProofs!IInv PROVE ThreadProofs!IInv'
  BY <1>1 DEF ThreadProofs!IInv, ThreadProofs!TypeOK, ThreadProofs!CallsKnown,
      ThreadProofs!StopStops, ThreadProofs!FreshAnnounced, ThreadProofs!StopAnnounced,
      ThreadProofs!WorkAnnounced, ThreadProofs!EmptyStopping, ThreadProofs!Fresh,
      ThreadProofs!Executes
<1>2. ASSUME ThreadProofs!RunsInv PROVE ThreadProofs!RunsInv'
  <2>1. ThreadProofs!TasksOnce => ThreadProofs!TasksOnce'
    BY DEF ThreadProofs!TasksOnce
  <2>2. ThreadProofs!RunsLeft => ThreadProofs!RunsLeft'
    BY DEF ThreadProofs!RunsLeft, ThreadProofs!Pending, ThreadProofs!Passes
  <2>3. ThreadProofs!RunsBounded => ThreadProofs!RunsBounded'
    BY DEF ThreadProofs!RunsBounded
  <2> QED  BY <1>1, <1>2, <2>1, <2>2, <2>3 DEF ThreadProofs!RunsInv
<1> QED  BY <1>1, <1>2

(* A thread of the pool sleeps over a task it was given and has not run, or over Stop(),     *)
(* only while its notification is still to come or when that came too late.                  *)
THEOREM ThreadsSleep == Spec => []Thread!SleepHasCause
<1>1. MaxTasks \in Nat
  BY PoolAssumption
<1>2. Thread!Init => ThreadProofs!IInv
  BY <1>1, ThreadInit, ThreadProofs!InitInv
<1>3. ThreadProofs!IInv /\ [Thread!Next \/ Crashes]_threadVars => ThreadProofs!IInv'
  <2>1. UNCHANGED threadVars => UNCHANGED ThreadProofs!vars
    BY DEF threadVars, ThreadProofs!vars, ThreadProofs!workerVars
  <2> QED  BY <1>1, <2>1, ThreadNext, CrashSparesThreads, ThreadProofs!NextInv
<1>4. ThreadProofs!IInv => Thread!SleepHasCause
  <2>1. ThreadProofs!SleepHasCause => Thread!SleepHasCause
    BY DEF ThreadProofs!SleepHasCause, Thread!SleepHasCause, ThreadProofs!Executes,
        Thread!Executes, ThreadProofs!Null, Thread!Null
  <2> QED  BY <1>1, <2>1, ThreadProofs!InvImplies
<1> QED  BY <1>2, <1>3, <1>4, ThreadsUsed, PTL

(* A task given to the pool is run at most once more than there are callers.                 *)
THEOREM ThreadsRun ==
  ASSUME IsFiniteSet(Callers)
  PROVE  Spec => []Thread!RunsBounded
<1>1. MaxTasks \in Nat /\ ThreadProofs!IsFiniteSet(Callers)
  BY PoolAssumption DEF IsFiniteSet, ThreadProofs!IsFiniteSet
<1>2. Thread!Init => ThreadProofs!RunsInv
  BY <1>1, ThreadInit, ThreadProofs!RunsInit
<1>3. ThreadProofs!RunsInv /\ [Thread!Next \/ Crashes]_threadVars => ThreadProofs!RunsInv'
  <2>1. UNCHANGED threadVars => UNCHANGED ThreadProofs!vars
    BY DEF threadVars, ThreadProofs!vars, ThreadProofs!workerVars
  <2>2. ThreadProofs!RunsInv /\ [ThreadProofs!Next]_(ThreadProofs!vars) => ThreadProofs!RunsInv'
    BY <1>1, ThreadProofs!NextInv, ThreadProofs!TasksKept, ThreadProofs!RunsKept
    DEF ThreadProofs!RunsInv
  <2> QED  BY <2>1, <2>2, ThreadNext, CrashSparesThreads
<1>4. ThreadProofs!RunsInv => Thread!RunsBounded
  <2>1. ThreadProofs!Cardinality(Callers) = Thread!Cardinality(Callers)
    BY DEF ThreadProofs!Cardinality, Thread!Cardinality
  <2> QED  BY <2>1 DEF ThreadProofs!RunsInv, ThreadProofs!RunsBounded, Thread!RunsBounded,
               ThreadProofs!Tasks, Thread!Tasks
<1> QED  BY <1>2, <1>3, <1>4, ThreadsUsed, PTL
=============================================================================
