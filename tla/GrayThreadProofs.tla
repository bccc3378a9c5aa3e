-------------------------- MODULE GrayThreadProofs --------------------------
(***************************************************************************)
(* Theorems about GrayThread for any workers, callers and tasks.           *)
(***************************************************************************)
EXTENDS GrayThread, FiniteSetTheorems, TLAPS

(* A statement of Start() or Stop() knows its worker and has its task.                       *)
CallsKnown == \A c \in Callers :
    /\ call[c].at # "idle" => call[c].worker \in Workers
    /\ call[c].at = "function" => call[c].task # Null
    /\ call[c].at \in {"unwork", "unstart", "null"} => call[c].task = Null

(* Stop() has cleared m_bStart, which nothing sets again.                                    *)
StopStops == \A c \in Callers :
    call[c].at \in {"null", "notifyStop", "wait"} => ~m_bStart[call[c].worker]

Fresh(w) == m_pFunction[w] # Null /\ runs[m_pFunction[w]] = 0

(* A thread past its test of the function, and one that said that it works without one, has  *)
(* been or will be notified.                                                                 *)
FreshAnnounced == \A w \in Workers :
    pc[w] \in {"running", "park", "parked"} /\ w \notin missed /\ Fresh(w) =>
        Executes({"work", "notify"}, w)

StopAnnounced == \A w \in Workers :
    ~m_bStart[w] /\ pc[w] \in (Awake \ {"loop"}) \cup {"parked"} /\ w \notin missed =>
        Executes({"null", "notifyStop"}, w)

WorkAnnounced == \A w \in Workers :
    pc[w] \in {"park", "parked"} /\ w \notin missed /\ m_bWork[w] =>
        Executes({"notify", "notifyStop"}, w)

(* A worker without a function that says that it works, or will, is being stopped.           *)
EmptyStopping == \A w \in Workers :
    m_pFunction[w] = Null /\ (m_bWork[w] \/ Executes({"work"}, w)
                                \/ pc[w] \in {"mark", "call", "running"}) =>
        /\ ~m_bStart[w]
        /\ pc[w] \in {"loop", "finished"} \/ w \in missed \/ Executes({"notifyStop"}, w)

IInv ==
    /\ TypeOK /\ CallsKnown /\ StopStops
    /\ FreshAnnounced /\ StopAnnounced /\ WorkAnnounced /\ EmptyStopping

-----------------------------------------------------------------------------
(* The invariant holds initially, and every action keeps it.                                 *)

CallType == [at : Statements, worker : Workers \cup {None}, task : Tasks \cup {Null}]

(* The next statement of c has the same worker and task; the other callers stay.             *)
LEMMA GoesTo ==
  ASSUME call \in [Callers -> CallType], NEW c \in Callers, NEW s \in Statements, Goes(c, s)
  PROVE  /\ call' \in [Callers -> CallType]
         /\ call'[c].at = s /\ call'[c].worker = call[c].worker /\ call'[c].task = call[c].task
         /\ \A d \in Callers \ {c} : call'[d] = call[d]
<1>1. call[c] \in CallType /\ [call[c] EXCEPT !.at = s] \in CallType
  BY DEF CallType
<1> QED  BY <1>1 DEF Goes, CallType

LEMMA ReturnsTo ==
  ASSUME call \in [Callers -> CallType], NEW c \in Callers, Returns(c)
  PROVE  /\ call' \in [Callers -> CallType] /\ call'[c] = Idle
         /\ \A d \in Callers \ {c} : call'[d] = call[d]
<1>1. Idle \in CallType
  BY DEF Idle, CallType, Statements, Null
<1> QED  BY <1>1 DEF Returns

LEMMA InitInv == Init => IInv
<1> SUFFICES ASSUME Init PROVE IInv
  OBVIOUS
<1>1. Idle \in CallType
  BY DEF Idle, CallType, Statements, Null
<1>2. TypeOK
  <2>1. count \in 0..MaxTasks /\ runs \in [Tasks -> Nat]
    BY TasksAssumption DEF Init
  <2>2. call \in [Callers -> CallType]
    BY <1>1 DEF Init
  <2> QED  BY <2>1, <2>2 DEF Init, TypeOK, CallType, Awake
<1>3. \A c \in Callers : call[c].at = "idle"
  BY DEF Init, Idle
<1>4. CallsKnown /\ StopStops
  BY <1>3 DEF CallsKnown, StopStops
<1>5. FreshAnnounced /\ StopAnnounced /\ WorkAnnounced
  BY DEF Init, FreshAnnounced, StopAnnounced, WorkAnnounced, Awake
<1>6. EmptyStopping
  BY <1>3 DEF Init, EmptyStopping, Executes
<1> QED  BY <1>2, <1>4, <1>5, <1>6 DEF IInv

LEMMA StartKeeps ==
  ASSUME IInv, NEW c \in Callers, NEW w \in Workers, Start(c, w)
  PROVE  IInv'
<1>1. TypeOK'
  BY TasksAssumption DEF IInv, TypeOK, Start, At, Null, workerVars, Tasks, Statements
<1>2. CallsKnown'
  BY DEF IInv, CallsKnown, Start, At, Null, workerVars, TypeOK
<1>3. StopStops'
  BY DEF IInv, StopStops, CallsKnown, Start, At, Null, workerVars, TypeOK
<1>4. FreshAnnounced'
  BY DEF IInv, FreshAnnounced, CallsKnown, Fresh, Executes, Start, At, Null, workerVars, TypeOK
<1>5. StopAnnounced'
  BY DEF IInv, StopAnnounced, StopStops, CallsKnown, Executes, Start, At, Null, workerVars,
      TypeOK
<1>6. WorkAnnounced'
  BY DEF IInv, WorkAnnounced, CallsKnown, Executes, Start, At, Null, workerVars, TypeOK
<1>7. EmptyStopping'
  BY DEF IInv, EmptyStopping, StopStops, CallsKnown, Executes, Start, At, Null, workerVars,
      TypeOK
<1> QED  BY <1>1, <1>2, <1>3, <1>4, <1>5, <1>6, <1>7 DEF IInv

LEMMA StopKeeps ==
  ASSUME IInv, NEW c \in Callers, NEW w \in Workers, Stop(c, w)
  PROVE  IInv'
<1>1. TypeOK'
  BY TasksAssumption DEF IInv, TypeOK, Stop, At, Null, workerVars, Tasks, Statements
<1>2. CallsKnown'
  BY DEF IInv, CallsKnown, Stop, At, Null, workerVars, TypeOK
<1>3. StopStops'
  BY DEF IInv, StopStops, CallsKnown, Stop, At, Null, workerVars, TypeOK
<1>4. FreshAnnounced'
  BY DEF IInv, FreshAnnounced, CallsKnown, Fresh, Executes, Stop, At, Null, workerVars, TypeOK
<1>5. StopAnnounced'
  BY DEF IInv, StopAnnounced, StopStops, CallsKnown, Executes, Stop, At, Null, workerVars,
      TypeOK
<1>6. WorkAnnounced'
  BY DEF IInv, WorkAnnounced, CallsKnown, Executes, Stop, At, Null, workerVars, TypeOK
<1>7. EmptyStopping'
  BY DEF IInv, EmptyStopping, StopStops, CallsKnown, Executes, Stop, At, Null, workerVars,
      TypeOK
<1> QED  BY <1>1, <1>2, <1>3, <1>4, <1>5, <1>6, <1>7 DEF IInv

LEMMA StartAssigns ==
  ASSUME IInv, NEW c \in Callers,
         At(c, "function"), Goes(c, "work"), UNCHANGED <<m_bStart, m_bWork>>,
         m_pFunction' = [m_pFunction EXCEPT ![call[c].worker] = call[c].task],
         UNCHANGED <<pc, crashed, count, runs, missed>>
  PROVE  IInv'
<1> DEFINE w == call[c].worker
<1>0. /\ w \in Workers /\ call[c] \in CallType
      /\ call' \in [Callers -> CallType]
      /\ call'[c].at = "work" /\ call'[c].worker = w /\ call'[c].task = call[c].task
      /\ \A d \in Callers \ {c} : call'[d] = call[d]
  BY GoesTo DEF IInv, TypeOK, CallsKnown, CallType, Statements, At
<1>1. TypeOK'
  BY <1>0, TasksAssumption DEF IInv, TypeOK, At, Null, Tasks, CallType
<1>2. CallsKnown'
  BY <1>0 DEF IInv, CallsKnown, At, Null, TypeOK
<1>3. StopStops'
  BY <1>0 DEF IInv, StopStops, CallsKnown, At, Null, TypeOK
<1>4. FreshAnnounced'
  BY <1>0 DEF IInv, FreshAnnounced, CallsKnown, Fresh, Executes, At, Null, TypeOK
<1>5. StopAnnounced'
  BY <1>0 DEF IInv, StopAnnounced, StopStops, CallsKnown, Executes, At, Null, TypeOK
<1>6. WorkAnnounced'
  BY <1>0 DEF IInv, WorkAnnounced, CallsKnown, Executes, At, Null, TypeOK
<1>7. EmptyStopping'
  BY <1>0 DEF IInv, EmptyStopping, StopStops, CallsKnown, Executes, At, Null, TypeOK
<1> QED  BY <1>1, <1>2, <1>3, <1>4, <1>5, <1>6, <1>7 DEF IInv

LEMMA StopAssigns ==
  ASSUME IInv, NEW c \in Callers,
         At(c, "null"), Goes(c, "notifyStop"), UNCHANGED <<m_bStart, m_bWork>>,
         m_pFunction' = [m_pFunction EXCEPT ![call[c].worker] = call[c].task],
         UNCHANGED <<pc, crashed, count, runs, missed>>
  PROVE  IInv'
<1> DEFINE w == call[c].worker
<1>0. /\ w \in Workers /\ call[c] \in CallType
      /\ call' \in [Callers -> CallType]
      /\ call'[c].at = "notifyStop" /\ call'[c].worker = w /\ call'[c].task = call[c].task
      /\ \A d \in Callers \ {c} : call'[d] = call[d]
  BY GoesTo DEF IInv, TypeOK, CallsKnown, CallType, Statements, At
<1>1. TypeOK'
  BY <1>0, TasksAssumption DEF IInv, TypeOK, At, Null, Tasks, CallType
<1>2. CallsKnown'
  BY <1>0 DEF IInv, CallsKnown, At, Null, TypeOK
<1>3. StopStops'
  BY <1>0 DEF IInv, StopStops, CallsKnown, At, Null, TypeOK
<1>4. FreshAnnounced'
  BY <1>0 DEF IInv, FreshAnnounced, CallsKnown, Fresh, Executes, At, Null, TypeOK
<1>5. StopAnnounced'
  BY <1>0 DEF IInv, StopAnnounced, StopStops, CallsKnown, Executes, At, Null, TypeOK
<1>6. WorkAnnounced'
  BY <1>0 DEF IInv, WorkAnnounced, CallsKnown, Executes, At, Null, TypeOK
<1>7. EmptyStopping'
  BY <1>0 DEF IInv, EmptyStopping, StopStops, CallsKnown, Executes, At, Null, TypeOK
<1> QED  BY <1>1, <1>2, <1>3, <1>4, <1>5, <1>6, <1>7 DEF IInv

LEMMA StartMarks ==
  ASSUME IInv, NEW c \in Callers,
         At(c, "work"), Goes(c, "notify"), UNCHANGED <<m_bStart, m_pFunction>>,
         m_bWork' = [m_bWork EXCEPT ![call[c].worker] = TRUE],
         UNCHANGED <<pc, crashed, count, runs, missed>>
  PROVE  IInv'
<1> DEFINE w == call[c].worker
<1>0. /\ w \in Workers /\ call[c] \in CallType
      /\ call' \in [Callers -> CallType]
      /\ call'[c].at = "notify" /\ call'[c].worker = w /\ call'[c].task = call[c].task
      /\ \A d \in Callers \ {c} : call'[d] = call[d]
  BY GoesTo DEF IInv, TypeOK, CallsKnown, CallType, Statements, At
<1>1. TypeOK'
  BY <1>0, TasksAssumption DEF IInv, TypeOK, At, Null, Tasks, CallType
<1>2. CallsKnown'
  BY <1>0 DEF IInv, CallsKnown, At, Null, TypeOK
<1>3. StopStops'
  BY <1>0 DEF IInv, StopStops, CallsKnown, At, Null, TypeOK
<1>4. FreshAnnounced'
  BY <1>0 DEF IInv, FreshAnnounced, CallsKnown, Fresh, Executes, At, Null, TypeOK
<1>5. StopAnnounced'
  BY <1>0 DEF IInv, StopAnnounced, StopStops, CallsKnown, Executes, At, Null, TypeOK
<1>6. WorkAnnounced'
  BY <1>0 DEF IInv, WorkAnnounced, CallsKnown, Executes, At, Null, TypeOK
<1>7. EmptyStopping'
  <2>1. CASE m_bWork[w]
    BY <1>0, <2>1 DEF IInv, EmptyStopping, Executes, At, TypeOK
  <2>2. CASE ~m_bWork[w]
    BY <1>0, <2>2 DEF IInv, EmptyStopping, Executes, At, TypeOK
  <2> QED  BY <2>1, <2>2
<1> QED  BY <1>1, <1>2, <1>3, <1>4, <1>5, <1>6, <1>7 DEF IInv

LEMMA StopUnmarks ==
  ASSUME IInv, NEW c \in Callers,
         At(c, "unwork"), Goes(c, "unstart"), UNCHANGED <<m_bStart, m_pFunction>>,
         m_bWork' = [m_bWork EXCEPT ![call[c].worker] = FALSE],
         UNCHANGED <<pc, crashed, count, runs, missed>>
  PROVE  IInv'
<1> DEFINE w == call[c].worker
<1>0. /\ w \in Workers /\ call[c] \in CallType
      /\ call' \in [Callers -> CallType]
      /\ call'[c].at = "unstart" /\ call'[c].worker = w /\ call'[c].task = call[c].task
      /\ \A d \in Callers \ {c} : call'[d] = call[d]
  BY GoesTo DEF IInv, TypeOK, CallsKnown, CallType, Statements, At
<1>1. TypeOK'
  BY <1>0, TasksAssumption DEF IInv, TypeOK, At, Null, Tasks, CallType
<1>2. CallsKnown'
  BY <1>0 DEF IInv, CallsKnown, At, Null, TypeOK
<1>3. StopStops'
  BY <1>0 DEF IInv, StopStops, CallsKnown, At, Null, TypeOK
<1>4. FreshAnnounced'
  BY <1>0 DEF IInv, FreshAnnounced, CallsKnown, Fresh, Executes, At, Null, TypeOK
<1>5. StopAnnounced'
  BY <1>0 DEF IInv, StopAnnounced, StopStops, CallsKnown, Executes, At, Null, TypeOK
<1>6. WorkAnnounced'
  BY <1>0 DEF IInv, WorkAnnounced, CallsKnown, Executes, At, Null, TypeOK
<1>7. EmptyStopping'
  BY <1>0 DEF IInv, EmptyStopping, StopStops, CallsKnown, Executes, At, Null, TypeOK
<1> QED  BY <1>1, <1>2, <1>3, <1>4, <1>5, <1>6, <1>7 DEF IInv

LEMMA ClearsKeeps ==
  ASSUME IInv, NEW c \in Callers,
         StopClearsStart(c), UNCHANGED <<pc, crashed, count, runs, missed>>
  PROVE  IInv'
<1> DEFINE w == call[c].worker
<1>0. /\ w \in Workers /\ call[c] \in CallType
      /\ call' \in [Callers -> CallType]
      /\ call'[c].at = "null" /\ call'[c].worker = w /\ call'[c].task = call[c].task
      /\ \A d \in Callers \ {c} : call'[d] = call[d]
  BY GoesTo DEF IInv, TypeOK, CallsKnown, CallType, Statements, At, StopClearsStart
<1>1. TypeOK'
  BY <1>0, TasksAssumption DEF IInv, TypeOK, StopClearsStart, At, Null, Tasks, CallType
<1>2. CallsKnown'
  BY <1>0 DEF IInv, CallsKnown, StopClearsStart, At, Null, TypeOK
<1>3. StopStops'
  BY <1>0 DEF IInv, StopStops, CallsKnown, StopClearsStart, At, Null, TypeOK
<1>4. FreshAnnounced'
  BY <1>0
  DEF IInv, FreshAnnounced, CallsKnown, Fresh, Executes, StopClearsStart, At, Null, TypeOK
<1>5. StopAnnounced'
  BY <1>0
  DEF IInv, StopAnnounced, StopStops, CallsKnown, Executes, StopClearsStart, At, Null,
      TypeOK
<1>6. WorkAnnounced'
  BY <1>0 DEF IInv, WorkAnnounced, CallsKnown, Executes, StopClearsStart, At, Null, TypeOK
<1>7. EmptyStopping'
  BY <1>0
  DEF IInv, EmptyStopping, StopStops, CallsKnown, Executes, StopClearsStart, At, Null,
      TypeOK
<1> QED  BY <1>1, <1>2, <1>3, <1>4, <1>5, <1>6, <1>7 DEF IInv

LEMMA NotifiesStartKeeps ==
  ASSUME IInv, NEW c \in Callers,
         NotifiesStart(c), UNCHANGED <<workerVars, crashed, count, runs>>
  PROVE  IInv'
<1> DEFINE w == call[c].worker
<1>0. /\ w \in Workers
      /\ call' \in [Callers -> CallType]
      /\ call'[c] = Idle /\ Idle.at = "idle"
      /\ \A d \in Callers \ {c} : call'[d] = call[d]
  BY ReturnsTo DEF IInv, TypeOK, CallsKnown, CallType, At, Idle, NotifiesStart
<1>1. TypeOK'
  BY <1>0, TasksAssumption
  DEF IInv, TypeOK, NotifiesStart, Notifies, workerVars, At, Null, Awake, Tasks, CallType
<1>2. CallsKnown'
  BY <1>0 DEF IInv, CallsKnown, NotifiesStart, Notifies, workerVars, At, Null, Awake, TypeOK
<1>3. StopStops'
  BY <1>0
  DEF IInv, StopStops, CallsKnown, NotifiesStart, Notifies, workerVars, At, Null, Awake,
      TypeOK
<1>4. FreshAnnounced'
  BY <1>0
  DEF IInv, FreshAnnounced, CallsKnown, Fresh, Executes, NotifiesStart, Notifies,
      workerVars, At, Null, Awake, TypeOK
<1>5. StopAnnounced'
  BY <1>0
  DEF IInv, StopAnnounced, StopStops, CallsKnown, Executes, NotifiesStart, Notifies,
      workerVars, At, Null, Awake, TypeOK
<1>6. WorkAnnounced'
  BY <1>0
  DEF IInv, WorkAnnounced, CallsKnown, Executes, NotifiesStart, Notifies, workerVars, At,
      Null, Awake, TypeOK
<1>7. EmptyStopping'
  BY <1>0
  DEF IInv, EmptyStopping, StopStops, CallsKnown, Executes, NotifiesStart, Notifies,
      workerVars, At, Null, Awake, TypeOK
<1> QED  BY <1>1, <1>2, <1>3, <1>4, <1>5, <1>6, <1>7 DEF IInv

LEMMA NotifiesStopKeeps ==
  ASSUME IInv, NEW c \in Callers,
         NotifiesStop(c), UNCHANGED <<workerVars, crashed, count, runs>>
  PROVE  IInv'
<1> DEFINE w == call[c].worker
<1>0. /\ w \in Workers /\ call[c] \in CallType
      /\ call' \in [Callers -> CallType]
      /\ call'[c].at = "wait" /\ call'[c].worker = w /\ call'[c].task = call[c].task
      /\ \A d \in Callers \ {c} : call'[d] = call[d]
  BY GoesTo DEF IInv, TypeOK, CallsKnown, CallType, Statements, At, NotifiesStop
<1>1. TypeOK'
  BY <1>0, TasksAssumption
  DEF IInv, TypeOK, NotifiesStop, Notifies, workerVars, At, Null, Awake, Tasks, CallType
<1>2. CallsKnown'
  BY <1>0 DEF IInv, CallsKnown, NotifiesStop, Notifies, workerVars, At, Null, Awake, TypeOK
<1>3. StopStops'
  BY <1>0
  DEF IInv, StopStops, CallsKnown, NotifiesStop, Notifies, workerVars, At, Null, Awake,
      TypeOK
<1>4. FreshAnnounced'
  BY <1>0
  DEF IInv, FreshAnnounced, CallsKnown, Fresh, Executes, NotifiesStop, Notifies, workerVars,
      At, Null, Awake, TypeOK
<1>5. StopAnnounced'
  BY <1>0
  DEF IInv, StopAnnounced, StopStops, CallsKnown, Executes, NotifiesStop, Notifies,
      workerVars, At, Null, Awake, TypeOK
<1>6. WorkAnnounced'
  BY <1>0
  DEF IInv, WorkAnnounced, CallsKnown, Executes, NotifiesStop, Notifies, workerVars, At,
      Null, Awake, TypeOK
<1>7. EmptyStopping'
  BY <1>0
  DEF IInv, EmptyStopping, StopStops, CallsKnown, Executes, NotifiesStop, Notifies,
      workerVars, At, Null, Awake, TypeOK
<1> QED  BY <1>1, <1>2, <1>3, <1>4, <1>5, <1>6, <1>7 DEF IInv

LEMMA WaitsKeeps ==
  ASSUME IInv, NEW c \in Callers,
         Waits(c)
  PROVE  IInv'
<1> DEFINE w == call[c].worker
<1>0. /\ w \in Workers
      /\ call' \in [Callers -> CallType]
      /\ call'[c] = Idle /\ Idle.at = "idle"
      /\ \A d \in Callers \ {c} : call'[d] = call[d]
  BY ReturnsTo DEF IInv, TypeOK, CallsKnown, CallType, At, Idle, Waits
<1>1. TypeOK'
  BY <1>0, TasksAssumption DEF IInv, TypeOK, Waits, workerVars, At, Null, Tasks, CallType
<1>2. CallsKnown'
  BY <1>0 DEF IInv, CallsKnown, Waits, workerVars, At, Null, TypeOK
<1>3. StopStops'
  BY <1>0 DEF IInv, StopStops, CallsKnown, Waits, workerVars, At, Null, TypeOK
<1>4. FreshAnnounced'
  BY <1>0
  DEF IInv, FreshAnnounced, CallsKnown, Fresh, Executes, Waits, workerVars, At, Null, TypeOK
<1>5. StopAnnounced'
  BY <1>0
  DEF IInv, StopAnnounced, StopStops, CallsKnown, Executes, Waits, workerVars, At, Null,
      TypeOK
<1>6. WorkAnnounced'
  BY <1>0 DEF IInv, WorkAnnounced, CallsKnown, Executes, Waits, workerVars, At, Null, TypeOK
<1>7. EmptyStopping'
  BY <1>0
  DEF IInv, EmptyStopping, StopStops, CallsKnown, Executes, Waits, workerVars, At, Null,
      TypeOK
<1> QED  BY <1>1, <1>2, <1>3, <1>4, <1>5, <1>6, <1>7 DEF IInv

LEMMA MovesKeeps ==
  ASSUME IInv, NEW w \in Workers, Moves(w)
  PROVE  IInv'
<1>1. TypeOK'
  BY TasksAssumption DEF IInv, TypeOK, Moves, Parks, Reaches, Awake, Null, workerVars, Tasks
<1>2. CallsKnown'
  BY DEF IInv, CallsKnown, Moves, Parks, Reaches, Awake, Null, workerVars, TypeOK
<1>3. StopStops'
  BY DEF IInv, StopStops, CallsKnown, Moves, Parks, Reaches, Awake, Null, workerVars, TypeOK
<1>4. FreshAnnounced'
  BY DEF IInv, FreshAnnounced, CallsKnown, Fresh, Executes, Moves, Parks, Reaches, Awake, Null,
      workerVars, TypeOK
<1>5. StopAnnounced'
  BY DEF IInv, StopAnnounced, StopStops, CallsKnown, Executes, Moves, Parks, Reaches, Awake,
      Null, workerVars, TypeOK
<1>6. WorkAnnounced'
  BY DEF IInv, WorkAnnounced, CallsKnown, Executes, Moves, Parks, Reaches, Awake, Null,
      workerVars, EmptyStopping, TypeOK
<1>7. EmptyStopping'
  BY DEF IInv, EmptyStopping, StopStops, CallsKnown, Executes, Moves, Parks, Reaches, Awake,
      Null, workerVars, TypeOK
<1> QED  BY <1>1, <1>2, <1>3, <1>4, <1>5, <1>6, <1>7 DEF IInv

LEMMA MarksKeeps ==
  ASSUME IInv, NEW w \in Workers, Marks(w),
         UNCHANGED <<m_bStart, m_pFunction, call, crashed, count, runs, missed>>
  PROVE  IInv'
<1>1. TypeOK'
  BY TasksAssumption DEF IInv, TypeOK, Marks, Reaches, Awake, Null, Tasks
<1>2. CallsKnown'
  BY DEF IInv, CallsKnown, Marks, Reaches, Awake, Null, TypeOK
<1>3. StopStops'
  BY DEF IInv, StopStops, CallsKnown, Marks, Reaches, Awake, Null, TypeOK
<1>4. FreshAnnounced'
  BY DEF IInv, FreshAnnounced, CallsKnown, Fresh, Executes, Marks, Reaches, Awake, Null, TypeOK
<1>5. StopAnnounced'
  BY DEF IInv, StopAnnounced, StopStops, CallsKnown, Executes, Marks, Reaches, Awake, Null,
      TypeOK
<1>6. WorkAnnounced'
  BY DEF IInv, WorkAnnounced, CallsKnown, Executes, Marks, Reaches, Awake, Null, TypeOK
<1>7. EmptyStopping'
  BY DEF IInv, EmptyStopping, StopStops, CallsKnown, Executes, Marks, Reaches, Awake, Null,
      TypeOK
<1> QED  BY <1>1, <1>2, <1>3, <1>4, <1>5, <1>6, <1>7 DEF IInv

LEMMA CallsKeeps ==
  ASSUME IInv, NEW w \in Workers, CallsFunction(w)
  PROVE  IInv'
<1>1. TypeOK'
  BY TasksAssumption DEF IInv, TypeOK, CallsFunction, Reaches, Awake, Null, workerVars, Tasks
<1>2. CallsKnown'
  BY DEF IInv, CallsKnown, CallsFunction, Reaches, Awake, Null, workerVars, TypeOK
<1>3. StopStops'
  BY DEF IInv, StopStops, CallsKnown, CallsFunction, Reaches, Awake, Null, workerVars, TypeOK
<1>4. FreshAnnounced'
  <2>1. m_pFunction[w] # Null => runs'[m_pFunction[w]] # 0
    BY DEF IInv, TypeOK, CallsFunction, workerVars, Null
  <2>2. \A v \in Workers : Fresh(v)' => Fresh(v)
    BY DEF IInv, TypeOK, CallsFunction, workerVars, Fresh, Null
  <2>3. \A v \in Workers : Executes({"work", "notify"}, v)' <=> Executes({"work", "notify"}, v)
    BY DEF CallsFunction, Executes
  <2>4. \A v \in Workers \ {w} : pc'[v] = pc[v]
    BY DEF IInv, TypeOK, CallsFunction, Reaches
  <2> QED
    BY <2>1, <2>2, <2>3, <2>4 DEF IInv, FreshAnnounced, Fresh, CallsFunction, workerVars
<1>5. StopAnnounced'
  BY DEF IInv, StopAnnounced, StopStops, CallsKnown, Executes, CallsFunction, Reaches, Awake,
      Null, workerVars, TypeOK
<1>6. WorkAnnounced'
  BY DEF IInv, WorkAnnounced, CallsKnown, Executes, CallsFunction, Reaches, Awake, Null,
      workerVars, TypeOK
<1>7. EmptyStopping'
  BY DEF IInv, EmptyStopping, StopStops, CallsKnown, Executes, CallsFunction, Reaches, Awake,
      Null, workerVars, TypeOK
<1> QED  BY <1>1, <1>2, <1>3, <1>4, <1>5, <1>6, <1>7 DEF IInv

LEMMA RaceKeeps ==
  ASSUME IInv, RaceOnFunction
  PROVE  IInv'
  BY DEF IInv, RaceOnFunction, workerVars, TypeOK, CallsKnown, StopStops, FreshAnnounced,
     StopAnnounced, WorkAnnounced, EmptyStopping, Fresh, Executes

LEMMA StutterKeeps ==
  ASSUME IInv, UNCHANGED vars
  PROVE  IInv'
  BY DEF IInv, vars, workerVars, TypeOK, CallsKnown, StopStops, FreshAnnounced,
     StopAnnounced, WorkAnnounced, EmptyStopping, Fresh, Executes

-----------------------------------------------------------------------------
(* Every step keeps the invariant.                                                           *)

LEMMA NextInv ==
  ASSUME IInv, [Next]_vars
  PROVE  IInv'
<1>1. ASSUME NEW c \in Callers, NEW w \in Workers, Start(c, w) \/ Stop(c, w)
      PROVE  IInv'
  BY <1>1, StartKeeps, StopKeeps
<1>2. ASSUME NEW c \in Callers, Assigns(c)
      PROVE  IInv'
  <2>1. CASE SetsFunction(c)
    BY <1>2, <2>1, StartAssigns, StopAssigns DEF Assigns, SetsFunction
  <2>2. CASE SetsWork(c)
    <3>1. CASE At(c, "work")
      BY <1>2, <2>2, <3>1, StartMarks DEF Assigns, SetsWork, At
    <3>2. CASE At(c, "unwork")
      BY <1>2, <2>2, <3>2, StopUnmarks DEF Assigns, SetsWork, At
    <3> QED  BY <2>2, <3>1, <3>2 DEF SetsWork
  <2>3. CASE StopClearsStart(c)
    BY <1>2, <2>3, ClearsKeeps DEF Assigns
  <2> QED  BY <1>2, <2>1, <2>2, <2>3 DEF Assigns
<1>3. ASSUME NEW c \in Callers, NotifiesOne(c)
      PROVE  IInv'
  BY <1>3, NotifiesStartKeeps, NotifiesStopKeeps DEF NotifiesOne
<1>4. ASSUME NEW c \in Callers, Waits(c)
      PROVE  IInv'
  BY <1>4, WaitsKeeps
<1>5. ASSUME NEW w \in Workers, Run(w)
      PROVE  IInv'
  BY <1>5, MovesKeeps, MarksKeeps, CallsKeeps DEF Run
<1>6. CASE RaceOnFunction
  BY <1>6, RaceKeeps
<1>7. CASE UNCHANGED vars
  BY <1>7, StutterKeeps
<1> QED
  BY <1>1, <1>2, <1>3, <1>4, <1>5, <1>6, <1>7 DEF Next, CallerStatement, Terminated

LEMMA InvImplies == IInv => TypeOK /\ SleepHasCause
  BY DEF IInv, FreshAnnounced, StopAnnounced, WorkAnnounced, Fresh, SleepHasCause

THEOREM Invariant == Spec => []IInv
<1>1. Init => IInv
  BY InitInv
<1>2. IInv /\ [Next]_vars => IInv'
  BY NextInv
<1> QED  BY <1>1, <1>2, PTL DEF Spec

(* The variables of the thread and its callers keep their types. *)
THEOREM TypeCorrect == Spec => []TypeOK
  BY Invariant, InvImplies, PTL

(* A thread sleeps over a function it has not run, over Stop(), or saying that it works, only *)
(* while its notification is still to come or came too late, for any number of callers.       *)
THEOREM SleepCorrect == Spec => []SleepHasCause
  BY Invariant, InvImplies, PTL
-----------------------------------------------------------------------------
(* How often a function is run. A task is given to one worker, by one call, and counted by   *)
(* none before; and as often as a function may still be run, it was run less.                *)

TasksOnce ==
    /\ \A c \in Callers : call[c].at = "function" =>
        /\ call[c].task \in 1..count /\ runs[call[c].task] = 0
        /\ \A w \in Workers : m_pFunction[w] # call[c].task
        /\ \A d \in Callers \ {c} : call[d].at = "function" => call[d].task # call[c].task
    /\ \A w \in Workers : m_pFunction[w] <= count
    /\ \A w, v \in Workers : m_pFunction[w] = m_pFunction[v] /\ m_pFunction[w] # Null => w = v
    /\ \A t \in Tasks : runs[t] # 0 => t <= count

(* The calls of Start() that have set the function and have yet to notify the worker.        *)
Pending(w) == {c \in Callers : call[c].worker = w /\ call[c].at \in {"work", "notify"}}

(* Whether the pass that run() is in may still run the function.                             *)
Passes(w) ==
    IF pc[w] \in {"test", "mark", "call"} \/ (pc[w] = "loop" /\ m_bStart[w]) THEN 1 ELSE 0

RunsLeft == \A w \in Workers : m_pFunction[w] # Null =>
    runs[m_pFunction[w]] + Passes(w) + Cardinality(Pending(w)) <= 1 + Cardinality(Callers)

RunsInv == IInv /\ TasksOnce /\ RunsLeft /\ RunsBounded

(* Every step gives a task out once: to the call that counts it, and from there to a worker. *)
LEMMA TasksKept ==
  ASSUME IInv, TasksOnce, [Next]_vars
  PROVE  TasksOnce'
<1> USE DEF IInv, TypeOK, Null
<1>1. ASSUME NEW c \in Callers, NEW w \in Workers, Start(c, w)
      PROVE  TasksOnce'
  <2>1. /\ call'[c].at = "function" /\ call'[c].task = count + 1
        /\ \A d \in Callers \ {c} : call'[d] = call[d]
    BY <1>1 DEF Start
  <2>2. count' = count + 1 /\ count + 1 \in Tasks /\ count \in Nat
    BY <1>1, TasksAssumption DEF Start, Tasks
  <2>3. runs[count + 1] = 0 /\ \A v \in Workers : m_pFunction[v] # count + 1
    BY <2>2 DEF TasksOnce, Tasks
  <2>4. \A d \in Callers \ {c} : call'[d].at = "function" => call'[d].task # count + 1
    BY <2>1, <2>2 DEF TasksOnce
  <2>5. \A d \in Callers : call'[d].at = "function" => call'[d].task \in 1..count'
    BY <2>1, <2>2 DEF TasksOnce
  <2>6. UNCHANGED <<m_pFunction, runs>>
    BY <1>1 DEF Start, workerVars
  <2>7. \A v \in Workers : m_pFunction'[v] <= count'
    BY <2>2, <2>6 DEF TasksOnce, Tasks
  <2>8. \A t \in Tasks : runs'[t] # 0 => t <= count'
    BY <2>2, <2>6 DEF TasksOnce, Tasks
  <2>9. \A d \in Callers : call'[d].at = "function" =>
           /\ runs'[call'[d].task] = 0
           /\ \A v \in Workers : m_pFunction'[v] # call'[d].task
           /\ \A e \in Callers \ {d} : call'[e].at = "function" =>
                 call'[e].task # call'[d].task
    BY <2>1, <2>3, <2>4, <2>6 DEF TasksOnce
  <2>10. \A u, v \in Workers :
            m_pFunction'[u] = m_pFunction'[v] /\ m_pFunction'[u] # Null => u = v
    BY <2>6 DEF TasksOnce
  <2> QED  BY <2>5, <2>7, <2>8, <2>9, <2>10 DEF TasksOnce
<1>2. ASSUME NEW c \in Callers, SetsFunction(c), UNCHANGED <<count, runs>>
      PROVE  TasksOnce'
  <2>1. /\ call'[c].at # "function"
        /\ \A d \in Callers \ {c} : call'[d] = call[d]
    BY <1>2, GoesTo DEF SetsFunction, Statements, CallType
  <2>2. /\ call[c].worker \in Workers
        /\ m_pFunction' = [m_pFunction EXCEPT ![call[c].worker] = call[c].task]
    BY <1>2 DEF SetsFunction, At, CallsKnown
  <2>3. CASE call[c].at = "function"
    <3> DEFINE t == call[c].task
    <3>1. /\ t \in 1..count /\ runs[t] = 0 /\ count \in Nat
          /\ \A v \in Workers : m_pFunction[v] # t
          /\ \A d \in Callers \ {c} : call[d].at = "function" => call[d].task # t
      BY <2>3, TasksAssumption DEF TasksOnce
    <3>2. \A v \in Workers : m_pFunction'[v] =
             IF v = call[c].worker THEN t ELSE m_pFunction[v]
      BY <2>2
    <3> HIDE DEF t
    <3>3. \A d \in Callers : call'[d].at = "function" =>
             /\ call'[d].task \in 1..count' /\ runs'[call'[d].task] = 0
             /\ \A v \in Workers : m_pFunction'[v] # call'[d].task
             /\ \A e \in Callers \ {d} : call'[e].at = "function" =>
                   call'[e].task # call'[d].task
      BY <1>2, <2>1, <2>3, <3>1, <3>2 DEF TasksOnce
    <3>4. \A v \in Workers : m_pFunction'[v] <= count'
      BY <1>2, <3>1, <3>2 DEF TasksOnce
    <3>5. \A u, v \in Workers :
             m_pFunction'[u] = m_pFunction'[v] /\ m_pFunction'[u] # Null => u = v
      BY <3>1, <3>2 DEF TasksOnce
    <3>6. \A u \in Tasks : runs'[u] # 0 => u <= count'
      BY <1>2 DEF TasksOnce
    <3> QED  BY <3>3, <3>4, <3>5, <3>6 DEF TasksOnce
  <2>4. CASE call[c].at = "null"
    <3>1. call[c].task = 0 /\ count \in Nat
      BY <2>4, TasksAssumption DEF CallsKnown
    <3>2. \A v \in Workers : m_pFunction'[v] =
             IF v = call[c].worker THEN 0 ELSE m_pFunction[v]
      BY <2>2, <3>1
    <3>3. \A d \in Callers : call'[d].at = "function" =>
             /\ call'[d].task \in 1..count' /\ runs'[call'[d].task] = 0
             /\ \A v \in Workers : m_pFunction'[v] # call'[d].task
             /\ \A e \in Callers \ {d} : call'[e].at = "function" =>
                   call'[e].task # call'[d].task
      BY <1>2, <2>1, <3>1, <3>2 DEF TasksOnce
    <3>4. \A v \in Workers : m_pFunction'[v] <= count'
      BY <1>2, <3>1, <3>2 DEF TasksOnce
    <3>5. \A u, v \in Workers :
             m_pFunction'[u] = m_pFunction'[v] /\ m_pFunction'[u] # Null => u = v
      BY <3>2 DEF TasksOnce
    <3>6. \A u \in Tasks : runs'[u] # 0 => u <= count'
      BY <1>2 DEF TasksOnce
    <3> QED  BY <3>3, <3>4, <3>5, <3>6 DEF TasksOnce
  <2> QED  BY <1>2, <2>3, <2>4 DEF SetsFunction, At
<1>3. ASSUME NEW c \in Callers, UNCHANGED <<m_pFunction, count, runs>>,
             \/ Goes(c, "notify") \/ Goes(c, "unstart") \/ Goes(c, "null")
             \/ Goes(c, "wait") \/ Returns(c)
      PROVE  TasksOnce'
  <2>1. /\ call'[c].at # "function"
        /\ \A d \in Callers \ {c} : call'[d] = call[d]
    BY <1>3, GoesTo, ReturnsTo DEF Statements, CallType, Idle
  <2> QED  BY <1>3, <2>1 DEF TasksOnce
<1>4. ASSUME NEW w \in Workers, CallsFunction(w)
      PROVE  TasksOnce'
  <2>1. /\ UNCHANGED <<m_pFunction, call, count>>
        /\ runs' = [t \in Tasks |-> IF t = m_pFunction[w] THEN runs[t] + 1 ELSE runs[t]]
    BY <1>4 DEF CallsFunction, workerVars
  <2>2. \A t \in Tasks : t # m_pFunction[w] => runs'[t] = runs[t]
    BY <2>1
  <2>3. m_pFunction[w] <= count /\ 1..count \subseteq Tasks
    BY TasksAssumption DEF TasksOnce, Tasks
  <2> QED  BY <2>1, <2>2, <2>3 DEF TasksOnce
<1>5. ASSUME UNCHANGED <<m_pFunction, call, count, runs>>
      PROVE  TasksOnce'
  BY <1>5 DEF TasksOnce
<1>6. ASSUME NEW c \in Callers, NEW w \in Workers, Stop(c, w)
      PROVE  TasksOnce'
  <2>1. /\ call'[c].at # "function"
        /\ \A d \in Callers \ {c} : call'[d] = call[d]
        /\ UNCHANGED <<m_pFunction, count, runs>>
    BY <1>6 DEF Stop, workerVars
  <2> QED  BY <2>1 DEF TasksOnce
<1>7. ASSUME NEW c \in Callers, CallerStatement(c)
      PROVE  TasksOnce'
  BY <1>7, <1>2, <1>3
  DEF CallerStatement, Assigns, SetsWork, StopClearsStart, NotifiesOne, NotifiesStart,
      NotifiesStop, Waits, workerVars
<1>8. ASSUME NEW w \in Workers, Run(w)
      PROVE  TasksOnce'
  BY <1>8, <1>4, <1>5 DEF Run, Moves, Marks, workerVars
<1>9. CASE RaceOnFunction \/ UNCHANGED vars
  BY <1>9, <1>5 DEF RaceOnFunction, vars, workerVars
<1> QED
  BY <1>1, <1>6, <1>7, <1>8, <1>9 DEF Next, Terminated

LEMMA SubsetCardinality ==
  ASSUME IsFiniteSet(Callers), NEW S \in SUBSET Callers, NEW T \in SUBSET S
  PROVE  /\ Cardinality(S) \in Nat /\ Cardinality(T) \in Nat /\ Cardinality(Callers) \in Nat
         /\ Cardinality(T) <= Cardinality(S) /\ Cardinality(S) <= Cardinality(Callers)
<1>1. IsFiniteSet(S) /\ Cardinality(S) <= Cardinality(Callers)
  BY FS_Subset
<1>2. IsFiniteSet(T) /\ Cardinality(T) <= Cardinality(S)
  BY <1>1, FS_Subset
<1> QED  BY <1>1, <1>2, FS_CardinalityType

(* A step that runs nothing, sets no function and neither starts a pass nor a notification   *)
(* leaves as many runs as before, or fewer.                                                  *)
LEMMA RunsLeftKept ==
  ASSUME IsFiniteSet(Callers), IInv, RunsLeft, UNCHANGED <<m_pFunction, runs>>,
         \A w \in Workers : Passes(w)' <= Passes(w) /\ Pending(w)' \subseteq Pending(w)
  PROVE  RunsLeft'
<1> SUFFICES ASSUME NEW w \in Workers, m_pFunction[w] # Null
             PROVE  runs[m_pFunction[w]] + Passes(w)' + Cardinality(Pending(w)')
                      <= 1 + Cardinality(Callers)
  BY DEF RunsLeft
<1>1. Pending(w) \in SUBSET Callers /\ Pending(w)' \in SUBSET Pending(w)
  BY DEF Pending
<1>2. /\ Cardinality(Pending(w)) \in Nat /\ Cardinality(Pending(w)') \in Nat
      /\ Cardinality(Callers) \in Nat /\ Cardinality(Pending(w)') <= Cardinality(Pending(w))
  BY <1>1, SubsetCardinality
<1>3. Passes(w) \in Nat /\ Passes(w)' \in Nat /\ Passes(w)' <= Passes(w)
  BY DEF Passes
<1>4. runs[m_pFunction[w]] \in Nat
  BY DEF IInv, TypeOK, Null
<1>5. runs[m_pFunction[w]] + Passes(w) + Cardinality(Pending(w)) <= 1 + Cardinality(Callers)
  BY DEF RunsLeft
<1> QED  BY <1>2, <1>3, <1>4, <1>5

(* A function that is set was never run, and every caller may be about to notify.            *)
LEMMA SetsLeft ==
  ASSUME IsFiniteSet(Callers), IInv, TasksOnce, RunsLeft, NEW c \in Callers,
         SetsFunction(c), UNCHANGED <<pc, count, runs>>
  PROVE  RunsLeft'
<1> DEFINE w == call[c].worker
           t == call[c].task
<1>1. /\ w \in Workers /\ call' \in [Callers -> CallType]
      /\ call'[c].worker = w /\ \A d \in Callers \ {c} : call'[d] = call[d]
      /\ m_pFunction' = [m_pFunction EXCEPT ![w] = t]
  BY GoesTo DEF SetsFunction, Statements, CallType, IInv, TypeOK, CallsKnown, At
<1>2. t # Null => runs[t] = 0
  BY DEF SetsFunction, At, IInv, CallsKnown, TasksOnce
<1>3. ASSUME NEW v \in Workers, m_pFunction'[v] # Null
      PROVE  runs'[m_pFunction'[v]] + Passes(v)' + Cardinality(Pending(v)')
               <= 1 + Cardinality(Callers)
  <2>1. CASE v = w
    <3>1. m_pFunction'[v] = t /\ runs'[t] = 0
      BY <1>1, <1>2, <1>3, <2>1 DEF IInv, TypeOK
    <3>2. Pending(v)' \in SUBSET Callers
      BY DEF Pending
    <3>3. /\ Cardinality(Pending(v)') \in Nat /\ Cardinality(Callers) \in Nat
          /\ Cardinality(Pending(v)') <= Cardinality(Callers)
      BY <3>2, SubsetCardinality
    <3>4. Passes(v)' \in {0, 1}
      BY DEF Passes
    <3> QED  BY <3>1, <3>3, <3>4
  <2>2. CASE v # w
    <3>1. m_pFunction'[v] = m_pFunction[v]
      BY <1>1, <2>2 DEF IInv, TypeOK
    <3>2. Passes(v)' = Passes(v)
      BY DEF Passes, SetsFunction
    <3>3. Pending(v)' = Pending(v)
      BY <1>1, <2>2 DEF Pending
    <3> QED  BY <1>3, <3>1, <3>2, <3>3 DEF RunsLeft
  <2> QED  BY <2>1, <2>2
<1> QED  BY <1>3 DEF RunsLeft

(* The notification of Start() may start a pass; the call is then no longer pending.         *)
LEMMA NotifiesLeft ==
  ASSUME IsFiniteSet(Callers), IInv, RunsLeft, NEW c \in Callers,
         NotifiesStart(c), UNCHANGED <<workerVars, runs>>
  PROVE  RunsLeft'
<1> DEFINE w == call[c].worker
<1>1. /\ w \in Workers /\ call[c].at = "notify" /\ call'[c] = Idle
      /\ \A d \in Callers \ {c} : call'[d] = call[d]
  BY ReturnsTo DEF NotifiesStart, IInv, TypeOK, CallsKnown, CallType, At
<1>2. ASSUME NEW v \in Workers, m_pFunction[v] # Null
      PROVE  runs[m_pFunction[v]] + Passes(v)' + Cardinality(Pending(v)')
               <= 1 + Cardinality(Callers)
  <2>0. /\ runs[m_pFunction[v]] \in Nat /\ Passes(v) \in {0, 1} /\ Passes(v)' \in {0, 1}
        /\ runs[m_pFunction[v]] + Passes(v) + Cardinality(Pending(v)) <= 1 + Cardinality(Callers)
    BY <1>2 DEF RunsLeft, Passes, IInv, TypeOK, Null
  <2>1. CASE v = w
    <3>1. Pending(v)' = Pending(v) \ {c} /\ c \in Pending(v)
      BY <1>1, <2>1 DEF Pending, Idle
    <3>2. IsFiniteSet(Pending(v)) /\ Pending(v) \in SUBSET Callers
      BY FS_Subset DEF Pending
    <3>3. Cardinality(Pending(v)') = Cardinality(Pending(v)) - 1
      BY <3>1, <3>2, FS_RemoveElement
    <3>4. Cardinality(Pending(v)) \in Nat /\ Cardinality(Callers) \in Nat
      BY <3>2, SubsetCardinality
    <3> QED  BY <2>0, <3>3, <3>4
  <2>2. CASE v # w
    <3>1. Passes(v)' = Passes(v)
      BY <1>1, <2>2 DEF Passes, NotifiesStart, Notifies, workerVars, IInv, TypeOK
    <3>2. Pending(v)' = Pending(v)
      BY <1>1, <2>2 DEF Pending, Idle
    <3> QED  BY <2>0, <3>1, <3>2
  <2> QED  BY <2>1, <2>2
<1> QED  BY <1>2 DEF RunsLeft, workerVars

(* The pass that runs a function ends with it.                                               *)
LEMMA CallsLeft ==
  ASSUME IsFiniteSet(Callers), IInv, TasksOnce, RunsLeft, RunsBounded, NEW w \in Workers,
         CallsFunction(w)
  PROVE  RunsLeft' /\ RunsBounded'
<1>1. /\ UNCHANGED <<workerVars, call>> /\ pc[w] = "call" /\ pc' = [pc EXCEPT ![w] = "running"]
      /\ \A t \in Tasks : runs'[t] = IF t = m_pFunction[w] THEN runs[t] + 1 ELSE runs[t]
  BY DEF CallsFunction, Reaches, IInv, TypeOK
<1>2. \A v \in Workers : Pending(v)' = Pending(v)
  BY <1>1 DEF Pending
<1>3. \A v \in Workers \ {w} : Passes(v)' = Passes(v)
  BY <1>1 DEF Passes, workerVars, IInv, TypeOK
<1>4. Passes(w) = 1 /\ Passes(w)' = 0
  BY <1>1 DEF Passes, workerVars, IInv, TypeOK
<1>5. \A v \in Workers : m_pFunction[v] # Null => m_pFunction[v] \in Tasks
  BY DEF IInv, TypeOK
<1>6. \A t \in Tasks : runs[t] \in Nat
  BY DEF IInv, TypeOK
<1>7. \A v \in Workers :
         /\ Cardinality(Pending(v)) \in Nat /\ Cardinality(Callers) \in Nat
  BY SubsetCardinality DEF Pending
<1>8. RunsLeft'
  <2> SUFFICES ASSUME NEW v \in Workers, m_pFunction[v] # Null
               PROVE  runs'[m_pFunction[v]] + Passes(v)' + Cardinality(Pending(v))
                        <= 1 + Cardinality(Callers)
    BY <1>1, <1>2 DEF RunsLeft, workerVars
  <2>1. runs[m_pFunction[v]] + Passes(v) + Cardinality(Pending(v)) <= 1 + Cardinality(Callers)
    BY DEF RunsLeft
  <2>2. CASE v = w
    <3>1. runs'[m_pFunction[v]] = runs[m_pFunction[v]] + 1
      BY <1>1, <1>5, <2>2
    <3> QED  BY <2>1, <2>2, <3>1, <1>4, <1>5, <1>6, <1>7
  <2>3. CASE v # w
    <3>1. m_pFunction[v] # m_pFunction[w]
      BY <2>3 DEF TasksOnce
    <3> QED  BY <2>1, <2>3, <3>1, <1>1, <1>3, <1>5
  <2> QED  BY <2>2, <2>3
<1>9. RunsBounded'
  <2> SUFFICES ASSUME NEW t \in Tasks PROVE runs'[t] <= 1 + Cardinality(Callers)
    BY DEF RunsBounded
  <2>1. CASE t = m_pFunction[w]
    <3>1. m_pFunction[w] # Null
      BY <2>1 DEF Tasks, Null
    <3>2. runs[t] + 1 + Cardinality(Pending(w)) <= 1 + Cardinality(Callers)
      BY <3>1, <2>1, <1>4 DEF RunsLeft
    <3> QED  BY <3>2, <2>1, <1>1, <1>6, <1>7
  <2>2. CASE t # m_pFunction[w]
    BY <2>2, <1>1 DEF RunsBounded
  <2> QED  BY <2>1, <2>2
<1> QED  BY <1>8, <1>9

LEMMA RunsKept ==
  ASSUME IsFiniteSet(Callers), RunsInv, [Next]_vars
  PROVE  RunsLeft' /\ RunsBounded'
<1> USE DEF RunsInv
<1>1. ASSUME NEW c \in Callers, NEW w \in Workers, Start(c, w) \/ Stop(c, w)
      PROVE  RunsLeft' /\ RunsBounded'
  <2>1. UNCHANGED <<workerVars, pc, runs>> /\ call[c].at = "idle"
    BY <1>1 DEF Start, Stop, At
  <2>2. call'[c].at \in {"function", "unwork"} /\ \A d \in Callers \ {c} : call'[d] = call[d]
    BY <1>1 DEF Start, Stop, IInv, TypeOK
  <2>3. \A v \in Workers : Passes(v)' <= Passes(v) /\ Pending(v)' \subseteq Pending(v)
    BY <2>1, <2>2 DEF Passes, Pending, workerVars
  <2> QED  BY <2>1, <2>3, RunsLeftKept DEF workerVars, RunsBounded
<1>2. ASSUME NEW c \in Callers, Assigns(c)
      PROVE  RunsLeft' /\ RunsBounded'
  <2>0. UNCHANGED <<pc, count, runs>>
    BY <1>2 DEF Assigns
  <2>1. CASE SetsFunction(c)
    BY <2>0, <2>1, SetsLeft DEF RunsBounded
  <2>2. CASE SetsWork(c) \/ StopClearsStart(c)
    <3>1. /\ m_pFunction' = m_pFunction
          /\ \A v \in Workers : m_bStart'[v] => m_bStart[v]
      BY <2>2 DEF SetsWork, StopClearsStart, IInv, TypeOK
    <3>2. /\ call'[c].worker = call[c].worker
          /\ call'[c].at \in {"work", "notify"} => call[c].at \in {"work", "notify"}
          /\ \A d \in Callers \ {c} : call'[d] = call[d]
      BY <2>2, GoesTo DEF SetsWork, StopClearsStart, At, Statements, CallType, IInv, TypeOK
    <3>3. \A v \in Workers : Passes(v)' <= Passes(v)
      BY <2>0, <3>1 DEF Passes
    <3>4. \A v \in Workers : Pending(v)' \subseteq Pending(v)
      BY <3>2 DEF Pending
    <3> QED  BY <2>0, <3>1, <3>3, <3>4, RunsLeftKept DEF RunsBounded
  <2> QED  BY <1>2, <2>1, <2>2 DEF Assigns
<1>3. ASSUME NEW c \in Callers, NotifiesOne(c)
      PROVE  RunsLeft' /\ RunsBounded'
  <2>0. UNCHANGED <<workerVars, runs>>
    BY <1>3 DEF NotifiesOne
  <2>1. CASE NotifiesStart(c)
    BY <2>0, <2>1, NotifiesLeft DEF RunsBounded
  <2>2. CASE NotifiesStop(c)
    <3>1. /\ call[c].at = "notifyStop" /\ call'[c].at = "wait"
          /\ \A d \in Callers \ {c} : call'[d] = call[d]
      BY <2>2, GoesTo DEF NotifiesStop, At, Statements, CallType, IInv, TypeOK
    <3>2. call[c].worker \in Workers /\ ~m_bStart[call[c].worker]
      BY <3>1 DEF IInv, StopStops, CallsKnown
    <3>3. \A v \in Workers : pc'[v] = pc[v] \/ (pc'[v] = "loop" /\ v = call[c].worker)
      BY <2>2 DEF NotifiesStop, Notifies, IInv, TypeOK
    <3>4. \A v \in Workers : Passes(v)' <= Passes(v)
      BY <2>0, <3>2, <3>3 DEF Passes, workerVars
    <3>5. \A v \in Workers : Pending(v)' \subseteq Pending(v)
      BY <3>1 DEF Pending
    <3> QED  BY <2>0, <3>4, <3>5, RunsLeftKept DEF RunsBounded, workerVars
  <2> QED  BY <1>3, <2>1, <2>2 DEF NotifiesOne
<1>4. ASSUME NEW c \in Callers, Waits(c)
      PROVE  RunsLeft' /\ RunsBounded'
  <2>1. /\ UNCHANGED <<workerVars, pc, runs>> /\ call'[c].at = "idle"
        /\ \A d \in Callers \ {c} : call'[d] = call[d]
    BY <1>4, ReturnsTo DEF Waits, CallType, IInv, TypeOK, Idle
  <2>2. \A v \in Workers : Passes(v)' <= Passes(v) /\ Pending(v)' \subseteq Pending(v)
    BY <2>1 DEF Passes, Pending, workerVars
  <2> QED  BY <2>1, <2>2, RunsLeftKept DEF RunsBounded, workerVars
<1>5. ASSUME NEW w \in Workers, Moves(w) \/ Marks(w),
             UNCHANGED <<m_bStart, m_pFunction, call, runs>>
      PROVE  RunsLeft' /\ RunsBounded'
  <2>1. \A v \in Workers : Passes(v)' <= Passes(v)
    BY <1>5 DEF Passes, Moves, Marks, Parks, Reaches, IInv, TypeOK
  <2>2. \A v \in Workers : Pending(v)' \subseteq Pending(v)
    BY <1>5 DEF Pending
  <2> QED  BY <1>5, <2>1, <2>2, RunsLeftKept DEF RunsBounded
<1>6. ASSUME NEW w \in Workers, Run(w)
      PROVE  RunsLeft' /\ RunsBounded'
  BY <1>5, <1>6, CallsLeft DEF Run, Moves, workerVars
<1>7. CASE RaceOnFunction \/ UNCHANGED vars
  <2>1. UNCHANGED <<workerVars, pc, call, runs>>
    BY <1>7 DEF RaceOnFunction, vars
  <2>2. \A v \in Workers : Passes(v)' <= Passes(v) /\ Pending(v)' \subseteq Pending(v)
    BY <2>1 DEF Passes, Pending, workerVars
  <2> QED  BY <2>1, <2>2, RunsLeftKept DEF RunsBounded, workerVars
<1> QED
  BY <1>1, <1>2, <1>3, <1>4, <1>6, <1>7 DEF Next, CallerStatement, Terminated

LEMMA RunsInit ==
  ASSUME IsFiniteSet(Callers), Init
  PROVE  RunsInv
<1>1. IInv
  BY InitInv
<1>2. TasksOnce
  BY TasksAssumption DEF Init, TasksOnce, Idle, Null, Tasks
<1>3. RunsLeft
  BY DEF Init, RunsLeft
<1>4. Cardinality(Callers) \in Nat
  BY FS_CardinalityType
<1>5. RunsBounded
  BY <1>4 DEF Init, RunsBounded
<1> QED  BY <1>1, <1>2, <1>3, <1>5 DEF RunsInv

(* However many callers start and stop the workers, a function is run at most once more than *)
(* there are callers: in the pass that finds it, and once for each pending notification.     *)
THEOREM RunsCorrect ==
  ASSUME IsFiniteSet(Callers)
  PROVE  Spec => []RunsBounded
<1>1. Init => RunsInv
  BY RunsInit
<1>2. RunsInv /\ [Next]_vars => RunsInv'
  BY NextInv, TasksKept, RunsKept DEF RunsInv
<1>3. RunsInv => RunsBounded
  BY DEF RunsInv
<1> QED  BY <1>1, <1>2, <1>3, PTL DEF Spec
=============================================================================
