--------------------------- MODULE MonitorSerial ---------------------------
(***************************************************************************)
(* QCatGrayMonitorSerial: a singleton thread that polls the serial ports   *)
(* and emits UpdateSerial(adds, dels) when the set of port names changes.  *)
(*                                                                         *)
(* QSerialPortInfo::availablePorts() is external: it returns the ports     *)
(* plugged in at one moment.  A QSerialPortInfo is reduced to the identity *)
(* of the device.  The signal is seen by a listener that folds it into a   *)
(* set of names.  Delete() is called while no other call is in progress    *)
(* (it destroys the mutex the other calls would lock); Instance() and      *)
(* Start() may race with each other.  run() is entered once in a process,  *)
(* so its static FirstTimeExamine is TheFirstTimeExamine as run() finds    *)
(* it.                                                                     *)
(***************************************************************************)
EXTENDS Integers, FiniteSets

CONSTANTS
    Ports,    \* port names
    Devices,  \* what can be plugged into a port
    Callers,  \* the threads that use the singleton
    None

ASSUME PortsAssumption == IsFiniteSet(Ports)
ASSUME NoDeviceAssumption == None \notin Devices \cup Callers

VARIABLES
    plugged,             \* the device at each port, or None
    instance,            \* _instance is not null
    objects,             \* history: how many QCatGrayMonitorSerial exist
    mutex,               \* m_pMutex is not null
    holder,              \* who has locked it
    m_bStart,
    TheFirstTimeExamine,
    caller,              \* where each thread is in its call
    pc,                  \* where run() is
    known,               \* m_lSerialPortInfo: port -> device, or None
    adds, dels,          \* the names in the lists of the signal
    view,                \* history: the ports a listener of UpdateSerial knows of
    quiet                \* history: polls since the last change of a port, up to 3

apiVars  == <<instance, objects, mutex, holder, m_bStart, TheFirstTimeExamine, caller>>
runVars  == <<pc, known, adds, dels, view>>
vars == <<plugged, instance, objects, mutex, holder, m_bStart, TheFirstTimeExamine, caller,
          pc, known, adds, dels, view, quiet>>

Table == [Ports -> Devices \cup {None}]
Empty == [p \in Ports |-> None]
Names(table) == {p \in Ports : table[p] # None}

CallerStates == {"idle", "lock", "create", "construct", "start", "wait", "crashed"}
RunStates == {"none", "begin", "poll", "emit", "sleep", "finished"}

TypeOK ==
    /\ plugged \in Table
    /\ instance \in BOOLEAN
    /\ objects \in Int
    /\ mutex \in BOOLEAN
    /\ holder \in Callers \cup {None}
    /\ m_bStart \in BOOLEAN
    /\ TheFirstTimeExamine \in BOOLEAN
    /\ caller \in [Callers -> CallerStates]
    /\ pc \in RunStates
    /\ known \in Table
    /\ adds \subseteq Ports
    /\ dels \subseteq Ports
    /\ view \subseteq Ports
    /\ quiet \in 0..3

Init ==
    /\ plugged \in Table
    /\ instance = FALSE
    /\ objects = 0
    /\ mutex = TRUE
    /\ holder = None
    /\ m_bStart = FALSE
    /\ TheFirstTimeExamine = FALSE
    /\ caller = [c \in Callers |-> "idle"]
    /\ pc = "none"
    /\ known = Empty
    /\ adds = {}
    /\ dels = {}
    /\ view = {}
    /\ quiet = 0

-----------------------------------------------------------------------------
(* The hardware.                                                           *)

Plug(p) ==
    /\ plugged[p] = None
    /\ \E d \in Devices : plugged' = [plugged EXCEPT ![p] = d]
    /\ quiet' = 0
    /\ UNCHANGED <<apiVars, runVars>>

Unplug(p) ==
    /\ plugged[p] # None
    /\ plugged' = [plugged EXCEPT ![p] = None]
    /\ quiet' = 0
    /\ UNCHANGED <<apiVars, runVars>>

-----------------------------------------------------------------------------
(* The callers.                                                            *)

MayCall(c) == caller[c] = "idle" /\ \A b \in Callers : caller[b] # "wait"

(* Instance(): the first test of _instance finds it null. *)
Instance(c) ==
    /\ MayCall(c)
    /\ ~instance
    /\ caller' = [caller EXCEPT ![c] = "lock"]
    /\ UNCHANGED <<plugged, instance, objects, mutex, holder, m_bStart, TheFirstTimeExamine,
                   runVars, quiet>>

(* m_pMutex->lock(), which after the Delete() of a started monitor dereferences null. *)
InstanceLock(c) ==
    /\ caller[c] = "lock"
    /\ IF mutex
       THEN /\ holder = None
            /\ holder' = c
            /\ caller' = [caller EXCEPT ![c] = "create"]
       ELSE /\ caller' = [caller EXCEPT ![c] = "crashed"]
            /\ UNCHANGED holder
    /\ UNCHANGED <<plugged, instance, objects, mutex, m_bStart, TheFirstTimeExamine, runVars,
                   quiet>>

(* Mutant: no second test. *)
InstanceWithoutTest(c) ==
    /\ caller[c] = "create"
    /\ caller' = [caller EXCEPT ![c] = "construct"]
    /\ UNCHANGED <<plugged, instance, objects, mutex, holder, m_bStart, TheFirstTimeExamine,
                   runVars, quiet>>

(* The second test, under the lock. *)
InstanceTest(c) ==
    /\ caller[c] = "create"
    /\ IF instance THEN caller' = [caller EXCEPT ![c] = "idle"] /\ holder' = None
                   ELSE caller' = [caller EXCEPT ![c] = "construct"] /\ UNCHANGED holder
    /\ UNCHANGED <<plugged, instance, objects, mutex, m_bStart, TheFirstTimeExamine, runVars,
                   quiet>>

(* The constructor, the assignment to _instance and unlock(). *)
InstanceCreate(c) ==
    /\ caller[c] = "construct"
    /\ instance' = TRUE
    /\ objects' = objects + 1
    /\ known' = Empty
    /\ holder' = None
    /\ caller' = [caller EXCEPT ![c] = "idle"]
    /\ UNCHANGED <<plugged, mutex, m_bStart, TheFirstTimeExamine, pc, adds, dels, view, quiet>>

(* Start(): the test of IsStart(), without a lock. *)
Start(c) ==
    /\ MayCall(c)
    /\ instance
    /\ ~m_bStart
    /\ caller' = [caller EXCEPT ![c] = "start"]
    /\ UNCHANGED <<plugged, instance, objects, mutex, holder, m_bStart, TheFirstTimeExamine,
                   runVars, quiet>>

(* Its body; QThread::start() does nothing when the thread runs. *)
StartBody(c) ==
    /\ caller[c] = "start"
    /\ m_bStart' = TRUE
    /\ TheFirstTimeExamine' \in BOOLEAN
    /\ pc' = IF pc = "none" THEN "begin" ELSE pc
    /\ caller' = [caller EXCEPT ![c] = "idle"]
    /\ UNCHANGED <<plugged, instance, objects, mutex, holder, known, adds, dels, view, quiet>>

(* Delete() of a monitor that was not started. *)
DeleteUnstarted(c) ==
    /\ \A b \in Callers : caller[b] = "idle"
    /\ instance
    /\ ~m_bStart
    /\ instance' = FALSE
    /\ objects' = objects - 1
    /\ UNCHANGED <<plugged, mutex, holder, m_bStart, TheFirstTimeExamine, caller, runVars, quiet>>

(* Delete() of one that was: clear m_bStart, then wait() for the thread. *)
Delete(c) ==
    /\ \A b \in Callers : caller[b] = "idle"
    /\ instance
    /\ m_bStart
    /\ m_bStart' = FALSE
    /\ caller' = [caller EXCEPT ![c] = "wait"]
    /\ UNCHANGED <<plugged, instance, objects, mutex, holder, TheFirstTimeExamine, runVars, quiet>>

(* Mutant: Delete() does not wait for the thread. *)
DeleteWithoutWait(c) ==
    /\ caller[c] = "wait"
    /\ mutex' = FALSE
    /\ instance' = FALSE
    /\ objects' = objects - 1
    /\ caller' = [caller EXCEPT ![c] = "idle"]
    /\ UNCHANGED <<plugged, holder, m_bStart, TheFirstTimeExamine, runVars, quiet>>

(* wait() returns: the mutex and the instance are deleted. *)
DeleteReturns(c) ==
    /\ caller[c] = "wait"
    /\ pc = "finished"
    /\ mutex' = FALSE
    /\ instance' = FALSE
    /\ objects' = objects - 1
    /\ caller' = [caller EXCEPT ![c] = "idle"]
    /\ UNCHANGED <<plugged, holder, m_bStart, TheFirstTimeExamine, runVars, quiet>>

-----------------------------------------------------------------------------
(* run().                                                                  *)

NextTurn == IF m_bStart THEN "poll" ELSE "finished"

(* Up to the loop: the ports of this moment are known from the start, unless the first *)
(* examination is to report them.                                                      *)
RunBegins ==
    /\ pc = "begin"
    /\ known' = IF TheFirstTimeExamine THEN known ELSE plugged
    /\ view' = Names(known')
    /\ pc' = NextTurn
    /\ UNCHANGED <<plugged, apiVars, adds, dels, quiet>>

(* One turn: the difference between the ports of this moment and the known ones, by the *)
(* case of the code on which of the two is larger.                                      *)
FewerKnown == Cardinality(Names(known)) < Cardinality(Names(plugged))
MoreKnown  == Cardinality(Names(known)) > Cardinality(Names(plugged))

Inserted == Names(plugged) \ Names(known)
Removed  == Names(known) \ Names(plugged)

(* Mutants: equal numbers are taken to mean that nothing was inserted, or removed. *)
AddsIfFewer == IF FewerKnown THEN Inserted ELSE {}
DelsIfMore  == IF MoreKnown  THEN Removed  ELSE {}

AddsOfPoll == IF MoreKnown  THEN {} ELSE Inserted
DelsOfPoll == IF FewerKnown THEN {} ELSE Removed

(* Mutant: the names that were removed stay in m_lSerialPortInfo. *)
KnownKeepsRemoved ==
    [p \in Ports |-> IF FewerKnown THEN IF p \in Names(known) THEN known[p] ELSE plugged[p]
                     ELSE IF MoreKnown THEN known[p]
                     ELSE plugged[p]]

(* Mutant: for equal numbers only the names are compared, and the entries kept. *)
KnownKeepsDevices ==
    [p \in Ports |-> IF p \in Names(known) /\ p \in Names(plugged) THEN known[p]
                     ELSE IF FewerKnown /\ p \in Names(known) THEN known[p]
                     ELSE IF MoreKnown THEN None
                     ELSE plugged[p]]

KnownAfterPoll ==
    [p \in Ports |-> IF FewerKnown THEN IF p \in Names(known) THEN known[p] ELSE plugged[p]
                     ELSE IF MoreKnown THEN IF p \in Names(plugged) THEN known[p] ELSE None
                     ELSE plugged[p]]

Poll ==
    /\ pc = "poll"
    /\ adds' = AddsOfPoll
    /\ dels' = DelsOfPoll
    /\ known' = KnownAfterPoll
    /\ pc' = IF adds' # {} \/ dels' # {} THEN "emit" ELSE "sleep"
    /\ quiet' = IF quiet < 3 THEN quiet + 1 ELSE 3
    /\ UNCHANGED <<plugged, apiVars, view>>

(* emit UpdateSerial(adds, dels). *)
UpdateSerial ==
    /\ pc = "emit"
    /\ view' = (view \cup adds) \ dels
    /\ adds' = {}
    /\ dels' = {}
    /\ pc' = "sleep"
    /\ UNCHANGED <<plugged, apiVars, known, quiet>>

(* Mutant: the loop does not test m_bStart again. *)
WakesRegardless ==
    /\ pc = "sleep"
    /\ pc' = "poll"
    /\ UNCHANGED <<plugged, apiVars, known, adds, dels, view, quiet>>

(* msleep(FrequencyTime), then the test of m_bStart. *)
Wakes ==
    /\ pc = "sleep"
    /\ pc' = NextTurn
    /\ UNCHANGED <<plugged, apiVars, known, adds, dels, view, quiet>>

Run == RunBegins \/ Poll \/ UpdateSerial \/ Wakes

Call(c) ==
    \/ Instance(c)
    \/ InstanceLock(c)
    \/ InstanceTest(c)
    \/ InstanceCreate(c)
    \/ Start(c)
    \/ StartBody(c)
    \/ DeleteUnstarted(c)
    \/ Delete(c)
    \/ DeleteReturns(c)

Next ==
    \/ \E p \in Ports : Plug(p) \/ Unplug(p)
    \/ \E c \in Callers : Call(c)
    \/ Run

Spec == Init /\ [][Next]_vars

(* The thread is scheduled, sleeps for a finite time, and wait() returns once it is over. *)
FairSpec == Spec /\ WF_vars(Run) /\ \A c \in Callers : WF_vars(DeleteReturns(c))

-----------------------------------------------------------------------------
(* Instance() never makes a second object, whatever threads race through its two tests,  *)
(* and Delete() leaves none behind.                                                       *)
SingleInstance == objects = IF instance THEN 1 ELSE 0

Running == pc \notin {"none", "finished"}

(* The thread never runs on a deleted object: Delete() returns after run() has. *)
ThreadOwned == Running => instance

(* A listener that applies every UpdateSerial knows the ports the monitor knows: a name    *)
(* enters or leaves m_lSerialPortInfo only together with a signal that says so, in each of *)
(* the three cases of run().                                                               *)
ListenerInSync == pc \in {"poll", "sleep"} => view = Names(known)

(* run() reports insertions and removals in one poll only when their numbers are equal,    *)
(* but never needs more than two: two polls after the last change the known names are the  *)
(* names plugged in.                                                                       *)
TwoPollsConverge == quiet >= 2 => Names(known) = Names(plugged)

(* A port whose device was exchanged between two polls keeps its old QSerialPortInfo for   *)
(* as long as the numbers of names differ, and not longer: three polls after the last      *)
(* change m_lSerialPortInfo is what is plugged in.                                         *)
ThreePollsExact == quiet >= 3 => known = plugged

(* QCatGrayMonitorSerial.h:81 says of UpdateSerial: get the ports that were inserted and   *)
(* the ports that were removed at the same time.  A poll should then report both.          *)
PollReportsBoth == [][Poll => adds' = Inserted /\ dels' = Removed]_vars

(* A port that stays plugged in is reported, and one that stays unplugged is reported as   *)
(* removed, however the other ports change meanwhile: the cases of run() that skip it      *)
(* cannot be met for ever.                                                                 *)
InsertionReported ==
    \A p \in Ports : Running /\ plugged[p] # None /\ p \notin view
                         ~> p \in view \/ plugged[p] = None \/ ~Running
RemovalReported ==
    \A p \in Ports : Running /\ plugged[p] = None /\ p \in view
                         ~> p \notin view \/ plugged[p] # None \/ ~Running

(* Delete() returns: the thread sees m_bStart cleared and ends. *)
DeleteEnds == \A c \in Callers : caller[c] = "wait" ~> caller[c] = "idle"
=============================================================================
