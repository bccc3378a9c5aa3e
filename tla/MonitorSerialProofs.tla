------------------------ MODULE MonitorSerialProofs ------------------------
(* Theorems about MonitorSerial, for any finite set of ports, any devices and callers. *)
EXTENDS MonitorSerial, FiniteSetTheorems, TLAPS

LEMMA TypeInit == Init => TypeOK
<1> SUFFICES ASSUME Init PROVE TypeOK
    OBVIOUS
<1>1. plugged \in Table /\ known \in Table
    BY DEF Init, Table, Empty
<1>2. caller \in [Callers -> CallerStates] /\ pc \in RunStates
    BY DEF Init, CallerStates, RunStates
<1>3. objects \in Int /\ quiet \in 0..3
    BY DEF Init
<1> QED
    BY <1>1, <1>2, <1>3, Zenon DEF Init, TypeOK

LEMMA TypeStep == TypeOK /\ [Next]_vars => TypeOK'
<1> SUFFICES ASSUME TypeOK, [Next]_vars PROVE TypeOK'
    OBVIOUS
<1> USE DEF TypeOK, Table, CallerStates, RunStates, apiVars, runVars
<1>1. ASSUME NEW p \in Ports, Plug(p) \/ Unplug(p) PROVE TypeOK'
    BY <1>1 DEF Plug, Unplug
<1>2. ASSUME NEW c \in Callers, Call(c) PROVE TypeOK'
  <2>1. CASE Instance(c) \/ InstanceLock(c) \/ InstanceTest(c)
      BY <2>1 DEF Instance, InstanceLock, InstanceTest
  <2>2. CASE InstanceCreate(c)
    <3>1. known' \in Table
        BY <2>2 DEF InstanceCreate, Empty
    <3> QED
        BY <2>2, <3>1 DEF InstanceCreate
  <2>3. CASE Start(c) \/ StartBody(c)
      BY <2>3 DEF Start, StartBody
  <2>4. CASE DeleteUnstarted(c)
    <3>1. objects' \in Int
        BY <2>4 DEF DeleteUnstarted
    <3>2. caller' \in [Callers -> CallerStates]
        BY <2>4 DEF DeleteUnstarted
    <3> QED
        BY <2>4, <3>1, <3>2, Zenon DEF DeleteUnstarted
  <2>5. CASE Delete(c)
      BY <2>5 DEF Delete
  <2>6. CASE DeleteReturns(c)
    <3>1. objects' \in Int
        BY <2>6 DEF DeleteReturns
    <3>2. caller' \in [Callers -> CallerStates]
        BY <2>6 DEF DeleteReturns
    <3> QED
        BY <2>6, <3>1, <3>2, Zenon DEF DeleteReturns
  <2> QED
      BY <1>2, <2>1, <2>2, <2>3, <2>4, <2>5, <2>6, Zenon DEF Call
<1>3. CASE RunBegins
    BY <1>3 DEF RunBegins, NextTurn, Names
<1>4. CASE Poll
  <2>1. AddsOfPoll \subseteq Ports /\ DelsOfPoll \subseteq Ports
      BY DEF AddsOfPoll, DelsOfPoll, Inserted, Removed, Names
  <2>2. KnownAfterPoll \in Table
      BY DEF KnownAfterPoll
  <2> QED
      BY <1>4, <2>1, <2>2 DEF Poll
<1>5. CASE UpdateSerial
    BY <1>5 DEF UpdateSerial
<1>6. CASE Wakes
    BY <1>6 DEF Wakes, NextTurn
<1>7. CASE UNCHANGED vars
    BY <1>7 DEF vars
<1> QED
    BY <1>1, <1>2, <1>3, <1>4, <1>5, <1>6, <1>7 DEF Next, Run

(* Type correctness: every variable keeps its type. *)
THEOREM TypeCorrect == Spec => []TypeOK
BY TypeInit, TypeStep, PTL DEF Spec

-----------------------------------------------------------------------------
(* The life of the singleton.                                              *)

(* A thread between the tests of Instance() holds the mutex; the thread of run() exists   *)
(* from Start() to the end of the wait in Delete(), during which nobody else is in a call; *)
(* a started monitor, once deleted, is never made again.                                   *)
LifeInv ==
    /\ \A c \in Callers : caller[c] \in {"create", "construct"} => mutex /\ holder = c
    /\ \A c \in Callers : caller[c] = "construct" => ~instance
    /\ \A c \in Callers : caller[c] = "start" => instance
    /\ \A c \in Callers : caller[c] = "wait" =>
           /\ instance /\ ~m_bStart /\ pc # "none"
           /\ \A b \in Callers \ {c} : caller[b] = "idle"
    /\ ~instance /\ mutex => pc = "none"
    /\ ~mutex => ~instance /\ pc = "finished"
    /\ m_bStart => pc \notin {"none", "finished"}
    /\ instance /\ ~m_bStart => pc = "none" \/ \E c \in Callers : caller[c] = "wait"
    /\ Running => instance
    /\ SingleInstance

LEMMA LifeStep == TypeOK /\ LifeInv /\ [Next]_vars => LifeInv'
<1> SUFFICES ASSUME TypeOK, LifeInv, [Next]_vars PROVE LifeInv'
    OBVIOUS
<1> USE NoDeviceAssumption
<1> USE DEF LifeInv, TypeOK, CallerStates, RunStates, apiVars, runVars, Running, SingleInstance
<1>1. ASSUME NEW p \in Ports, Plug(p) \/ Unplug(p) PROVE LifeInv'
    BY <1>1 DEF Plug, Unplug
<1>2. ASSUME NEW c \in Callers, Call(c) PROVE LifeInv'
  <2>1. CASE Instance(c)
      BY <2>1 DEF Instance, MayCall
  <2>2. CASE InstanceLock(c)
      BY <2>2 DEF InstanceLock
  <2>3. CASE InstanceTest(c)
      BY <2>3 DEF InstanceTest
  <2>4. CASE InstanceCreate(c)
      BY <2>4 DEF InstanceCreate
  <2>5. CASE Start(c)
      BY <2>5 DEF Start, MayCall
  <2>6. CASE StartBody(c)
      BY <2>6 DEF StartBody
  <2>7. CASE DeleteUnstarted(c)
      BY <2>7 DEF DeleteUnstarted
  <2>8. CASE Delete(c)
      BY <2>8 DEF Delete
  <2>9. CASE DeleteReturns(c)
      BY <2>9 DEF DeleteReturns
  <2> QED
      BY <1>2, <2>1, <2>2, <2>3, <2>4, <2>5, <2>6, <2>7, <2>8, <2>9, Zenon DEF Call
<1>3. CASE Run
  <2>1. /\ UNCHANGED apiVars
        /\ Running
        /\ pc' \notin {"none", "begin"}
        /\ pc' = "finished" => ~m_bStart
      BY <1>3 DEF Run, RunBegins, Poll, UpdateSerial, Wakes, NextTurn
  <2> QED
      BY <2>1
<1>4. CASE UNCHANGED vars
    BY <1>4 DEF vars
<1> QED
    BY <1>1, <1>2, <1>3, <1>4 DEF Next

LEMMA LifeAlways == Spec => []LifeInv
<1>1. Init => LifeInv
    BY DEF Init, LifeInv, SingleInstance, Running
<1> QED
    BY <1>1, LifeStep, TypeCorrect, PTL DEF Spec

(* The double-checked Instance() makes one object at a time, for any number of threads. *)
THEOREM OneInstance == Spec => []SingleInstance
<1>1. LifeInv => SingleInstance
    BY DEF LifeInv
<1> QED
    BY <1>1, LifeAlways, PTL

(* The polling thread runs only on a live object. *)
THEOREM ThreadIsOwned == Spec => []ThreadOwned
<1>1. LifeInv => ThreadOwned
    BY DEF LifeInv, ThreadOwned
<1> QED
    BY <1>1, LifeAlways, PTL

-----------------------------------------------------------------------------
(* What a poll does to the tables.                                         *)

LEMMA NamesFinite == \A table : IsFiniteSet(Names(table))
BY PortsAssumption, FS_Subset DEF Names

(* The names known after a poll, case by case: the known names grow by the inserted ones, *)
(* or shrink by the removed ones, or are replaced.                                         *)
LEMMA PollNames ==
    ASSUME TypeOK
    PROVE  Names(KnownAfterPoll) = (Names(known) \cup AddsOfPoll) \ DelsOfPoll
<1>1. CASE FewerKnown
  <2>1. ~MoreKnown
      BY <1>1, NamesFinite, FS_CardinalityType DEF FewerKnown, MoreKnown
  <2> QED
      BY <1>1, <2>1 DEF Names, KnownAfterPoll, AddsOfPoll, DelsOfPoll, Inserted
<1>2. CASE ~FewerKnown
    BY <1>2 DEF Names, KnownAfterPoll, AddsOfPoll, DelsOfPoll, Inserted, Removed
<1> QED
    BY <1>1, <1>2

(* One poll makes the known names and the plugged ones comparable, a poll of comparable   *)
(* ones makes them equal, a poll of equal ones makes the tables equal.                     *)
LEMMA PollConverges ==
    ASSUME TypeOK
    PROVE  /\ \/ Names(KnownAfterPoll) \subseteq Names(plugged)
              \/ Names(plugged) \subseteq Names(KnownAfterPoll)
           /\ Names(known) \subseteq Names(plugged) \/ Names(plugged) \subseteq Names(known)
                  => Names(KnownAfterPoll) = Names(plugged)
           /\ Names(known) = Names(plugged) => KnownAfterPoll = plugged
<1> DEFINE K == Names(known)
           P == Names(plugged)
<1>1. IsFiniteSet(K) /\ IsFiniteSet(P) /\ Cardinality(K) \in Nat /\ Cardinality(P) \in Nat
    BY NamesFinite, FS_CardinalityType
<1>2. CASE FewerKnown
  <2>1. Names(KnownAfterPoll) = K \cup P
      BY <1>2 DEF Names, KnownAfterPoll
  <2>2. ~(P \subseteq K)
      BY <1>1, <1>2, FS_Subset DEF FewerKnown
  <2>3. K # P
      BY <2>2
  <2> QED
      BY <2>1, <2>2, <2>3
<1>3. CASE MoreKnown
  <2>1. Names(KnownAfterPoll) = K \cap P
      BY <1>1, <1>3 DEF Names, KnownAfterPoll, FewerKnown, MoreKnown
  <2>2. ~(K \subseteq P)
      BY <1>1, <1>3, FS_Subset DEF MoreKnown
  <2>3. K # P
      BY <2>2
  <2> QED
      BY <2>1, <2>2, <2>3
<1>4. CASE ~FewerKnown /\ ~MoreKnown
    BY <1>4 DEF KnownAfterPoll, TypeOK, Table
<1> QED
    BY <1>2, <1>3, <1>4

-----------------------------------------------------------------------------
(* Convergence.                                                            *)

QuietInv ==
    /\ quiet > 0 => pc \notin {"none", "begin"}
    /\ quiet >= 1 => \/ Names(known) \subseteq Names(plugged)
                     \/ Names(plugged) \subseteq Names(known)
    /\ TwoPollsConverge
    /\ ThreePollsExact

LEMMA QuietStep == TypeOK /\ LifeInv /\ QuietInv /\ [Next]_vars => QuietInv'
<1> SUFFICES ASSUME TypeOK, LifeInv, QuietInv, [Next]_vars PROVE QuietInv'
    OBVIOUS
<1> USE DEF QuietInv, TwoPollsConverge, ThreePollsExact, apiVars, runVars
<1>1. ASSUME NEW p \in Ports, Plug(p) \/ Unplug(p) PROVE QuietInv'
    BY <1>1 DEF Plug, Unplug
<1>2. ASSUME NEW c \in Callers, Call(c) PROVE QuietInv'
  <2>1. CASE InstanceCreate(c)
    <3>1. pc = "none" /\ quiet = 0
        BY <2>1 DEF InstanceCreate, LifeInv, TypeOK
    <3> QED
        BY <2>1, <3>1 DEF InstanceCreate
  <2>2. CASE StartBody(c)
    <3>1. pc' = pc \/ (pc = "none" /\ quiet = 0)
        BY <2>2 DEF StartBody, TypeOK
    <3>2. UNCHANGED <<plugged, known, quiet>>
        BY <2>2 DEF StartBody
    <3> QED
        BY <3>1, <3>2
  <2>3. CASE ~InstanceCreate(c) /\ ~StartBody(c)
    <3>1. UNCHANGED <<plugged, pc, known, quiet>>
        BY <1>2, <2>3, Zenon DEF Call, Instance, InstanceLock, InstanceTest, Start,
           DeleteUnstarted, Delete, DeleteReturns
    <3> QED
        BY <3>1
  <2> QED
      BY <2>1, <2>2, <2>3
<1>3. CASE RunBegins
    BY <1>3 DEF RunBegins, NextTurn, TypeOK
<1>4. CASE Poll
  <2>1. known' = KnownAfterPoll /\ plugged' = plugged
        /\ quiet' = IF quiet < 3 THEN quiet + 1 ELSE 3
      BY <1>4 DEF Poll
  <2>2. pc' \notin {"none", "begin"}
      BY <1>4 DEF Poll
  <2>3. quiet \in 0..3
      BY DEF TypeOK
  <2> QED
      BY <2>1, <2>2, <2>3, PollConverges
<1>5. CASE UpdateSerial \/ Wakes
    BY <1>5 DEF UpdateSerial, Wakes, NextTurn
<1>6. CASE UNCHANGED vars
    BY <1>6 DEF vars
<1> QED
    BY <1>1, <1>2, <1>3, <1>4, <1>5, <1>6 DEF Next, Run

LEMMA QuietAlways == Spec => []QuietInv
<1>1. Init => QuietInv
    BY DEF Init, QuietInv, TwoPollsConverge, ThreePollsExact
<1> QED
    BY <1>1, QuietStep, LifeAlways, TypeCorrect, PTL DEF Spec

(* Two polls after the last change of a port the monitor knows the names plugged in. *)
THEOREM NamesConverge == Spec => []TwoPollsConverge
<1>1. QuietInv => TwoPollsConverge
    BY DEF QuietInv
<1> QED
    BY <1>1, QuietAlways, PTL

(* Three polls after it, the devices too. *)
THEOREM DevicesConverge == Spec => []ThreePollsExact
<1>1. QuietInv => ThreePollsExact
    BY DEF QuietInv
<1> QED
    BY <1>1, QuietAlways, PTL

-----------------------------------------------------------------------------
(* The listener.                                                           *)

ViewInv ==
    /\ ListenerInSync
    /\ pc = "emit" => (view \cup adds) \ dels = Names(known)

LEMMA ViewStep == TypeOK /\ LifeInv /\ ViewInv /\ [Next]_vars => ViewInv'
<1> SUFFICES ASSUME TypeOK, LifeInv, ViewInv, [Next]_vars PROVE ViewInv'
    OBVIOUS
<1> USE DEF ViewInv, ListenerInSync, apiVars, runVars
<1>1. ASSUME NEW p \in Ports, Plug(p) \/ Unplug(p) PROVE ViewInv'
    BY <1>1 DEF Plug, Unplug
<1>2. ASSUME NEW c \in Callers, Call(c) PROVE ViewInv'
  <2>1. CASE InstanceCreate(c)
    <3>1. pc' = "none"
        BY <2>1 DEF InstanceCreate, LifeInv
    <3> QED
        BY <3>1
  <2>2. CASE StartBody(c)
    <3>1. pc' = pc \/ pc' = "begin"
        BY <2>2 DEF StartBody
    <3>2. UNCHANGED <<known, adds, dels, view>>
        BY <2>2 DEF StartBody
    <3> QED
        BY <3>1, <3>2
  <2>3. CASE ~InstanceCreate(c) /\ ~StartBody(c)
    <3>1. UNCHANGED <<pc, known, adds, dels, view>>
        BY <1>2, <2>3, Zenon DEF Call, Instance, InstanceLock, InstanceTest, Start,
           DeleteUnstarted, Delete, DeleteReturns
    <3> QED
        BY <3>1
  <2> QED
      BY <2>1, <2>2, <2>3
<1>3. CASE RunBegins
    BY <1>3 DEF RunBegins, NextTurn
<1>4. CASE Poll
  <2>1. /\ known' = KnownAfterPoll /\ adds' = AddsOfPoll /\ dels' = DelsOfPoll
        /\ view' = view /\ view = Names(known)
        /\ pc' \in {"emit", "sleep"}
        /\ pc' = "sleep" => adds' = {} /\ dels' = {}
      BY <1>4 DEF Poll
  <2>2. (view' \cup adds') \ dels' = Names(known')
      BY <2>1, PollNames
  <2> QED
      BY <2>1, <2>2
<1>5. CASE UpdateSerial
    BY <1>5 DEF UpdateSerial
<1>6. CASE Wakes
    BY <1>6 DEF Wakes, NextTurn
<1>7. CASE UNCHANGED vars
    BY <1>7 DEF vars
<1> QED
    BY <1>1, <1>2, <1>3, <1>4, <1>5, <1>6, <1>7 DEF Next, Run

(* A listener of UpdateSerial always knows the names the monitor knows. *)
THEOREM ListenerCorrect == Spec => []ListenerInSync
<1>1. Init => ViewInv
    BY DEF Init, ViewInv, ListenerInSync
<1>2. ViewInv => ListenerInSync
    BY DEF ViewInv
<1> QED
    BY <1>1, <1>2, ViewStep, LifeAlways, TypeCorrect, PTL DEF Spec
=============================================================================
