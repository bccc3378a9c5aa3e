---------------------------- MODULE SerialSystem ----------------------------
(***************************************************************************)
(* A serial port and the Windows device monitor, as they are connected in  *)
(* a build for Windows 7: DeleteSerial, emitted in the monitor's thread,   *)
(* is queued for the slot of the port, which closes it.                    *)
(***************************************************************************)
EXTENDS Integers, Sequences

CONSTANTS
    Devices, PidOf, PortOf, MaxPlugs,
    Ports, MaxBytes, MaxWrites,
    MaxEvents,            \* bound: devices that are plugged in and pieces of data, together
    None

ASSUME BoundAssumption ==
    MaxPlugs \in Nat /\ MaxBytes \in Nat /\ MaxWrites \in Nat /\ MaxEvents \in Nat
ASSUME NoneAssumption == None \notin Ports

VARIABLES
    plugged, named, notes, m_pSerials, thread, instance, exiting, plugs, heard, twins, exitLost,
    m_sSerialPortName, portName, port, driver, count, m_yReadData, m_bWork, delay, pc, depth, life,
    crashed, reported, met, late, dropped,
    deletions

Monitor == INSTANCE WinMonitor

Port == INSTANCE SerialPort WITH present <- {PortOf[d] : d \in named}

monitorVars == <<plugged, named, notes, m_pSerials, thread, instance, exiting, plugs, heard, twins,
                 exitLost>>
portVars == <<m_sSerialPortName, portName, port, driver, count, m_yReadData, m_bWork, delay, pc,
              depth, life, crashed, reported, met, late, dropped>>
vars == <<monitorVars, portVars, deletions>>

TypeOK == Monitor!TypeOK /\ Port!TypeOK

Init ==
    /\ Monitor!Init
    /\ Port!Init

(* A device that is unplugged is lost to the port that is open on it. *)
Unplug(d) ==
    /\ Monitor!Unplug(d)
    /\ Port!DeviceLost(PortOf[d])

World ==
    /\ \E d \in Devices : Monitor!Plug(d) \/ Monitor!NamePort(d)
    /\ UNCHANGED portVars

(* The constructor of the port makes the monitor.  Bound: the devices no longer matter when  *)
(* the port or the monitor is being deleted, and nothing happens after a crash.             *)
Next ==
    /\ \/ Monitor!Instance /\ UNCHANGED portVars
       \/ life = "used" /\ instance = "made" /\ \E d \in Devices : Unplug(d)
       \/ life = "used" /\ instance = "made" /\ World
       \/ (Monitor!Thread \/ Monitor!Delete \/ Monitor!Deleted) /\ UNCHANGED portVars
       \/ instance # "none" /\ Port!Next /\ UNCHANGED monitorVars
    /\ ~crashed
    /\ plugs' + count' <= MaxEvents

Spec == Init /\ [][Next]_vars

(* Both threads are scheduled, the slots that are due are run and the queue is served; no    *)
(* user, device or driver owes anything.                                                    *)
FairSpec ==
    /\ Spec
    /\ WF_vars(~crashed /\ Monitor!Thread /\ UNCHANGED portVars)
    /\ WF_vars(~crashed /\ Monitor!Deleted /\ UNCHANGED portVars)
    /\ WF_vars(~crashed /\ Port!Delay /\ UNCHANGED monitorVars)
    /\ WF_vars(~crashed /\ Port!ReadyRead /\ UNCHANGED monitorVars)
    /\ WF_vars(~crashed /\ (Port!Starts \/ Port!Appends) /\ UNCHANGED monitorVars)
    /\ WF_vars(~crashed /\ Port!WriteGoesOn /\ UNCHANGED monitorVars)
    /\ SF_vars(~crashed /\ Port!DeleteSerial /\ UNCHANGED monitorVars)

-----------------------------------------------------------------------------
(* Properties.                                                             *)

(* The monitor's table is what the window was told of, when it has handled it. *)
TableSettles == Monitor!TableSettles

(* The destructor of the monitor, which waits for its thread without an end, returns; but not *)
(* when the thread had no queue yet for the message that ends it.                           *)
DeleteEnds == instance = "deleting" ~> (instance = "deleted" \/ exitLost \/ crashed)

(* No piece of data is reported twice, or after one that came later. *)
InOrderOnce == Port!InOrderOnce

(* What a device sends is reported, with the exceptions that SerialPort names. *)
ReadIsReported == Port!ReadIsReported

Removal(pid) == \E i \in DOMAIN notes : notes[i] = [pid |-> pid, arrival |-> FALSE]

(* A port whose device is removed is closed, if the monitor's table names the port when the *)
(* removal comes: through two threads, two queues and slots that wait inside one another.   *)
PortFollowsDevice ==
    (/\ port = "stale" /\ thread = "looping"
     /\ \E pid \in DOMAIN m_pSerials : m_pSerials[pid] = portName /\ Removal(pid))
        ~> (port # "stale" \/ crashed)
=============================================================================
