----------------------------- MODULE SerialPort -----------------------------
(***************************************************************************)
(* QCatGraySerialPort: a port whose readyRead slot, in the owner's thread, *)
(* appends what has arrived to m_yReadData and starts the delay thread     *)
(* (ReadPortDataWork), which sleeps, and then itself runs the lambda that  *)
(* reports and clears m_yReadData.                                         *)
(*                                                                         *)
(* m_yReadData and m_bWork are shared by the two threads without a lock:   *)
(* the slot and the lambda are split where the other can come between.     *)
(* WriteSerialPortSlot() may wait for an answer, and while it does the     *)
(* readyRead slot and, between two answers, any event is handled.          *)
(***************************************************************************)
EXTENDS Integers, Sequences, SequencesExt

CONSTANTS
    Ports,       \* the names of ports
    MaxBytes,    \* bound: pieces of data that arrive
    MaxWrites,   \* bound: calls of WriteSerialPortSlot() that wait inside one another
    None

Bytes == 1..MaxBytes

VARIABLES
    present,             \* external: the ports that can be opened
    m_sSerialPortName,
    portName, port,      \* m_qPort: its name; closed, open, or stale when its device is gone
    driver,              \* m_qPort: what has arrived and is not read yet
    count,               \* pieces so far: each is named by its number
    m_yReadData,
    m_bWork, delay,      \* the delay thread: its flag, and where run() and the lambda are
    pc,                  \* the owner's thread: at rest, in waitForReadyRead, or in the slot
    depth,               \* calls of WriteSerialPortSlot() in progress
    deletions,           \* the invocations queued for the slot of DeleteSerial
    life,                \* the object is used, in its destructor, or gone
    crashed,
    reported,            \* history: what ReadSerialPort has carried
    met,                 \* history: the slot in progress has met the delay thread past its sleep
    late,                \* history: what was appended after the last test of the lambda it met
    dropped              \* history: what Clear() or the closing of the port has dropped

portVars == <<m_sSerialPortName, portName, port>>
dataVars == <<driver, count, m_yReadData>>
delayVars == <<m_bWork, delay>>
ownerVars == <<pc, depth, life>>
historyVars == <<reported, met, late, dropped>>
vars == <<portVars, dataVars, delayVars, ownerVars, deletions, crashed, historyVars>>

(* Where the delay thread is when its flag is clear but Start() does nothing. *)
Past == {"tests", "clears", "returning"}

TypeOK ==
    /\ m_sSerialPortName \in Ports \cup {None}
    /\ portName \in Ports \cup {None}
    /\ port \in {"closed", "open", "stale"}
    /\ driver \in Seq(Bytes)
    /\ count \in 0..MaxBytes
    /\ m_yReadData \in Seq(Bytes)
    /\ m_bWork \in BOOLEAN
    /\ delay \in {"idle", "started", "sleeping"} \cup Past
    /\ pc \in {"rest", "waiting", "start", "append"}
    /\ depth \in 0..MaxWrites
    /\ life \in {"used", "destroying", "gone"}
    /\ crashed \in BOOLEAN
    /\ reported \in Seq(Bytes)
    /\ met \in BOOLEAN
    /\ late \subseteq Bytes /\ dropped \subseteq Bytes

Init ==
    /\ m_sSerialPortName = None /\ portName = None /\ port = "closed"
    /\ driver = <<>> /\ count = 0 /\ m_yReadData = <<>>
    /\ m_bWork = FALSE /\ delay = "idle"
    /\ pc = "rest" /\ depth = 0 /\ life = "used"
    /\ deletions = <<>> /\ crashed = FALSE
    /\ reported = <<>> /\ met = FALSE /\ late = {} /\ dropped = {}

Runs == life = "used" /\ ~crashed
AtRest == Runs /\ pc = "rest"

-----------------------------------------------------------------------------
(* The port.                                                               *)

SetSerialPortName(name) ==
    /\ AtRest
    /\ m_sSerialPortName' = name
    /\ UNCHANGED <<portName, port, dataVars, delayVars, ownerVars, deletions, crashed, historyVars>>

(* QSerialPort::close drops what has not been read, but m_yReadData stays. *)
ClosePort ==
    /\ port' = "closed"
    /\ driver' = <<>>
    /\ dropped' = dropped \cup ToSet(driver)

OpenSerial ==
    /\ AtRest
    /\ m_sSerialPortName # None
    /\ driver' = <<>>
    /\ dropped' = dropped \cup ToSet(driver)
    /\ portName' = m_sSerialPortName
    /\ port' \in {"closed"} \cup (IF portName' \in present THEN {"open"} ELSE {})
    /\ UNCHANGED <<m_sSerialPortName, count, m_yReadData, delayVars, ownerVars, deletions, crashed,
                   reported, met, late>>

Close ==
    /\ AtRest
    /\ ClosePort
    /\ UNCHANGED <<m_sSerialPortName, portName, count, m_yReadData, delayVars, ownerVars, deletions,
                   crashed, reported, met, late>>

(* QSerialPort reports a ResourceError for a device that is gone, at once or never; the slot *)
(* closes the port.                                                                         *)
ErrorOccurred ==
    /\ Runs /\ pc \in {"rest", "waiting"}
    /\ port = "stale"
    /\ ClosePort
    /\ UNCHANGED <<m_sSerialPortName, portName, count, m_yReadData, delayVars, ownerVars, deletions,
                   crashed, reported, met, late>>

(* The slot of QCatGrayWinMonitorSerial::DeleteSerial, which is queued. *)
DeleteSerial ==
    /\ AtRest
    /\ deletions # <<>>
    /\ deletions' = Tail(deletions)
    /\ IF Head(deletions) = portName /\ port # "closed" THEN ClosePort
                                              ELSE UNCHANGED <<port, driver, dropped>>
    /\ UNCHANGED <<m_sSerialPortName, portName, count, m_yReadData, delayVars, ownerVars, crashed,
                   reported, met, late>>

Clear ==
    /\ AtRest
    /\ m_yReadData' = <<>>
    /\ dropped' = dropped \cup ToSet(m_yReadData)
    /\ UNCHANGED <<portVars, driver, count, delayVars, ownerVars, deletions, crashed, reported, met,
                   late>>

(* External: the device of the port sends, or is gone. *)
Arrives ==
    /\ Runs
    /\ port = "open"
    /\ count < MaxBytes
    /\ count' = count + 1
    /\ driver' = Append(driver, count')
    /\ UNCHANGED <<portVars, m_yReadData, delayVars, ownerVars, deletions, crashed, historyVars>>

DeviceLost(name) ==
    /\ port' = IF port = "open" /\ portName = name THEN "stale" ELSE port
    /\ UNCHANGED <<m_sSerialPortName, portName, dataVars, delayVars, ownerVars, crashed, historyVars>>

-----------------------------------------------------------------------------
(* The slot of readyRead, and WriteSerialPortSlot().                       *)

(* Its test of GetWork(). *)
ReadyRead ==
    /\ Runs /\ pc \in {"rest", "waiting"}
    /\ port # "closed" /\ driver # <<>>
    /\ pc' = IF m_bWork THEN "append" ELSE "start"
    /\ met' = (delay \in Past)
    /\ UNCHANGED <<portVars, dataVars, delayVars, depth, life, deletions, crashed, reported, late,
                   dropped>>

(* Start(): QThread::start does nothing while the thread is in run(). *)
Starts ==
    /\ Runs /\ pc = "start"
    /\ pc' = "append"
    /\ delay' = IF delay = "idle" THEN "started" ELSE delay
    /\ UNCHANGED <<portVars, dataVars, m_bWork, depth, life, deletions, crashed, historyVars>>

(* m_yReadData += readAll().  In waitForReadyRead, processEvents() follows. *)
Appends ==
    /\ Runs /\ pc = "append"
    /\ pc' = "rest"
    /\ m_yReadData' = m_yReadData \o driver
    /\ driver' = <<>>
    /\ met' = FALSE
    /\ late' = IF met /\ delay \notin {"started", "sleeping", "tests"}
               THEN late \cup ToSet(driver) ELSE late
    /\ UNCHANGED <<portVars, count, delayVars, depth, life, deletions, crashed, reported, dropped>>

(* With waitread; without it the slot only writes. *)
WriteSerialPortSlot ==
    /\ AtRest
    /\ port # "closed"
    /\ depth < MaxWrites
    /\ depth' = depth + 1
    /\ pc' = "waiting"
    /\ UNCHANGED <<portVars, dataVars, delayVars, life, deletions, crashed, historyVars>>

(* waitForReadyRead returns true after a piece was read; false after its time or when the    *)
(* port is closed.                                                                          *)
WriteGoesOn ==
    /\ Runs /\ depth > 0
    /\ \/ pc = "rest" /\ pc' = "waiting" /\ UNCHANGED depth
       \/ pc = "waiting" /\ pc' = "rest" /\ depth' = depth - 1
    /\ UNCHANGED <<portVars, dataVars, delayVars, life, deletions, crashed, historyVars>>

-----------------------------------------------------------------------------
(* The delay thread: ReadPortDataWork::run() and the lambda it calls.      *)

(* Mutant: m_bWork is not cleared. *)
SleepsKeepsWork ==
    \/ delay = "started" /\ delay' = "sleeping" /\ m_bWork' = TRUE
    \/ delay = "sleeping" /\ delay' = "tests" /\ UNCHANGED m_bWork

Sleeps ==
    \/ delay = "started" /\ delay' = "sleeping" /\ m_bWork' = TRUE
    \/ delay = "sleeping" /\ delay' = "tests" /\ m_bWork' = FALSE

(* if(!m_yReadData.isEmpty()) emit ReadSerialPort(m_yReadData), with members that the        *)
(* destructor may have destroyed.                                                           *)
Reports ==
    /\ delay = "tests"
    /\ delay' = IF m_yReadData = <<>> THEN "returning" ELSE "clears"
    /\ reported' = reported \o m_yReadData
    /\ crashed' = (life # "used")
    /\ UNCHANGED <<m_bWork, m_yReadData>>

(* Mutant: what has been reported is not cleared. *)
ClearsNothing == UNCHANGED m_yReadData

ClearsReported == m_yReadData' = <<>>

Delay ==
    /\ ~crashed
    /\ \/ Sleeps /\ UNCHANGED <<m_yReadData, reported, crashed>>
       \/ Reports
       \/ /\ delay = "clears" /\ delay' = "returning"
          /\ ClearsReported
          /\ crashed' = (life # "used")
          /\ UNCHANGED <<m_bWork, reported>>
       \/ /\ delay = "returning" /\ delay' = "idle"
          /\ UNCHANGED <<m_bWork, m_yReadData, reported, crashed>>
    /\ met' = (met \/ (pc \in {"start", "append"} /\ delay' \in Past))
    /\ UNCHANGED <<portVars, driver, count, ownerVars, deletions, late, dropped>>

(* The slot or Clear() changes m_yReadData while the lambda uses it: undefined, besides one  *)
(* before the other.                                                                        *)
RaceOnBuffer ==
    /\ Runs /\ pc \in {"append", "rest"}
    /\ delay \in {"tests", "clears"}
    /\ crashed' = TRUE
    /\ UNCHANGED <<portVars, dataVars, delayVars, ownerVars, deletions, historyVars>>

(* The destructor closes the port and destroys the members before the children's destructor *)
(* waits for the delay thread.                                                              *)
Destroy ==
    /\ AtRest /\ depth = 0
    /\ life' = "destroying"
    /\ ClosePort
    /\ UNCHANGED <<m_sSerialPortName, portName, count, m_yReadData, delayVars, pc, depth, deletions,
                   crashed, reported, met, late>>

Destroyed ==
    /\ life = "destroying" /\ ~crashed
    /\ delay = "idle"
    /\ life' = "gone"
    /\ UNCHANGED <<portVars, dataVars, delayVars, pc, depth, deletions, crashed, historyVars>>

-----------------------------------------------------------------------------

Next ==
    \/ \E name \in Ports : SetSerialPortName(name)
    \/ OpenSerial \/ Close \/ ErrorOccurred \/ DeleteSerial \/ Clear
    \/ Arrives
    \/ ReadyRead \/ Starts \/ Appends
    \/ WriteSerialPortSlot \/ WriteGoesOn
    \/ Delay
    \/ RaceOnBuffer
    \/ Destroy \/ Destroyed

-----------------------------------------------------------------------------
(* Properties.                                                             *)

(* What arrives is reported at most once and in order, over every session of the port: the  *)
(* appended between a report and its clearing is lost, never repeated or overtaken.         *)
InOrderOnce == \A i, j \in DOMAIN reported : i < j => reported[i] < reported[j]

(* What has arrived is reported, unless Clear() or the end of the session dropped it, or it *)
(* was appended when the delay thread, met on its way out, was not to test the buffer again. *)
ReadIsReported == \A b \in Bytes :
    b \in ToSet(driver) ~>
        \/ b \in ToSet(reported) \cup late \cup dropped
        \/ crashed \/ life # "used"
=============================================================================
