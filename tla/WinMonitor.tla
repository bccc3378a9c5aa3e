----------------------------- MODULE WinMonitor -----------------------------
(***************************************************************************)
(* QCatGrayWinMonitorSerial: a thread with a window that Windows notifies  *)
(* of devices, and the table of their ports by product id (UpdateDevice).  *)
(*                                                                         *)
(* Windows is external: it sends one notification for the USB interface of *)
(* a device and one for its COM port, when the driver has named it, and    *)
(* the same two when the device is removed; a window gets those that are   *)
(* sent after it has registered, in order.                                 *)
(***************************************************************************)
EXTENDS Integers, Sequences, FiniteSets, Functions

CONSTANTS
    Devices,
    PidOf,       \* by device, its product id
    PortOf,      \* by device, the name of its port
    MaxPlugs,    \* bound: how often a device is plugged in
    None         \* no name: the empty string

Pids == {PidOf[d] : d \in Devices}
Names == {PortOf[d] : d \in Devices} \cup {None}

VARIABLES
    plugged,
    named,        \* the plugged devices whose driver has named the port
    notes,        \* the notifications the window has yet to handle
    m_pSerials,   \* by product id, a name
    thread,       \* ThrdFunc: none, begun, looping or ended
    instance,     \* the object: none, made, being deleted, or deleted
    exiting,      \* THRD_MESSAGE_EXIT is in the thread's queue
    deletions,    \* DeleteSerial: the names it has carried, until a receiver takes them
    plugs,        \* history: how often a device was plugged in
    heard,        \* history: the plugged devices whose arrival was notified
    twins,        \* history: the product ids that two plugged devices share, or one of them is left of
    exitLost      \* history: the thread was told to exit before it had a queue

worldVars == <<plugged, named, plugs, heard, twins>>
monitorVars == <<m_pSerials, thread, instance, exiting, exitLost>>
vars == <<worldVars, notes, monitorVars, deletions>>

TypeOK ==
    /\ plugged \subseteq Devices /\ named \subseteq plugged
    /\ notes \in Seq([pid : Pids, arrival : BOOLEAN])
    /\ DOMAIN m_pSerials \subseteq Pids /\ Range(m_pSerials) \subseteq Names
    /\ thread \in {"none", "begun", "looping", "ended"}
    /\ instance \in {"none", "made", "deleting", "deleted"}
    /\ exiting \in BOOLEAN
    /\ deletions \in Seq(Names)
    /\ plugs \in 0..MaxPlugs
    /\ heard \subseteq plugged
    /\ twins \subseteq Pids
    /\ exitLost \in BOOLEAN

Sharing(devices) ==
    {pid \in Pids : \E d, e \in devices : d # e /\ PidOf[d] = pid /\ PidOf[e] = pid}

(* Nothing looks for the devices that are plugged in when the program begins. *)
Init ==
    /\ plugged \in SUBSET Devices /\ named = plugged
    /\ plugs = 0 /\ heard = {} /\ twins = Sharing(plugged)
    /\ notes = <<>>
    /\ m_pSerials = <<>>
    /\ thread = "none" /\ instance = "none" /\ exiting = FALSE /\ exitLost = FALSE
    /\ deletions = <<>>

-----------------------------------------------------------------------------
(* Windows.                                                                *)

Note(d, arrival) == [pid |-> PidOf[d], arrival |-> arrival]

Sends(messages) == notes' = IF thread = "looping" THEN notes \o messages ELSE notes

Hears(d) == heard' = IF thread = "looping" THEN heard \cup {d} ELSE heard

Plug(d) ==
    /\ d \notin plugged /\ plugs < MaxPlugs
    /\ plugged' = plugged \cup {d}
    /\ plugs' = plugs + 1
    /\ Sends(<<Note(d, TRUE)>>) /\ Hears(d)
    /\ twins' = twins \cup Sharing(plugged')
    /\ UNCHANGED <<named, monitorVars, deletions>>

NamePort(d) ==
    /\ d \in plugged \ named
    /\ named' = named \cup {d}
    /\ Sends(<<Note(d, TRUE)>>) /\ Hears(d)
    /\ UNCHANGED <<plugged, plugs, twins, monitorVars, deletions>>

Unplug(d) ==
    /\ d \in plugged
    /\ plugged' = plugged \ {d} /\ named' = named \ {d}
    /\ heard' = heard \ {d}
    /\ Sends(IF d \in named THEN <<Note(d, FALSE), Note(d, FALSE)>> ELSE <<Note(d, FALSE)>>)
    /\ twins' = twins \cap {PidOf[e] : e \in plugged'}
    /\ UNCHANGED <<plugs, monitorVars, deletions>>

-----------------------------------------------------------------------------
(* The object and its thread.                                              *)

(* The object is made under the mutex; other calls of Instance(), those of the thread among *)
(* them, wait for it.                                                                       *)
Instance ==
    /\ instance = "none"
    /\ instance' = "made" /\ thread' = "begun"
    /\ UNCHANGED <<worldVars, notes, m_pSerials, exiting, exitLost, deletions>>

(* The class, the window and its registration; the thread ends when one of the first fails. *)
Registers ==
    /\ thread = "begun"
    /\ thread' \in {"looping", "ended"}
    /\ UNCHANGED <<worldVars, notes, m_pSerials, instance, exiting, exitLost, deletions>>

(* WDK_WhoAllVidPid: the name of the first device it finds with this product id. *)
WhoAllVidPid(pid) ==
    LET found == {PortOf[d] : d \in {e \in named : PidOf[e] = pid}}
    IN  IF found = {} THEN {None} ELSE found

Forgets(pid) == m_pSerials' = Restrict(m_pSerials, DOMAIN m_pSerials \ {pid})

(* Mutant: the removal of a device without a name is ignored. *)
RemovesNamed(pid) ==
    IF pid \in DOMAIN m_pSerials /\ m_pSerials[pid] # None
    THEN Forgets(pid) /\ deletions' = Append(deletions, m_pSerials[pid])
    ELSE UNCHANGED <<m_pSerials, deletions>>

(* Mutant: the entry is removed before its name is read. *)
RemovesFirst(pid) ==
    IF pid \in DOMAIN m_pSerials
    THEN Forgets(pid) /\ deletions' = Append(deletions, None)
    ELSE UNCHANGED <<m_pSerials, deletions>>

Removes(pid) ==
    IF pid \in DOMAIN m_pSerials
    THEN Forgets(pid) /\ deletions' = Append(deletions, m_pSerials[pid])
    ELSE UNCHANGED <<m_pSerials, deletions>>

(* AddSerial, to which nothing in the library is connected, carries the result of a second  *)
(* search.                                                                                  *)
Adds(pid) ==
    /\ \E name \in WhoAllVidPid(pid) :
         m_pSerials' = [p \in DOMAIN m_pSerials \cup {pid} |->
                           IF p \in DOMAIN m_pSerials THEN m_pSerials[p] ELSE name]
    /\ UNCHANGED deletions

UpdateDevice ==
    /\ thread = "looping"
    /\ notes # <<>>
    /\ notes' = Tail(notes)
    /\ IF Head(notes).arrival THEN Adds(Head(notes).pid) ELSE Removes(Head(notes).pid)
    /\ UNCHANGED <<worldVars, thread, instance, exiting, exitLost>>

(* Mutant: the destructor only waits. *)
PostsNot == UNCHANGED <<exiting, exitLost>>

(* PostThreadMessage, which a thread without a queue does not get. *)
PostsExit ==
    /\ exiting' = (thread = "looping")
    /\ exitLost' = (thread = "begun")

Delete ==
    /\ instance = "made"
    /\ instance' = "deleting"
    /\ PostsExit
    /\ UNCHANGED <<worldVars, notes, m_pSerials, thread, deletions>>

(* GetMessage handles the notifications first, which are sent and not posted. *)
TakesExit ==
    /\ thread = "looping" /\ exiting /\ notes = <<>>
    /\ thread' = "ended"
    /\ UNCHANGED <<worldVars, notes, m_pSerials, instance, exiting, exitLost, deletions>>

Deleted ==
    /\ instance = "deleting"
    /\ thread = "ended"
    /\ instance' = "deleted"
    /\ UNCHANGED <<worldVars, notes, m_pSerials, thread, exiting, exitLost, deletions>>

-----------------------------------------------------------------------------

Thread == Registers \/ UpdateDevice \/ TakesExit

Next ==
    \/ \E d \in Devices : Plug(d) \/ NamePort(d) \/ Unplug(d)
    \/ Instance
    \/ Thread
    \/ Delete
    \/ Deleted

-----------------------------------------------------------------------------
(* Properties.                                                             *)

(* When the window has handled its notifications, the table has an entry for the product    *)
(* ids of the plugged devices it was told of, and no other, however devices came and went   *)
(* meanwhile; but for the ids that two devices have shared since one was last unplugged.    *)
TableSettles == thread = "looping" /\ notes = <<>> =>
    DOMAIN m_pSerials \ twins = {PidOf[d] : d \in heard} \ twins
=============================================================================
