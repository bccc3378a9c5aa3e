----------------------------- MODULE TcpClient -----------------------------
(***************************************************************************)
(* QCatGrayLibuvTcpClient: one client and its thread, whose loop runs the  *)
(* client's slots and, from libuv, its callbacks, one after the other.     *)
(* Other threads call SendData and CloseSocket, and one deletes the client *)
(* when no call is in progress.  OpenSocket is invoked as a slot.          *)
(*                                                                         *)
(* libuv is external: a connection succeeds or fails, a peer sends or ends *)
(* the stream, a write completes, at any time; the close callback comes in *)
(* a later iteration of the loop, after the requests of the handle have    *)
(* been cancelled.  To close a handle twice, or none, ends the program.    *)
(***************************************************************************)
EXTENDS Integers, Sequences, FiniteSets

CONSTANTS
    Callers,     \* the threads that call the client
    MaxOpens,    \* bound: sockets that are opened
    MaxEvents,   \* bound: invocations in the queue of the client's thread
    None

ASSUME BoundsAssumption == MaxOpens \in Nat /\ MaxEvents \in Nat
ASSUME NoneAssumption == None \notin Callers

Sockets == 1..MaxOpens
Null == 0

VARIABLES
    m_Ip,          \* an address, or not one
    m_Start, m_isConnect,
    m_Tcp,         \* the socket of m_Tcp_socket, m_Tcp_connect and m_Tcp_write, or Null
    table,         \* the keys of this client in m_pTcpSocketToTcpClient
    events,        \* the invocations in the thread's queue
    pc,            \* where the client's thread is: at rest, in OpenSocket or in Close_Cb
    handle,        \* by socket, what it is for libuv
    connecting, reading, writing,   \* what libuv does with the open socket
    call,          \* by caller, the statement it executes next
    deleting,      \* who has called the destructor
    destroyed,
    crashed,       \* undefined behaviour has ended the program, and where
    ended,         \* history: Read_Cb has closed a socket
    shared,        \* history: a call began while another was in progress
    late,          \* history: a connection was begun while the destructor was under way
    missed         \* history: the callers whose close callback came before their wait

clientVars == <<m_Ip, m_Start, m_isConnect, m_Tcp, table>>
loopVars   == <<events, pc>>
uvVars     == <<handle, connecting, reading, writing>>
callVars   == <<call, deleting, destroyed>>
historyVars == <<ended, shared, late, missed>>
vars == <<clientVars, loopVars, uvVars, callVars, crashed, historyVars>>

Slots == {"CloseSocketed", "SendDataPrivate"}

TypeOK ==
    /\ m_Ip \in {"address", "unknown"}
    /\ m_Start \in BOOLEAN /\ m_isConnect \in BOOLEAN
    /\ m_Tcp \in Sockets \cup {Null}
    /\ table \subseteq Sockets
    /\ events \in Seq(Slots)
    /\ pc \in {"rest", "opening", "closed"}
    /\ handle \in [Sockets -> {"unused", "open", "closing", "closed"}]
    /\ connecting \in BOOLEAN /\ reading \in BOOLEAN /\ writing \in BOOLEAN
    /\ call \in [Callers -> {"idle", "send", "close", "lock", "waiting", "return"}]
    /\ deleting \in Callers \cup {None}
    /\ destroyed \in BOOLEAN
    /\ crashed \in {"no", "close", "write", "deleted"}
    /\ ended \in BOOLEAN /\ shared \in BOOLEAN /\ late \in BOOLEAN
    /\ missed \subseteq Callers

(* The constructor, which starts the thread. *)
Init ==
    /\ m_Ip \in {"address", "unknown"}
    /\ m_Start = FALSE /\ m_isConnect = FALSE /\ m_Tcp = Null
    /\ table = {}
    /\ events = <<>> /\ pc = "rest"
    /\ handle = [s \in Sockets |-> "unused"]
    /\ connecting = FALSE /\ reading = FALSE /\ writing = FALSE
    /\ call = [c \in Callers |-> "idle"]
    /\ deleting = None /\ destroyed = FALSE /\ crashed = "no"
    /\ ended = FALSE /\ shared = FALSE /\ late = FALSE /\ missed = {}

Alive == crashed = "no" /\ ~destroyed

-----------------------------------------------------------------------------
(* The callers.                                                            *)

At(c, statement) == Alive /\ call[c] = statement
Goes(c, statement) == call' = [call EXCEPT ![c] = statement]
Posts(slot) == Len(events) < MaxEvents /\ events' = Append(events, slot)

(* A call begins: its test of m_Start and what it goes on with. *)
Begins(c, statement) ==
    /\ At(c, "idle")
    /\ deleting = None
    /\ m_Start
    /\ Goes(c, statement)
    /\ shared' = (shared \/ \E d \in Callers \ {c} : call[d] # "idle")
    /\ UNCHANGED <<clientVars, loopVars, uvVars, deleting, destroyed, crashed, ended, late, missed>>

SendData(c) == Begins(c, "send")
CloseSocket(c) == Begins(c, "close")

(* CloseSocket(), called by the destructor. *)
Destructor(c) ==
    /\ deleting = None
    /\ \A d \in Callers : At(d, "idle")
    /\ deleting' = c
    /\ Goes(c, IF m_Start THEN "close" ELSE "return")
    /\ UNCHANGED <<clientVars, loopVars, uvVars, destroyed, crashed, historyVars>>

(* Mutant: nothing is invoked on a client that is not connected. *)
InvokesIfConnected(c) ==
    \/ At(c, "send") /\ Goes(c, "idle") /\ Posts("SendDataPrivate")
    \/ At(c, "close") /\ Goes(c, "lock")
       /\ IF m_isConnect THEN Posts("CloseSocketed") ELSE UNCHANGED events

(* QMetaObject::invokeMethod, from a thread that is not the client's. *)
Invokes(c) ==
    \/ At(c, "send") /\ Goes(c, "idle") /\ Posts("SendDataPrivate")
    \/ At(c, "close") /\ Goes(c, "lock") /\ Posts("CloseSocketed")

Waits(c) ==
    /\ At(c, "lock")
    /\ Goes(c, "waiting")
    /\ UNCHANGED events

Live(s) == handle[s] \in {"open", "closing"}

(* CloseSocket() returns; the destructor that called it goes on: the invocations still in   *)
(* the queue are dropped, and what is under way in the thread, or in libuv with the socket, *)
(* uses what has been freed.                                                                *)
Returns(c) ==
    /\ At(c, "return")
    /\ Goes(c, "idle")
    /\ destroyed' = (deleting = c)
    /\ events' = IF deleting = c THEN <<>> ELSE events
    /\ crashed' = IF deleting = c /\ (pc # "rest" \/ \E s \in Sockets : Live(s))
                  THEN "deleted" ELSE crashed
    /\ UNCHANGED <<clientVars, pc, uvVars, deleting, historyVars>>

CallerStatement(c) ==
    \/ /\ Invokes(c) \/ Waits(c)
       /\ UNCHANGED <<clientVars, pc, uvVars, deleting, destroyed, crashed, historyVars>>
    \/ Returns(c)

-----------------------------------------------------------------------------
(* The slots.                                                              *)

AtRest == Alive /\ pc = "rest"

(* OpenSocket does nothing unless m_Start is false.  One that was queued before the          *)
(* destructor may run until it has ended.                                                   *)
OpenSocket ==
    /\ AtRest
    /\ ~m_Start
    /\ \E s \in Sockets : handle[s] = "unused"
    /\ m_Start' = TRUE
    /\ pc' = "opening"
    /\ late' = (late \/ deleting # None)
    /\ UNCHANGED <<m_Ip, m_isConnect, m_Tcp, table, events, uvVars, callVars, crashed, ended,
                   shared, missed>>

RefusesIp ==
    /\ Alive /\ pc = "opening"
    /\ m_Ip = "unknown"
    /\ m_Start' = FALSE
    /\ pc' = "rest"
    /\ UNCHANGED <<m_Ip, m_isConnect, m_Tcp, table, events, uvVars, callVars, crashed, historyVars>>

(* The result of uv_tcp_connect is not tested: when it fails at once, nobody is told. *)
Opens ==
    /\ Alive /\ pc = "opening"
    /\ m_Ip = "address"
    /\ \E s \in Sockets :
         /\ handle[s] = "unused" /\ \A r \in 1..(s - 1) : handle[r] # "unused"
         /\ m_Tcp' = s
         /\ table' = table \cup {s}
         /\ handle' = [handle EXCEPT ![s] = "open"]
    /\ connecting' \in BOOLEAN
    /\ pc' = "rest"
    /\ UNCHANGED <<m_Ip, m_Start, m_isConnect, events, reading, writing, callVars, crashed,
                   historyVars>>

IsOpen == m_Tcp # Null /\ handle[m_Tcp] = "open"

uv_close(s) == handle' = [handle EXCEPT ![s] = "closing"] /\ reading' = FALSE

Takes(slot) ==
    /\ AtRest
    /\ events # <<>> /\ Head(events) = slot
    /\ events' = Tail(events)

(* The socket may have been closed meanwhile, by Read_Cb or by another CloseSocketed. *)
CloseSocketed ==
    /\ Takes("CloseSocketed")
    /\ IF IsOpen THEN uv_close(m_Tcp) /\ UNCHANGED crashed
       ELSE crashed' = "close" /\ UNCHANGED <<handle, reading>>
    /\ UNCHANGED <<clientVars, pc, connecting, writing, callVars, historyVars>>

(* uv_write takes its request even while that of the write before is queued, which corrupts *)
(* libuv's queue; it fails, with nobody told, for a socket that is being closed.            *)
SendDataPrivate ==
    /\ Takes("SendDataPrivate")
    /\ \/ m_Tcp = Null /\ crashed' = "close" /\ UNCHANGED writing
       \/ m_Tcp # Null /\ ~IsOpen /\ UNCHANGED <<crashed, writing>>
       \/ IsOpen /\ writing' = TRUE /\ crashed' \in {"no"} \cup (IF writing THEN {"write"} ELSE {})
    /\ UNCHANGED <<clientVars, pc, handle, connecting, reading, callVars, historyVars>>

-----------------------------------------------------------------------------
(* The callbacks, which find the client in the table.                      *)

(* The connection fails, or it succeeds, whether or not it can then be read. *)
Connect_Cb ==
    /\ AtRest /\ IsOpen
    /\ connecting
    /\ connecting' = FALSE
    /\ \/ UNCHANGED <<m_isConnect, reading>>
       \/ m_isConnect' = TRUE /\ reading' \in BOOLEAN
    /\ UNCHANGED <<m_Ip, m_Start, m_Tcp, table, loopVars, handle, writing, callVars, crashed,
                   historyVars>>

(* The stream ends, or reading it fails; data is only reported. *)
Read_Cb ==
    /\ AtRest /\ IsOpen
    /\ reading
    /\ uv_close(m_Tcp)
    /\ ended' = TRUE
    /\ UNCHANGED <<clientVars, loopVars, connecting, writing, callVars, crashed, shared, late,
                   missed>>

Write_Cb ==
    /\ AtRest /\ IsOpen
    /\ writing
    /\ writing' = FALSE
    /\ UNCHANGED <<clientVars, loopVars, handle, connecting, reading, callVars, crashed,
                   historyVars>>

(* Mutant: m_Start is not cleared. *)
ClearsKeepsStart == m_Tcp' = Null /\ UNCHANGED m_Start

(* Close_Cb clears m_Start, which is set (HandleKept), and frees the handle and its requests. *)
Clears == m_Tcp' = Null /\ m_Start' = FALSE

Close_Cb ==
    /\ AtRest
    /\ \E s \in Sockets :
         /\ handle[s] = "closing"
         /\ handle' = [handle EXCEPT ![s] = "closed"]
    /\ connecting' = FALSE /\ writing' = FALSE
    /\ Clears
    /\ pc' = "closed"
    /\ UNCHANGED <<m_Ip, m_isConnect, table, events, reading, callVars, crashed, historyVars>>

(* Mutant: the entry of the table is not removed. *)
ForgetsNothing == UNCHANGED table

Forgets == table' = {s \in table : handle[s] # "closed"}

(* Mutant: nobody is woken. *)
WakesNone == UNCHANGED call

WakesAll == call' = [c \in Callers |-> IF call[c] = "waiting" THEN "return" ELSE call[c]]

ClosePending == \E i \in DOMAIN events : events[i] = "CloseSocketed"

(* The rest of Close_Cb, under m_CloseMutex. *)
Closeed ==
    /\ Alive /\ pc = "closed"
    /\ m_isConnect' = FALSE
    /\ WakesAll
    /\ missed' = {c \in Callers : (call[c] = "lock" /\ ~ClosePending)
                                  \/ (c \in missed /\ call[c] # "waiting")}
    /\ Forgets
    /\ pc' = "rest"
    /\ UNCHANGED <<m_Ip, m_Start, m_Tcp, events, uvVars, deleting, destroyed, crashed, ended,
                   shared, late>>

-----------------------------------------------------------------------------

Loop ==
    \/ RefusesIp
    \/ Opens
    \/ CloseSocketed
    \/ SendDataPrivate
    \/ Close_Cb
    \/ Closeed

Network ==
    \/ OpenSocket
    \/ Connect_Cb
    \/ Read_Cb
    \/ Write_Cb

Calls == \E c \in Callers : SendData(c) \/ CloseSocket(c) \/ Destructor(c)

Terminated == ~Alive /\ UNCHANGED vars

Next ==
    \/ Calls
    \/ \E c \in Callers : CallerStatement(c)
    \/ Loop
    \/ Network
    \/ Terminated

Spec == Init /\ [][Next]_vars

(* The threads are scheduled, the queue is served in order, and each iteration of the loop  *)
(* runs the close callbacks that are due; the network and the users owe nothing.            *)
FairSpec ==
    /\ Spec
    /\ WF_vars(Loop)
    /\ SF_vars(CloseSocketed \/ SendDataPrivate)
    /\ SF_vars(Close_Cb)
    /\ \A c \in Callers : WF_vars(CallerStatement(c))

-----------------------------------------------------------------------------
(* Properties.                                                             *)

(* The memory of a handle, and its entry in the table, outlive libuv's use of it: OpenSocket *)
(* never frees a socket that is open or whose close callback is to come, and the destructor  *)
(* only one that was opened after it had tested m_Start.                                     *)
HandleKept == \A s \in Sockets : Live(s) =>
    m_Start /\ m_Tcp = s /\ s \in table /\ (destroyed => late)

(* The static table never names a client by a socket that is gone: an entry that is left    *)
(* would be found by the next socket at the same address, or lead to a deleted client.      *)
TableExact == \A s \in table : Live(s) \/ pc = "closed"

(* A thread waits in CloseSocket() only while a close callback is to come, unless that came *)
(* after its invocation and before its wait.                                                     *)
WaitHasCause == \A c \in Callers : At(c, "waiting") /\ c \notin missed =>
    \/ ClosePending
    \/ \E s \in Sockets : handle[s] = "closing"
    \/ pc = "closed"

(* One thread that opens, sends, closes and deletes is safe: a socket is not closed twice,  *)
(* nothing is sent on a cleared one, and nothing of a deleted client is used, unless the     *)
(* peer ended a stream, the address is none, calls overlapped, or an OpenSocket was still    *)
(* queued when the destructor had tested m_Start.                                           *)
CloseSafe == crashed \in {"close", "deleted"} => ended \/ shared \/ late \/ m_Ip = "unknown"

(* One connection at a time, from OpenSocket to its close callback: the life of the sockets, *)
(* of m_Start and of the table is the one that Connection allows, and no step is another.   *)
(* A client deleted under a connection begun too late is none that Connection has deleted.   *)
Connection == INSTANCE Connection
    WITH started <- m_Start, socket <- handle, entries <- table, gone <- destroyed /\ ~late

OneConnection == Connection!Spec

(* CloseSocket() returns, but for the missed callback. *)
CloseEnds == \A c \in Callers :
    At(c, "waiting") ~> (call[c] # "waiting" \/ ~Alive \/ c \in missed)
=============================================================================
