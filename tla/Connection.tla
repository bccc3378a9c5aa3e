----------------------------- MODULE Connection -----------------------------
(***************************************************************************)
(* What QCatGrayLibuvTcpClient promises of its connections, whatever the   *)
(* network, the other threads and the queue of its own thread do: it has   *)
(* one at a time, which begins when it is not started, and it is started   *)
(* until that one's close callback.  The static table has an entry for the *)
(* connection, which is gone before the next one begins.  Nothing happens  *)
(* once the client is deleted, which waits for the connection to end.      *)
(***************************************************************************)

CONSTANT Sockets

VARIABLES
    started,    \* the client is started
    socket,     \* the life of each socket for libuv
    entries,    \* the sockets that the static table names
    gone        \* the client is deleted

vars == <<started, socket, entries, gone>>

Live == {s \in Sockets : socket[s] \in {"open", "closing"}}

Init ==
    /\ started = FALSE
    /\ socket = [s \in Sockets |-> "unused"]
    /\ entries = {}
    /\ gone = FALSE

Goes(s, from, to) ==
    /\ ~gone
    /\ socket[s] = from
    /\ socket' = [socket EXCEPT ![s] = to]

Begin ==
    /\ ~gone /\ ~started /\ Live = {} /\ entries = {}
    /\ started' = TRUE
    /\ UNCHANGED <<socket, entries, gone>>

(* The address is none. *)
Refuse ==
    /\ ~gone /\ started /\ Live = {}
    /\ started' = FALSE
    /\ UNCHANGED <<socket, entries, gone>>

Open(s) ==
    /\ started /\ Live = {} /\ entries = {}
    /\ Goes(s, "unused", "open")
    /\ entries' = {s}
    /\ UNCHANGED <<started, gone>>

(* By CloseSocket(), or by the end of the stream. *)
Close(s) ==
    /\ Goes(s, "open", "closing")
    /\ UNCHANGED <<started, entries, gone>>

Release(s) ==
    /\ started
    /\ Goes(s, "closing", "closed")
    /\ started' = FALSE
    /\ UNCHANGED <<entries, gone>>

Forget ==
    /\ ~gone /\ Live = {}
    /\ entries' = {}
    /\ UNCHANGED <<started, socket, gone>>

Delete ==
    /\ ~gone /\ Live = {}
    /\ gone' = TRUE
    /\ UNCHANGED <<started, socket, entries>>

Next ==
    \/ Begin
    \/ Refuse
    \/ \E s \in Sockets : Open(s) \/ Close(s) \/ Release(s)
    \/ Forget
    \/ Delete

Spec == Init /\ [][Next]_vars
=============================================================================
