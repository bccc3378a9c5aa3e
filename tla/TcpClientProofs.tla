-------------------------- MODULE TcpClientProofs --------------------------
(* Theorems about TcpClient, for any callers, sockets and length of the queue. *)
EXTENDS TcpClient, TLAPS

-----------------------------------------------------------------------------
(* Types.                                                                  *)

LEMMA QueueTyped ==
    ASSUME TypeOK
    PROVE  /\ \A slot \in Slots : Posts(slot) => events' \in Seq(Slots)
           /\ \A slot : Takes(slot) => events' \in Seq(Slots)
           /\ <<>> \in Seq(Slots)
<1>1. events \in Seq(Slots)
    BY DEF TypeOK
<1> QED
    BY <1>1 DEF Posts, Takes

LEMMA GoesTyped ==
    ASSUME TypeOK, NEW c \in Callers, NEW statement, Goes(c, statement),
           statement \in {"idle", "send", "close", "lock", "waiting", "return"}
    PROVE  call' \in [Callers -> {"idle", "send", "close", "lock", "waiting", "return"}]
BY DEF TypeOK, Goes

LEMMA TypeStep == TypeOK /\ [Next]_vars => TypeOK'
<1> SUFFICES ASSUME TypeOK, [Next]_vars PROVE TypeOK'
    OBVIOUS
<1> USE DEF clientVars, loopVars, uvVars, callVars, historyVars
<1>1. ASSUME NEW c \in Callers, NEW statement \in {"send", "close"}, Begins(c, statement)
      PROVE  TypeOK'
  <2>1. Goes(c, statement) /\ UNCHANGED <<clientVars, loopVars, uvVars, deleting, destroyed,
                                          crashed, ended, late, missed>>
        /\ shared' \in BOOLEAN
      BY <1>1 DEF Begins, TypeOK
  <2> QED
      BY <2>1, GoesTyped DEF TypeOK
<1>2. ASSUME NEW c \in Callers, Destructor(c) PROVE TypeOK'
  <2>1. Goes(c, IF m_Start THEN "close" ELSE "return")
        /\ (IF m_Start THEN "close" ELSE "return")
              \in {"idle", "send", "close", "lock", "waiting", "return"}
      BY <1>2 DEF Destructor
  <2>2. call' \in [Callers -> {"idle", "send", "close", "lock", "waiting", "return"}]
      BY <2>1, GoesTyped
  <2> QED
      BY <1>2, <2>2 DEF Destructor, TypeOK
<1>3. ASSUME NEW c \in Callers, CallerStatement(c) PROVE TypeOK'
  <2>1. CASE Returns(c)
    <3>1. /\ Goes(c, "idle") /\ destroyed' \in BOOLEAN
          /\ crashed' \in {"no", "close", "write", "deleted"}
          /\ UNCHANGED <<clientVars, pc, uvVars, deleting, historyVars>>
        BY <2>1 DEF Returns, TypeOK
    <3>2. events' \in Seq(Slots)
        BY <2>1, QueueTyped DEF Returns, TypeOK
    <3> QED
        BY <3>1, <3>2, GoesTyped DEF TypeOK
  <2>2. CASE /\ Invokes(c) \/ Waits(c)
             /\ UNCHANGED <<clientVars, pc, uvVars, deleting, destroyed, crashed, historyVars>>
    <3>1. events' \in Seq(Slots)
        BY <2>2, QueueTyped DEF Invokes, Waits, Slots, TypeOK
    <3>2. call' \in [Callers -> {"idle", "send", "close", "lock", "waiting", "return"}]
        BY <2>2, GoesTyped DEF Invokes, Waits
    <3> QED
        BY <2>2, <3>1, <3>2 DEF TypeOK
  <2> QED
      BY <1>3, <2>1, <2>2 DEF CallerStatement
<1>4. CASE OpenSocket \/ RefusesIp
  <2>1. /\ m_Start' \in BOOLEAN /\ pc' \in {"rest", "opening", "closed"}
        /\ UNCHANGED <<m_Ip, m_isConnect, m_Tcp, table, events, uvVars, callVars, crashed, ended,
                       shared, missed>>
      BY <1>4, Zenon DEF OpenSocket, RefusesIp
  <2>2. late' \in BOOLEAN
      BY <1>4 DEF OpenSocket, RefusesIp, TypeOK
  <2> QED
      BY <2>1, <2>2 DEF TypeOK
<1>5. CASE Opens
    BY <1>5 DEF Opens, TypeOK
<1>c. ASSUME IsOpen, uv_close(m_Tcp)
      PROVE  /\ handle' \in [Sockets -> {"unused", "open", "closing", "closed"}]
             /\ reading' \in BOOLEAN
    BY <1>c DEF uv_close, TypeOK
<1>6. CASE CloseSocketed
  <2>1. events' \in Seq(Slots)
        /\ UNCHANGED <<clientVars, pc, connecting, writing, callVars, historyVars>>
      BY <1>6, QueueTyped DEF CloseSocketed
  <2>2. CASE IsOpen
    <3>1. uv_close(m_Tcp) /\ UNCHANGED crashed
        BY <1>6, <2>2, Zenon DEF CloseSocketed
    <3> QED
        BY <1>c, <2>1, <2>2, <3>1 DEF TypeOK
  <2>3. CASE ~IsOpen
    <3>1. crashed' = "close" /\ UNCHANGED <<handle, reading>>
        BY <1>6, <2>3, Zenon DEF CloseSocketed
    <3> QED
        BY <2>1, <3>1 DEF TypeOK
  <2> QED
      BY <2>2, <2>3
<1>7. CASE SendDataPrivate
  <2>1. events' \in Seq(Slots)
        /\ UNCHANGED <<clientVars, pc, handle, connecting, reading, callVars, historyVars>>
      BY <1>7, QueueTyped DEF SendDataPrivate
  <2>2. writing' \in BOOLEAN /\ crashed' \in {"no", "close", "write", "deleted"}
      BY <1>7 DEF SendDataPrivate, TypeOK
  <2> QED
      BY <2>1, <2>2 DEF TypeOK
<1>8. CASE Connect_Cb \/ Read_Cb \/ Write_Cb
  <2>1. CASE Connect_Cb
    <3>1. m_isConnect' \in BOOLEAN /\ reading' \in BOOLEAN /\ connecting' = FALSE
        BY <2>1 DEF Connect_Cb, TypeOK
    <3>2. UNCHANGED <<m_Ip, m_Start, m_Tcp, table, events, pc, handle, writing>>
        BY <2>1 DEF Connect_Cb
    <3>3. UNCHANGED <<call, deleting, destroyed, crashed, ended, shared, late, missed>>
        BY <2>1 DEF Connect_Cb
    <3>4. ended' \in BOOLEAN /\ shared' \in BOOLEAN /\ late' \in BOOLEAN
        BY <3>3, Zenon DEF TypeOK
    <3> QED
        BY <3>1, <3>2, <3>3, <3>4 DEF TypeOK
  <2>2. CASE Read_Cb
      BY <1>c, <2>2 DEF Read_Cb, TypeOK
  <2>3. CASE Write_Cb
    <3>1. writing' \in BOOLEAN /\ UNCHANGED <<clientVars, loopVars, handle, connecting, reading,
                                               callVars, crashed, historyVars>>
        BY <2>3, Zenon DEF Write_Cb
    <3> QED
        BY <3>1 DEF TypeOK
  <2> QED
      BY <1>8, <2>1, <2>2, <2>3
<1>9. CASE Close_Cb
    BY <1>9 DEF Close_Cb, Clears, TypeOK
<1>10. CASE Closeed
  <2>1. call' \in [Callers -> {"idle", "send", "close", "lock", "waiting", "return"}]
      BY <1>10 DEF Closeed, WakesAll, TypeOK
  <2>2. table' \subseteq Sockets /\ missed' \subseteq Callers
      BY <1>10 DEF Closeed, Forgets, TypeOK
  <2>3. m_isConnect' = FALSE /\ pc' = "rest" /\ UNCHANGED <<m_Ip, m_Start, m_Tcp, events>>
      BY <1>10, Zenon DEF Closeed
  <2>4. UNCHANGED <<handle, connecting, reading, writing>>
      BY <1>10 DEF Closeed
  <2>5. UNCHANGED <<deleting, destroyed, crashed, ended, shared, late>>
      BY <1>10, Zenon DEF Closeed
  <2>6. ended' \in BOOLEAN /\ shared' \in BOOLEAN /\ late' \in BOOLEAN
      BY <2>5, Zenon DEF TypeOK
  <2> QED
      BY <2>1, <2>2, <2>3, <2>4, <2>5, <2>6 DEF TypeOK
<1>11. CASE Terminated \/ UNCHANGED vars
    BY <1>11 DEF Terminated, vars, TypeOK
<1> QED
    BY <1>1, <1>2, <1>3, <1>4, <1>5, <1>6, <1>7, <1>8, <1>9, <1>10, <1>11
    DEF Next, Calls, SendData, CloseSocket, Loop, Network

(* Type correctness: whatever the callers, the peer and the loop do. *)
THEOREM TypeCorrect == Spec => []TypeOK
<1>1. Init => TypeOK
  <2> SUFFICES ASSUME Init PROVE TypeOK
      OBVIOUS
  <2>1. <<>> \in Seq(Slots)
      OBVIOUS
  <2>2. /\ handle \in [Sockets -> {"unused", "open", "closing", "closed"}]
        /\ call \in [Callers -> {"idle", "send", "close", "lock", "waiting", "return"}]
      BY DEF Init
  <2> QED
      BY <2>1, <2>2, Zenon DEF Init, TypeOK
<1> QED
    BY <1>1, TypeStep, PTL DEF Spec

-----------------------------------------------------------------------------
(* Sockets.                                                                *)

NoneLive == \A s \in Sockets : ~Live(s)

(* HandleKept and TableExact, with what carries them through OpenSocket, Close_Cb and the   *)
(* destructor: no socket is live in the first two, nor when the last is about to return     *)
(* unless one was opened under it.                                                          *)
SocketInv ==
    /\ HandleKept
    /\ TableExact
    /\ \A s \in table : handle[s] # "unused"
    /\ pc = "opening" => m_Start
    /\ pc # "rest" => NoneLive
    /\ \A c \in Callers : deleting = c /\ call[c] = "return" /\ ~late =>
         pc # "opening" /\ NoneLive

(* A step that touches no socket. *)
LEMMA SocketFrame ==
    ASSUME SocketInv, UNCHANGED <<m_Start, m_Tcp, table, pc, handle, destroyed, late>>,
           \A c \in Callers : deleting' = c /\ call'[c] = "return" =>
                                deleting = c /\ call[c] = "return"
    PROVE  SocketInv'
BY DEF SocketInv, HandleKept, TableExact, Live, NoneLive

LEMMA GoesFrame ==
    ASSUME TypeOK, NEW c \in Callers, NEW statement, Goes(c, statement)
    PROVE  call'[c] = statement /\ \A d \in Callers \ {c} : call'[d] = call[d]
BY DEF TypeOK, Goes

(* uv_close of the socket that is open. *)
LEMMA CloseFrame ==
    ASSUME TypeOK, SocketInv, AtRest, IsOpen, uv_close(m_Tcp),
           UNCHANGED <<m_Start, m_Tcp, table, pc, destroyed, late, call, deleting>>
    PROVE  SocketInv'
<1>1. m_Tcp \in Sockets /\ handle'[m_Tcp] = "closing" /\ handle[m_Tcp] = "open"
      /\ \A s \in Sockets \ {m_Tcp} : handle'[s] = handle[s]
    BY DEF TypeOK, IsOpen, uv_close
<1>2. \A s \in Sockets : Live(s) <=> Live(s)'
    BY <1>1 DEF Live
<1>3. table \subseteq Sockets
    BY DEF TypeOK
<1> QED
    BY <1>1, <1>2, <1>3 DEF SocketInv, HandleKept, TableExact, NoneLive

LEMMA SocketStep == TypeOK /\ SocketInv /\ [Next]_vars => SocketInv'
<1> SUFFICES ASSUME TypeOK, SocketInv, [Next]_vars PROVE SocketInv'
    OBVIOUS
<1> USE DEF clientVars, loopVars, uvVars, callVars, historyVars
<1>1. ASSUME NEW c \in Callers, NEW statement \in {"send", "close"}, Begins(c, statement)
      PROVE  SocketInv'
    BY <1>1, GoesFrame, SocketFrame DEF Begins
<1>2. ASSUME NEW c \in Callers, Destructor(c) PROVE SocketInv'
  <2>1. /\ UNCHANGED <<m_Start, m_Tcp, table, pc, handle, destroyed, late>>
        /\ deleting' = c /\ Goes(c, IF m_Start THEN "close" ELSE "return")
      BY <1>2 DEF Destructor
  <2>2. CASE m_Start
      BY <2>1, <2>2, GoesFrame, SocketFrame
  <2>3. CASE ~m_Start
    <3>1. NoneLive /\ pc # "opening"
        BY <2>3 DEF SocketInv, HandleKept, NoneLive
    <3> QED
        BY <2>1, <3>1 DEF SocketInv, HandleKept, TableExact, Live, NoneLive
  <2> QED
      BY <2>2, <2>3
<1>3. ASSUME NEW c \in Callers, CallerStatement(c) PROVE SocketInv'
  <2>1. CASE Returns(c)
    <3>1. /\ UNCHANGED <<m_Start, m_Tcp, table, pc, handle, deleting, late>>
          /\ Goes(c, "idle") /\ call[c] = "return" /\ destroyed' = (deleting = c)
          /\ ~destroyed
        BY <2>1 DEF Returns, At, Alive
    <3>2. CASE deleting = c
      <4>1. ~late => NoneLive
          BY <3>1, <3>2 DEF SocketInv
      <4>2. \A d \in Callers : deleting' = d => call'[d] = "idle"
          BY <3>1, <3>2, GoesFrame
      <4> QED
          BY <3>1, <4>1, <4>2 DEF SocketInv, HandleKept, TableExact, Live, NoneLive
    <3>3. CASE deleting # c
      <4>1. destroyed' = destroyed
          BY <3>1, <3>3 DEF TypeOK
      <4> QED
          BY <3>1, <4>1, GoesFrame, SocketFrame
    <3> QED
        BY <3>2, <3>3
  <2>2. CASE /\ Invokes(c) \/ Waits(c)
             /\ UNCHANGED <<clientVars, pc, uvVars, deleting, destroyed, crashed, historyVars>>
    <3>1. \E statement \in {"idle", "lock", "waiting"} : Goes(c, statement)
        BY <2>2 DEF Invokes, Waits
    <3> QED
        BY <2>2, <3>1, GoesFrame, SocketFrame
  <2> QED
      BY <1>3, <2>1, <2>2 DEF CallerStatement
<1>4. CASE OpenSocket
  <2>1. pc = "rest" /\ ~m_Start /\ m_Start' = TRUE /\ pc' = "opening"
        /\ late' = (late \/ deleting # None)
        /\ UNCHANGED <<m_Tcp, table, handle, destroyed, call, deleting>>
      BY <1>4, Zenon DEF OpenSocket, AtRest
  <2>2. NoneLive
      BY <2>1 DEF SocketInv, HandleKept, NoneLive
  <2> QED
      BY <2>1, <2>2, NoneAssumption DEF SocketInv, HandleKept, TableExact, Live, NoneLive
<1>5. CASE RefusesIp
  <2>1. pc = "opening" /\ pc' = "rest"
        /\ UNCHANGED <<m_Tcp, table, handle, destroyed, late, call, deleting>>
      BY <1>5, Zenon DEF RefusesIp
  <2> QED
      BY <2>1 DEF SocketInv, HandleKept, TableExact, Live, NoneLive
<1>6. CASE Opens
  <2>1. PICK s \in Sockets : m_Tcp' = s /\ table' = table \cup {s}
                             /\ handle' = [handle EXCEPT ![s] = "open"]
      BY <1>6 DEF Opens
  <2>2. pc = "opening" /\ pc' = "rest" /\ ~destroyed
        /\ UNCHANGED <<m_Start, destroyed, late, call, deleting>>
      BY <1>6 DEF Opens, Alive
  <2>3. handle'[s] = "open" /\ \A r \in Sockets \ {s} : handle'[r] = handle[r]
      BY <2>1 DEF TypeOK
  <2>4. NoneLive /\ table = {} /\ m_Start
      BY <2>2 DEF SocketInv, TableExact, NoneLive, TypeOK
  <2>5. \A r \in Sockets : Live(r)' <=> r = s
      BY <2>3, <2>4 DEF NoneLive, Live
  <2>6. \A c \in Callers : ~(deleting' = c /\ call'[c] = "return" /\ ~late')
      BY <2>2 DEF SocketInv
  <2> QED
      BY <2>1, <2>2, <2>3, <2>4, <2>5, <2>6 DEF SocketInv, HandleKept, TableExact
<1>7. CASE CloseSocketed
  <2>1. AtRest /\ UNCHANGED <<m_Start, m_Tcp, table, pc, destroyed, late, call, deleting>>
      BY <1>7 DEF CloseSocketed, Takes
  <2>2. CASE IsOpen
    <3>1. uv_close(m_Tcp)
        BY <1>7, <2>2, Zenon DEF CloseSocketed
    <3> QED
        BY <2>1, <2>2, <3>1, CloseFrame
  <2>3. CASE ~IsOpen
    <3>1. UNCHANGED handle
        BY <1>7, <2>3, Zenon DEF CloseSocketed
    <3> QED
        BY <2>1, <3>1, SocketFrame
  <2> QED
      BY <2>2, <2>3
<1>8. CASE SendDataPrivate
    BY <1>8, SocketFrame DEF SendDataPrivate
<1>9. CASE Connect_Cb
    BY <1>9, SocketFrame DEF Connect_Cb
<1>10. CASE Read_Cb
    BY <1>10, CloseFrame DEF Read_Cb
<1>11. CASE Write_Cb
    BY <1>11, SocketFrame DEF Write_Cb
<1>12. CASE Close_Cb
  <2>1. PICK s \in Sockets : handle[s] = "closing" /\ handle' = [handle EXCEPT ![s] = "closed"]
      BY <1>12 DEF Close_Cb
  <2>2. pc' = "closed" /\ UNCHANGED <<table, destroyed, late, call, deleting>>
      BY <1>12, Zenon DEF Close_Cb
  <2>3. handle'[s] = "closed" /\ \A r \in Sockets \ {s} : handle'[r] = handle[r]
      BY <2>1 DEF TypeOK
  <2>4. \A r \in Sockets : Live(r) => r = s
      BY <2>1 DEF SocketInv, HandleKept, Live
  <2>5. NoneLive'
      BY <2>3, <2>4 DEF NoneLive, Live
  <2>6. table \subseteq Sockets
      BY DEF TypeOK
  <2> QED
      BY <2>2, <2>3, <2>5, <2>6 DEF SocketInv, HandleKept, TableExact, NoneLive
<1>13. CASE Closeed
  <2>1. pc = "closed" /\ pc' = "rest" /\ table' = {s \in table : handle[s] # "closed"}
        /\ UNCHANGED <<m_Start, m_Tcp, handle, destroyed, late, deleting>>
      BY <1>13, Zenon DEF Closeed, Forgets
  <2>2. NoneLive /\ table \subseteq Sockets
      BY <2>1 DEF SocketInv, TypeOK
  <2>3. table' = {}
      BY <2>1, <2>2 DEF SocketInv, NoneLive, Live, TypeOK
  <2> QED
      BY <2>1, <2>2, <2>3 DEF SocketInv, HandleKept, TableExact, NoneLive, Live
<1>14. CASE Terminated \/ UNCHANGED vars
    BY <1>14, SocketFrame DEF Terminated, vars
<1> QED
    BY <1>1, <1>2, <1>3, <1>4, <1>5, <1>6, <1>7, <1>8, <1>9, <1>10, <1>11, <1>12, <1>13, <1>14
    DEF Next, Calls, SendData, CloseSocket, Loop, Network

LEMMA SocketInit == Init => SocketInv
BY DEF Init, SocketInv, HandleKept, TableExact, Live, NoneLive

(* OpenSocket and Close_Cb never free a socket that libuv still has, and the destructor only *)
(* one that an OpenSocket queued before it opened after its test of m_Start.                 *)
THEOREM SocketsKept == Spec => []HandleKept
<1>1. SocketInv => HandleKept
    BY DEF SocketInv
<1> QED
    BY <1>1, SocketInit, SocketStep, TypeCorrect, PTL DEF Spec

(* No entry of the static table outlives its socket. *)
THEOREM TableCorrect == Spec => []TableExact
<1>1. SocketInv => TableExact
    BY DEF SocketInv
<1> QED
    BY <1>1, SocketInit, SocketStep, TypeCorrect, PTL DEF Spec

-----------------------------------------------------------------------------
(* One connection at a time: the refinement of Connection.                 *)

LEMMA ConnectionInit == Init => Connection!Init
BY DEF Init, Connection!Init

(* The steps that leave sockets, table and m_Start alone are stutterings of Connection, the *)
(* others its steps.                                                                        *)
LEMMA ConnectionStep == TypeOK /\ SocketInv /\ [Next]_vars => [Connection!Next]_Connection!vars
<1> SUFFICES ASSUME TypeOK, SocketInv, [Next]_vars
             PROVE  [Connection!Next]_Connection!vars
    OBVIOUS
<1> USE DEF clientVars, loopVars, uvVars, callVars, historyVars
<1>a. /\ Connection!Live = {} <=> NoneLive
      /\ \A s \in Sockets : s \in Connection!Live <=> Live(s)
    BY DEF Connection!Live, NoneLive, Live
<1>b. ASSUME UNCHANGED <<m_Start, handle, table>>, (destroyed /\ ~late)' = (destroyed /\ ~late)
      PROVE  [Connection!Next]_Connection!vars
    BY <1>b DEF Connection!vars
<1>c. ASSUME ~destroyed, IsOpen, uv_close(m_Tcp), UNCHANGED <<m_Start, table, destroyed, late>>
      PROVE  Connection!Next
  <2>1. m_Tcp \in Sockets /\ handle[m_Tcp] = "open"
        /\ handle' = [handle EXCEPT ![m_Tcp] = "closing"]
      BY <1>c DEF IsOpen, uv_close, TypeOK
  <2>2. Connection!Close(m_Tcp)
      BY <1>c, <2>1 DEF Connection!Close, Connection!Goes
  <2> QED
      BY <2>1, <2>2 DEF Connection!Next
<1>1. ASSUME NEW c \in Callers, NEW statement \in {"send", "close"}, Begins(c, statement)
      PROVE  [Connection!Next]_Connection!vars
    BY <1>1, <1>b DEF Begins
<1>2. ASSUME NEW c \in Callers, Destructor(c) PROVE [Connection!Next]_Connection!vars
    BY <1>2, <1>b DEF Destructor
<1>3. ASSUME NEW c \in Callers, Returns(c) PROVE [Connection!Next]_Connection!vars
  <2>1. UNCHANGED <<m_Start, handle, table, late>> /\ call[c] = "return" /\ ~destroyed
        /\ destroyed' = (deleting = c)
      BY <1>3 DEF Returns, At, Alive
  <2>2. CASE deleting = c /\ ~late
    <3>1. NoneLive
        BY <2>1, <2>2 DEF SocketInv
    <3>2. Connection!Delete
        BY <1>a, <2>1, <2>2, <3>1 DEF Connection!Delete
    <3> QED
        BY <3>2 DEF Connection!Next
  <2>3. CASE deleting # c \/ late
    <3>1. (destroyed /\ ~late)' = (destroyed /\ ~late)
        BY <2>1, <2>3 DEF TypeOK
    <3> QED
        BY <1>b, <2>1, <3>1
  <2> QED
      BY <2>2, <2>3
<1>4. ASSUME NEW c \in Callers, Invokes(c) \/ Waits(c),
             UNCHANGED <<clientVars, pc, uvVars, deleting, destroyed, crashed, historyVars>>
      PROVE  [Connection!Next]_Connection!vars
    BY <1>4, <1>b
<1>5. CASE OpenSocket
  <2>1. pc = "rest" /\ ~m_Start /\ ~destroyed /\ m_Start' = TRUE
        /\ UNCHANGED <<table, handle, destroyed>>
      BY <1>5, Zenon DEF OpenSocket, AtRest, Alive
  <2>2. NoneLive
      BY <2>1 DEF SocketInv, HandleKept, NoneLive
  <2>3. table = {}
      BY <2>1, <2>2 DEF SocketInv, TableExact, NoneLive, TypeOK
  <2>4. Connection!Begin
      BY <1>a, <2>1, <2>2, <2>3 DEF Connection!Begin
  <2> QED
      BY <2>4 DEF Connection!Next
<1>6. CASE RefusesIp
  <2>1. pc = "opening" /\ ~destroyed /\ m_Start' = FALSE /\ UNCHANGED <<table, handle, destroyed>>
      BY <1>6, Zenon DEF RefusesIp, Alive
  <2>2. m_Start /\ NoneLive
      BY <2>1 DEF SocketInv
  <2>3. Connection!Refuse
      BY <1>a, <2>1, <2>2 DEF Connection!Refuse
  <2> QED
      BY <2>3 DEF Connection!Next
<1>7. CASE Opens
  <2>1. PICK s \in Sockets : handle[s] = "unused" /\ table' = table \cup {s}
                             /\ handle' = [handle EXCEPT ![s] = "open"]
      BY <1>7 DEF Opens
  <2>2. pc = "opening" /\ ~destroyed /\ UNCHANGED <<m_Start, destroyed>>
      BY <1>7 DEF Opens, Alive
  <2>3. NoneLive /\ m_Start
      BY <2>2 DEF SocketInv
  <2>4. table = {}
      BY <2>2, <2>3 DEF SocketInv, TableExact, NoneLive, TypeOK
  <2>5. Connection!Open(s)
      BY <1>a, <2>1, <2>2, <2>3, <2>4 DEF Connection!Open, Connection!Goes
  <2> QED
      BY <2>1, <2>5 DEF Connection!Next
<1>8. CASE CloseSocketed
  <2>1. ~destroyed /\ UNCHANGED <<m_Start, table, destroyed, late>>
      BY <1>8 DEF CloseSocketed, Takes, AtRest, Alive
  <2>2. CASE IsOpen
    <3>1. uv_close(m_Tcp)
        BY <1>8, <2>2, Zenon DEF CloseSocketed
    <3> QED
        BY <1>c, <2>1, <2>2, <3>1
  <2>3. CASE ~IsOpen
    <3>1. UNCHANGED handle
        BY <1>8, <2>3, Zenon DEF CloseSocketed
    <3> QED
        BY <1>b, <2>1, <3>1
  <2> QED
      BY <2>2, <2>3
<1>9. CASE SendDataPrivate \/ Connect_Cb \/ Write_Cb
    BY <1>9, <1>b DEF SendDataPrivate, Connect_Cb, Write_Cb
<1>10. CASE Read_Cb
    BY <1>10, <1>c DEF Read_Cb, AtRest, Alive
<1>11. CASE Close_Cb
  <2>1. PICK s \in Sockets : handle[s] = "closing" /\ handle' = [handle EXCEPT ![s] = "closed"]
      BY <1>11 DEF Close_Cb
  <2>2. ~destroyed /\ m_Start' = FALSE /\ UNCHANGED <<table, destroyed>>
      BY <1>11, Zenon DEF Close_Cb, Clears, AtRest, Alive
  <2>3. m_Start
      BY <2>1 DEF SocketInv, HandleKept, Live
  <2>4. Connection!Release(s)
      BY <2>1, <2>2, <2>3 DEF Connection!Release, Connection!Goes
  <2> QED
      BY <2>1, <2>4 DEF Connection!Next
<1>12. CASE Closeed
  <2>1. pc = "closed" /\ ~destroyed /\ table' = {s \in table : handle[s] # "closed"}
        /\ UNCHANGED <<m_Start, handle, destroyed>>
      BY <1>12, Zenon DEF Closeed, Forgets, Alive
  <2>2. NoneLive /\ table \subseteq Sockets
      BY <2>1 DEF SocketInv, TypeOK
  <2>3. table' = {}
      BY <2>1, <2>2 DEF SocketInv, NoneLive, Live, TypeOK
  <2>4. Connection!Forget
      BY <1>a, <2>1, <2>2, <2>3 DEF Connection!Forget
  <2> QED
      BY <2>4 DEF Connection!Next
<1>13. CASE Terminated \/ UNCHANGED vars
    BY <1>13, <1>b DEF Terminated, vars
<1> QED
    BY <1>1, <1>2, <1>3, <1>4, <1>5, <1>6, <1>7, <1>8, <1>9, <1>10, <1>11, <1>12, <1>13
    DEF Next, Calls, SendData, CloseSocket, CallerStatement, Loop, Network

(* The client implements Connection: a connection is opened only when no socket is live and *)
(* the table names none, and is started until its close callback.                           *)
THEOREM ConnectionCorrect == Spec => OneConnection
<1>1. Spec => []TypeOK
    BY TypeCorrect
<1>2. Spec => []SocketInv
    BY SocketInit, SocketStep, TypeCorrect, PTL DEF Spec
<1> QED
    BY <1>1, <1>2, ConnectionInit, ConnectionStep, PTL DEF Spec, OneConnection, Connection!Spec

-----------------------------------------------------------------------------
(* CloseSocket().                                                          *)

Cause == ClosePending \/ (\E s \in Sockets : handle[s] = "closing") \/ pc = "closed"

(* WaitHasCause, of a thread that has yet to wait as well. *)
WaitInv == Alive => \A c \in Callers : call[c] \in {"lock", "waiting"} /\ c \notin missed => Cause

LEMMA WaitFrame ==
    ASSUME WaitInv, Alive' => Alive, Alive' /\ Cause => Cause', UNCHANGED missed,
           \A c \in Callers : call'[c] \in {"lock", "waiting"} =>
                                call[c] \in {"lock", "waiting"} \/ Cause'
    PROVE  WaitInv'
BY DEF WaitInv

LEMMA PostsFrame ==
    ASSUME TypeOK, NEW slot \in Slots, Posts(slot)
    PROVE  /\ ClosePending => ClosePending'
           /\ slot = "CloseSocketed" => ClosePending'
<1>1. events \in Seq(Slots) /\ events' = Append(events, slot)
    BY DEF TypeOK, Posts
<1>2. ASSUME NEW i \in DOMAIN events, events[i] = "CloseSocketed" PROVE ClosePending'
  <2>1. i \in DOMAIN events' /\ events'[i] = events[i]
      BY <1>1
  <2> QED
      BY <1>2, <2>1 DEF ClosePending
<1>3. ASSUME slot = "CloseSocketed" PROVE ClosePending'
  <2>1. Len(events) + 1 \in DOMAIN events' /\ events'[Len(events) + 1] = slot
      BY <1>1
  <2> QED
      BY <1>3, <2>1 DEF ClosePending
<1> QED
    BY <1>2, <1>3 DEF ClosePending

LEMMA TakesFrame ==
    ASSUME TypeOK, NEW slot, Takes(slot), slot # "CloseSocketed"
    PROVE  ClosePending => ClosePending'
<1>1. events \in Seq(Slots) /\ events # <<>> /\ Head(events) = slot /\ events' = Tail(events)
    BY DEF TypeOK, Takes
<1> SUFFICES ASSUME NEW i \in DOMAIN events, events[i] = "CloseSocketed" PROVE ClosePending'
    BY DEF ClosePending
<1>2. i # 1
    BY <1>1
<1>3. i - 1 \in DOMAIN events' /\ events'[i - 1] = events[i]
    BY <1>1, <1>2
<1> QED
    BY <1>3 DEF ClosePending

LEMMA WaitStep == TypeOK /\ WaitInv /\ [Next]_vars => WaitInv'
<1> SUFFICES ASSUME TypeOK, WaitInv, [Next]_vars PROVE WaitInv'
    OBVIOUS
<1> USE DEF clientVars, loopVars, uvVars, callVars, historyVars
<1>1. ASSUME NEW c \in Callers, NEW statement \in {"send", "close"}, Begins(c, statement)
      PROVE  WaitInv'
    BY <1>1, GoesFrame, WaitFrame DEF Begins, Cause, ClosePending, Alive
<1>2. ASSUME NEW c \in Callers, Destructor(c) PROVE WaitInv'
  <2>1. /\ UNCHANGED <<events, pc, handle, destroyed, crashed, missed>>
        /\ \E statement \in {"close", "return"} : Goes(c, statement)
      BY <1>2 DEF Destructor
  <2> QED
      BY <2>1, GoesFrame, WaitFrame DEF Cause, ClosePending, Alive
<1>3. ASSUME NEW c \in Callers, CallerStatement(c) PROVE WaitInv'
  <2>1. CASE Returns(c)
    <3>1. /\ UNCHANGED <<pc, handle, missed>> /\ Goes(c, "idle")
          /\ Alive' => UNCHANGED events
          /\ Alive
        BY <2>1 DEF Returns, At, Alive
    <3> QED
        BY <3>1, GoesFrame, WaitFrame DEF Cause, ClosePending
  <2>2. CASE /\ Invokes(c)
             /\ UNCHANGED <<clientVars, pc, uvVars, deleting, destroyed, crashed, historyVars>>
    <3>1. CASE Goes(c, "idle") /\ Posts("SendDataPrivate")
      <4>1. ClosePending => ClosePending'
          BY <3>1, PostsFrame DEF Slots
      <4> QED
          BY <2>2, <3>1, <4>1, GoesFrame, WaitFrame DEF Cause, Alive
    <3>2. CASE Goes(c, "lock") /\ Posts("CloseSocketed")
      <4>1. ClosePending'
          BY <3>2, PostsFrame DEF Slots
      <4> QED
          BY <2>2, <3>2, <4>1, WaitFrame DEF Cause, Alive
    <3> QED
        BY <2>2, <3>1, <3>2 DEF Invokes
  <2>3. CASE /\ Waits(c)
             /\ UNCHANGED <<clientVars, pc, uvVars, deleting, destroyed, crashed, historyVars>>
    <3>1. call[c] = "lock" /\ Goes(c, "waiting") /\ UNCHANGED events
        BY <2>3 DEF Waits, At
    <3> QED
        BY <2>3, <3>1, GoesFrame, WaitFrame DEF Cause, ClosePending, Alive
  <2> QED
      BY <1>3, <2>1, <2>2, <2>3 DEF CallerStatement
<1>4. CASE OpenSocket \/ RefusesIp
  <2>1. /\ pc # "closed"
        /\ UNCHANGED <<events, handle, destroyed, crashed, call, missed>>
      BY <1>4, Zenon DEF OpenSocket, RefusesIp, AtRest
  <2> QED
      BY <2>1, WaitFrame DEF Cause, ClosePending, Alive
<1>5. CASE Opens
  <2>1. PICK s \in Sockets : handle[s] = "unused" /\ handle' = [handle EXCEPT ![s] = "open"]
      BY <1>5 DEF Opens
  <2>2. pc = "opening" /\ UNCHANGED <<events, destroyed, crashed, call, missed>>
      BY <1>5 DEF Opens
  <2>3. \A r \in Sockets : handle[r] = "closing" => handle'[r] = "closing"
      BY <2>1 DEF TypeOK
  <2> QED
      BY <2>2, <2>3, WaitFrame DEF Cause, ClosePending, Alive
<1>c. ASSUME IsOpen, uv_close(m_Tcp) PROVE \E s \in Sockets : handle'[s] = "closing"
  <2>1. m_Tcp \in Sockets
      BY <1>c DEF IsOpen, TypeOK
  <2>2. handle'[m_Tcp] = "closing"
      BY <1>c, <2>1 DEF uv_close, TypeOK
  <2> QED
      BY <2>1, <2>2
<1>6. CASE CloseSocketed
  <2>1. AtRest /\ UNCHANGED <<missed, destroyed, call>>
      BY <1>6 DEF CloseSocketed, Takes
  <2>2. CASE IsOpen
    <3>1. uv_close(m_Tcp)
        BY <1>6, <2>2, Zenon DEF CloseSocketed
    <3> QED
        BY <1>c, <2>2, <3>1 DEF WaitInv, Cause
  <2>3. CASE ~IsOpen
    <3>1. crashed' = "close"
        BY <1>6, <2>3, Zenon DEF CloseSocketed
    <3> QED
        BY <3>1 DEF WaitInv, Alive
  <2> QED
      BY <2>2, <2>3
<1>7. CASE SendDataPrivate
  <2>1. Alive /\ UNCHANGED <<pc, handle, call, missed>> /\ Takes("SendDataPrivate")
      BY <1>7 DEF SendDataPrivate, Takes, AtRest
  <2>2. ClosePending => ClosePending'
      BY <2>1, TakesFrame
  <2> QED
      BY <2>1, <2>2, WaitFrame DEF Cause
<1>8. CASE Connect_Cb
    BY <1>8, WaitFrame DEF Connect_Cb, Cause, ClosePending, Alive
<1>9. CASE Read_Cb
    BY <1>9, <1>c DEF Read_Cb, WaitInv, Cause
<1>10. CASE Write_Cb
    BY <1>10, WaitFrame DEF Write_Cb, Cause, ClosePending, Alive
<1>11. CASE Close_Cb
    BY <1>11 DEF Close_Cb, WaitInv, Cause
<1>12. CASE Closeed
  <2>1. /\ call' = [c \in Callers |-> IF call[c] = "waiting" THEN "return" ELSE call[c]]
        /\ missed' = {c \in Callers : (call[c] = "lock" /\ ~ClosePending)
                                      \/ (c \in missed /\ call[c] # "waiting")}
        /\ UNCHANGED events
      BY <1>12, Zenon DEF Closeed, WakesAll
  <2>2. \A c \in Callers : call'[c] \in {"lock", "waiting"} => call[c] = "lock"
      BY <2>1
  <2>3. \A c \in Callers : call[c] = "lock" /\ c \notin missed' => ClosePending'
      BY <2>1 DEF ClosePending
  <2> QED
      BY <2>2, <2>3 DEF WaitInv, Cause
<1>13. CASE Terminated \/ UNCHANGED vars
    BY <1>13, WaitFrame DEF Terminated, vars, Cause, ClosePending, Alive
<1> QED
    BY <1>1, <1>2, <1>3, <1>4, <1>5, <1>6, <1>7, <1>8, <1>9, <1>10, <1>11, <1>12, <1>13
    DEF Next, Calls, SendData, CloseSocket, Loop, Network

(* CloseSocket() waits for a callback that is to come, or for one that came too early.      *)
THEOREM WaitCorrect == Spec => []WaitHasCause
<1>1. Init => WaitInv
    BY DEF Init, WaitInv
<1>2. WaitInv => WaitHasCause
    BY DEF WaitInv, WaitHasCause, At, Cause
<1> QED
    BY <1>1, <1>2, WaitStep, TypeCorrect, PTL DEF Spec

-----------------------------------------------------------------------------
(* A client that one thread uses at a time.                                *)

Closing == (\E s \in Sockets : handle[s] = "closing") \/ pc = "closed"
Requested == events # <<>> \/ \E c \in Callers : call[c] \in {"send", "close"}
InClose == \E c \in Callers : call[c] \in {"lock", "waiting"}

(* While nobody has ended a stream, no two calls have overlapped and no connection has been  *)
(* begun under the destructor, what is in the queue or about to be is for the socket that is *)
(* open or being opened; a CloseSocketed is the last of it, and its caller is in             *)
(* CloseSocket() until the callback.                                                        *)
Orderly ==
    /\ crashed \notin {"close", "deleted"}
    /\ \A c, d \in Callers : c # d => call[c] = "idle" \/ call[d] = "idle"
    /\ Requested => m_Start /\ (pc = "opening" \/ IsOpen)
    /\ \A i \in DOMAIN events : events[i] = "CloseSocketed" => i = Len(events) /\ InClose
    /\ Closing => events = <<>> /\ InClose
    /\ \A c \in Callers : deleting = c /\ call[c] = "return" => pc = "rest"

StartedInv == m_Start => pc = "opening" \/ (m_Tcp \in Sockets /\ Live(m_Tcp))

Excused == ended \/ shared \/ late \/ m_Ip = "unknown"
SafeInv == StartedInv /\ (Excused \/ Orderly)

LEMMA ExcusedStep == TypeOK /\ [Next]_vars /\ Excused => Excused'
<1> SUFFICES ASSUME TypeOK, [Next]_vars, Excused PROVE Excused'
    OBVIOUS
<1> USE DEF clientVars, loopVars, uvVars, callVars, historyVars
<1>1. m_Ip' = m_Ip
    BY Zenon DEF Next, Calls, SendData, CloseSocket, Begins, Destructor, CallerStatement, Returns,
       Loop, RefusesIp, Opens, CloseSocketed, SendDataPrivate, Close_Cb, Closeed, Network,
       OpenSocket, Connect_Cb, Read_Cb, Write_Cb, Terminated, vars
<1>2. ended => ended'
    BY Zenon DEF Next, Calls, SendData, CloseSocket, Begins, Destructor, CallerStatement, Returns,
       Loop, RefusesIp, Opens, CloseSocketed, SendDataPrivate, Close_Cb, Closeed, Network,
       OpenSocket, Connect_Cb, Read_Cb, Write_Cb, Terminated, vars
<1>3. shared => shared'
    BY Zenon DEF Next, Calls, SendData, CloseSocket, Begins, Destructor, CallerStatement, Returns,
       Loop, RefusesIp, Opens, CloseSocketed, SendDataPrivate, Close_Cb, Closeed, Network,
       OpenSocket, Connect_Cb, Read_Cb, Write_Cb, Terminated, vars
<1>4. late => late'
    BY Zenon DEF Next, Calls, SendData, CloseSocket, Begins, Destructor, CallerStatement, Returns,
       Loop, RefusesIp, Opens, CloseSocketed, SendDataPrivate, Close_Cb, Closeed, Network,
       OpenSocket, Connect_Cb, Read_Cb, Write_Cb, Terminated, vars
<1> QED
    BY <1>1, <1>2, <1>3, <1>4 DEF Excused

LEMMA StartedStep == TypeOK /\ SocketInv /\ StartedInv /\ [Next]_vars => StartedInv'
<1> SUFFICES ASSUME TypeOK, SocketInv, StartedInv, [Next]_vars PROVE StartedInv'
    OBVIOUS
<1> USE DEF clientVars, loopVars, uvVars, callVars, historyVars
<1>f. ASSUME UNCHANGED <<m_Start, m_Tcp, handle>>, pc = "opening" => pc' = "opening"
      PROVE  StartedInv'
    BY <1>f DEF StartedInv, Live
<1>c. ASSUME IsOpen, uv_close(m_Tcp), UNCHANGED m_Tcp PROVE StartedInv'
  <2>1. m_Tcp \in Sockets
      BY <1>c DEF IsOpen, TypeOK
  <2>2. handle'[m_Tcp] = "closing"
      BY <1>c, <2>1 DEF uv_close, TypeOK
  <2> QED
      BY <1>c, <2>1, <2>2 DEF StartedInv, Live
<1>1. CASE Calls
    BY <1>1, <1>f DEF Calls, SendData, CloseSocket, Begins, Destructor
<1>2. ASSUME NEW c \in Callers, CallerStatement(c) PROVE StartedInv'
    BY <1>2, <1>f DEF CallerStatement, Returns
<1>3. CASE OpenSocket
    BY <1>3 DEF OpenSocket, StartedInv
<1>4. CASE RefusesIp
    BY <1>4 DEF RefusesIp, StartedInv
<1>5. CASE Opens
  <2>1. PICK s \in Sockets : m_Tcp' = s /\ handle' = [handle EXCEPT ![s] = "open"]
      BY <1>5 DEF Opens
  <2>2. handle'[s] = "open"
      BY <2>1 DEF TypeOK
  <2> QED
      BY <2>1, <2>2 DEF StartedInv, Live
<1>6. CASE CloseSocketed
  <2>1. CASE IsOpen
    <3>1. uv_close(m_Tcp) /\ UNCHANGED m_Tcp
        BY <1>6, <2>1, Zenon DEF CloseSocketed
    <3> QED
        BY <2>1, <3>1, <1>c
  <2>2. CASE ~IsOpen
    <3>1. UNCHANGED <<m_Start, m_Tcp, handle, pc>>
        BY <1>6, <2>2, Zenon DEF CloseSocketed
    <3> QED
        BY <3>1, <1>f
  <2> QED
      BY <2>1, <2>2
<1>7. CASE SendDataPrivate \/ Connect_Cb \/ Write_Cb
  <2>1. UNCHANGED <<m_Start, m_Tcp, handle, pc>>
      BY <1>7, Zenon DEF SendDataPrivate, Connect_Cb, Write_Cb
  <2> QED
      BY <2>1, <1>f
<1>8. CASE Read_Cb
    BY <1>8, <1>c DEF Read_Cb
<1>9. CASE Close_Cb
    BY <1>9 DEF Close_Cb, Clears, StartedInv
<1>10. CASE Closeed
    BY <1>10, <1>f DEF Closeed
<1>11. CASE Terminated \/ UNCHANGED vars
    BY <1>11, <1>f DEF Terminated, vars
<1> QED
    BY <1>1, <1>2, <1>3, <1>4, <1>5, <1>6, <1>7, <1>8, <1>9, <1>10, <1>11 DEF Next, Loop, Network

(* The queue after an invocation, and after its first has been taken. *)
LEMMA QueueFacts ==
    ASSUME TypeOK
    PROVE  /\ \A slot \in Slots : Posts(slot) =>
                /\ events' # <<>> /\ events'[Len(events')] = slot
                /\ \A i \in DOMAIN events' : i # Len(events') =>
                     i \in DOMAIN events /\ events'[i] = events[i]
           /\ \A slot : Takes(slot) =>
                /\ 1 \in DOMAIN events /\ events[1] = slot
                /\ 1 = Len(events) => events' = <<>>
                /\ \A i \in DOMAIN events' :
                     i + 1 \in DOMAIN events /\ events'[i] = events[i + 1]
                /\ Len(events') = Len(events) - 1
<1>1. ASSUME NEW slot \in Slots, Posts(slot)
      PROVE  /\ events' # <<>> /\ events'[Len(events')] = slot
             /\ \A i \in DOMAIN events' : i # Len(events') =>
                  i \in DOMAIN events /\ events'[i] = events[i]
    BY <1>1 DEF Posts, TypeOK
<1>2. ASSUME NEW slot, Takes(slot)
      PROVE  /\ 1 \in DOMAIN events /\ events[1] = slot
             /\ 1 = Len(events) => events' = <<>>
             /\ \A i \in DOMAIN events' :
                  i + 1 \in DOMAIN events /\ events'[i] = events[i + 1]
             /\ Len(events') = Len(events) - 1
    BY <1>2 DEF Takes, TypeOK
<1> QED
    BY <1>1, <1>2

(* Only a caller's own step moves it, and no other is then in a call. *)
LEMMA OthersIdle ==
    ASSUME TypeOK, Orderly, NEW c \in Callers, call[c] # "idle", NEW statement, Goes(c, statement)
    PROVE  /\ \A d \in Callers \ {c} : call[d] = "idle" /\ call'[d] = "idle"
           /\ call'[c] = statement
           /\ \A d, e \in Callers : d # e => call'[d] = "idle" \/ call'[e] = "idle"
<1>1. call'[c] = statement /\ \A d \in Callers \ {c} : call'[d] = call[d]
    BY GoesFrame
<1> QED
    BY <1>1 DEF Orderly

(* A step that leaves the calls and the queue, and closes nothing. *)
LEMMA OrderlyFrame ==
    ASSUME Orderly, UNCHANGED <<call, events, deleting>>, crashed' = crashed,
           m_Start /\ (pc = "opening" \/ IsOpen) => m_Start' /\ (pc' = "opening" \/ IsOpen'),
           Closing' => Closing,
           \A c \in Callers : deleting = c /\ call[c] = "return" => pc' = "rest"
    PROVE  Orderly'
BY DEF Orderly, Requested, InClose

LEMMA OrderlyCalls ==
    ASSUME TypeOK, SocketInv, StartedInv, Orderly, Calls
    PROVE  Excused' \/ Orderly'
<1> USE DEF clientVars, loopVars, uvVars, callVars, historyVars
(* A started client with no call in progress has its socket open, or is opening it. *)
<1>1. ASSUME m_Start, \A c \in Callers : call[c] = "idle"
      PROVE  (pc = "opening" \/ IsOpen) /\ ~Closing
  <2>1. ~Closing
      BY <1>1 DEF Orderly, InClose
  <2> QED
      BY <1>1, <2>1 DEF StartedInv, Closing, Live, IsOpen, Sockets, Null
<1>2. ASSUME NEW c \in Callers, NEW statement \in {"send", "close"}, Begins(c, statement)
      PROVE  Excused' \/ Orderly'
  <2>1. /\ m_Start /\ deleting = None /\ call[c] = "idle"
        /\ Goes(c, statement)
        /\ shared' = (shared \/ \E d \in Callers \ {c} : call[d] # "idle")
        /\ UNCHANGED <<m_Start, m_Tcp, handle, events, pc, deleting, crashed>>
      BY <1>2 DEF Begins, At
  <2>2. CASE \E d \in Callers \ {c} : call[d] # "idle"
      BY <2>1, <2>2 DEF Excused
  <2>3. CASE \A d \in Callers \ {c} : call[d] = "idle"
    <3>1. (pc = "opening" \/ IsOpen) /\ ~Closing
        BY <1>1, <2>1, <2>3
    <3>2. call'[c] = statement /\ \A d \in Callers \ {c} : call'[d] = "idle"
        BY <2>1, <2>3, GoesFrame
    <3>3. ~InClose
        BY <2>1, <2>3 DEF InClose
    <3>4. ~Closing' /\ (pc' = "opening" \/ IsOpen')
        BY <2>1, <3>1 DEF Closing, IsOpen
    <3>5. \A d \in Callers : ~(deleting' = d /\ call'[d] = "return")
        BY <2>1, NoneAssumption
    <3>6. \A i \in DOMAIN events' : events'[i] # "CloseSocketed"
        BY <2>1, <3>3 DEF Orderly
    <3>7. crashed' \notin {"close", "deleted"}
        BY <2>1 DEF Orderly
    <3>8. \A d, e \in Callers : d # e => call'[d] = "idle" \/ call'[e] = "idle"
        BY <3>2
    <3> QED
        BY <2>1, <3>4, <3>5, <3>6, <3>7, <3>8 DEF Orderly
  <2> QED
      BY <2>2, <2>3
<1>3. ASSUME NEW c \in Callers, Destructor(c) PROVE Orderly'
  <2>1. /\ \A d \in Callers : call[d] = "idle"
        /\ deleting' = c
        /\ Goes(c, IF m_Start THEN "close" ELSE "return")
        /\ UNCHANGED <<m_Start, m_Tcp, handle, events, pc, crashed>>
      BY <1>3 DEF Destructor, At
  <2>2. ~InClose /\ ~Closing
      BY <2>1 DEF InClose, Orderly
  <2>3. /\ call'[c] = (IF m_Start THEN "close" ELSE "return")
        /\ \A d \in Callers \ {c} : call'[d] = "idle"
      BY <2>1, GoesFrame
  <2>4. ~Closing'
      BY <2>1, <2>2 DEF Closing
  <2>5. Requested' => m_Start /\ (pc = "opening" \/ IsOpen)
    <3>1. CASE m_Start
        BY <1>1, <2>1, <3>1
    <3>2. CASE ~m_Start
      <4>1. \A d \in Callers : call'[d] \notin {"send", "close"}
          BY <2>3, <3>2
      <4>2. events' = <<>>
          BY <2>1, <3>2 DEF Orderly, Requested
      <4> QED
          BY <4>1, <4>2 DEF Requested
    <3> QED
        BY <3>1, <3>2
  <2>6. Requested' => m_Start' /\ (pc' = "opening" \/ IsOpen')
      BY <2>1, <2>5 DEF IsOpen
  <2>7. \A d \in Callers : deleting' = d /\ call'[d] = "return" => pc' = "rest"
    <3>1. ~m_Start => pc = "rest"
        BY <2>2 DEF SocketInv, Closing, TypeOK
    <3> QED
        BY <2>1, <2>3, <3>1
  <2>8. \A i \in DOMAIN events' : events'[i] # "CloseSocketed"
      BY <2>1, <2>2 DEF Orderly
  <2>9. crashed' \notin {"close", "deleted"}
        /\ \A d, e \in Callers : d # e => call'[d] = "idle" \/ call'[e] = "idle"
      BY <2>1, <2>3 DEF Orderly
  <2> QED
      BY <2>4, <2>6, <2>7, <2>8, <2>9 DEF Orderly
<1> QED
    BY <1>2, <1>3 DEF Calls, SendData, CloseSocket

LEMMA OrderlyCaller ==
    ASSUME TypeOK, SocketInv, Orderly, NEW c \in Callers, CallerStatement(c)
    PROVE  Excused' \/ Orderly'
<1> USE DEF clientVars, loopVars, uvVars, callVars, historyVars
<1>1. CASE Returns(c)
  <2>1. /\ call[c] = "return" /\ Goes(c, "idle")
        /\ events' = IF deleting = c THEN <<>> ELSE events
        /\ crashed' = IF deleting = c /\ (pc # "rest" \/ \E s \in Sockets : Live(s))
                      THEN "deleted" ELSE crashed
        /\ UNCHANGED <<m_Start, m_Tcp, handle, pc, deleting, late>>
      BY <1>1 DEF Returns, At
  <2>2. \A d \in Callers : call'[d] = "idle"
      BY <2>1, OthersIdle
  <2>3. ~InClose
      BY <2>1 DEF Orderly, InClose
  <2>4. ~late => crashed' = crashed
      BY <2>1 DEF Orderly, SocketInv, NoneLive
  <2>5. ~Closing'
      BY <2>1, <2>3 DEF Orderly, Closing
  <2>6. Requested' => m_Start' /\ (pc' = "opening" \/ IsOpen')
    <3>1. Requested' => Requested
        BY <2>1, <2>2 DEF Requested
    <3> QED
        BY <2>1, <3>1 DEF Orderly, IsOpen
  <2>7. \A i \in DOMAIN events' : events'[i] # "CloseSocketed"
      BY <2>1, <2>3 DEF Orderly
  <2> QED
      BY <2>1, <2>2, <2>4, <2>5, <2>6, <2>7 DEF Orderly, Excused
<1>2. CASE /\ Invokes(c)
           /\ UNCHANGED <<clientVars, pc, uvVars, deleting, destroyed, crashed, historyVars>>
  <2>1. PICK slot \in Slots, statement \in {"idle", "lock"} :
             /\ call[c] \in {"send", "close"} /\ Goes(c, statement) /\ Posts(slot)
             /\ slot = "CloseSocketed" => statement = "lock"
      BY <1>2, Zenon DEF Invokes, At, Slots
  <2>2. call'[c] = statement /\ \A d \in Callers \ {c} : call[d] = "idle" /\ call'[d] = "idle"
      BY <2>1, OthersIdle
  <2>3. Requested /\ ~InClose
      BY <2>1, <2>2 DEF Requested, InClose
  <2>4. m_Start' /\ (pc' = "opening" \/ IsOpen')
      BY <1>2, <2>3 DEF Orderly, IsOpen
  <2>5. ~Closing'
      BY <1>2, <2>3 DEF Orderly, Closing
  <2>6. \A i \in DOMAIN events' : events'[i] = "CloseSocketed" => i = Len(events') /\ InClose'
    <3>1. /\ events'[Len(events')] = slot
          /\ \A i \in DOMAIN events' : i # Len(events') =>
               i \in DOMAIN events /\ events'[i] = events[i]
        BY <2>1, QueueFacts
    <3>2. \A i \in DOMAIN events : events[i] # "CloseSocketed"
        BY <2>3 DEF Orderly
    <3>3. slot = "CloseSocketed" => InClose'
        BY <2>1, <2>2 DEF InClose
    <3> QED
        BY <3>1, <3>2, <3>3
  <2>7. /\ crashed' \notin {"close", "deleted"}
        /\ \A d \in Callers : call'[d] # "return"
        /\ \A d, e \in Callers : d # e => call'[d] = "idle" \/ call'[e] = "idle"
      BY <1>2, <2>2 DEF Orderly
  <2> QED
      BY <2>4, <2>5, <2>6, <2>7 DEF Orderly
<1>3. CASE /\ Waits(c)
           /\ UNCHANGED <<clientVars, pc, uvVars, deleting, destroyed, crashed, historyVars>>
  <2>1. /\ call[c] = "lock" /\ Goes(c, "waiting")
        /\ UNCHANGED <<m_Start, m_Tcp, handle, events, pc, deleting, crashed>>
      BY <1>3 DEF Waits, At
  <2>2. call'[c] = "waiting" /\ \A d \in Callers \ {c} : call[d] = "idle" /\ call'[d] = "idle"
      BY <2>1, OthersIdle
  <2>3. InClose' /\ (Requested' => Requested)
      BY <2>1, <2>2 DEF InClose, Requested
  <2>4. /\ \A d \in Callers : call'[d] # "return"
        /\ \A d, e \in Callers : d # e => call'[d] = "idle" \/ call'[e] = "idle"
      BY <2>2
  <2> QED
      BY <2>1, <2>3, <2>4 DEF Orderly, IsOpen, Closing
<1> QED
    BY <1>1, <1>2, <1>3 DEF CallerStatement

LEMMA OrderlyLoop ==
    ASSUME TypeOK, SocketInv, Orderly, Loop \/ Network
    PROVE  Excused' \/ Orderly'
<1> USE DEF clientVars, loopVars, uvVars, callVars, historyVars
<1>1. CASE OpenSocket
  <2>1. /\ pc = "rest" /\ ~m_Start /\ m_Start' = TRUE /\ pc' = "opening"
        /\ late' = (late \/ deleting # None)
        /\ UNCHANGED <<call, events, deleting, crashed, handle>>
      BY <1>1, Zenon DEF OpenSocket, AtRest
  <2>2. Closing' => Closing
      BY <2>1 DEF Closing
  <2>3. CASE deleting # None
      BY <2>1, <2>3 DEF Excused
  <2>4. CASE deleting = None
      BY <2>1, <2>2, <2>4, OrderlyFrame, NoneAssumption
  <2> QED
      BY <2>3, <2>4
<1>2. CASE RefusesIp
    BY <1>2 DEF RefusesIp, Excused
<1>3. CASE Opens
  <2>1. PICK s \in Sockets : m_Tcp' = s /\ handle' = [handle EXCEPT ![s] = "open"]
      BY <1>3 DEF Opens
  <2>2. /\ pc = "opening" /\ pc' = "rest" /\ UNCHANGED <<m_Start, call, events, deleting>>
        /\ crashed' = crashed
      BY <1>3 DEF Opens
  <2>3. handle'[s] = "open" /\ \A r \in Sockets \ {s} : handle'[r] = handle[r]
      BY <2>1 DEF TypeOK
  <2>4. IsOpen'
      BY <2>1, <2>3 DEF IsOpen, Sockets, Null
  <2>5. Closing' => Closing
      BY <2>2, <2>3 DEF Closing
  <2> QED
      BY <2>2, <2>4, <2>5, OrderlyFrame
<1>4. CASE CloseSocketed
  <2>1. /\ Takes("CloseSocketed") /\ pc = "rest"
        /\ UNCHANGED <<m_Start, m_Tcp, pc, call, deleting>>
      BY <1>4 DEF CloseSocketed, Takes, AtRest
  <2>2. /\ 1 \in DOMAIN events /\ events[1] = "CloseSocketed"
        /\ 1 = Len(events) => events' = <<>>
      BY <2>1, QueueFacts
  <2>3. events' = <<>> /\ InClose
      BY <2>2 DEF Orderly
  <2>4. IsOpen
      BY <2>1, <2>2 DEF Orderly, Requested
  <2>5. crashed' = crashed
      BY <1>4, <2>4, Zenon DEF CloseSocketed
  <2>6. ~Requested'
    <3>1. \A c \in Callers : call[c] \notin {"send", "close"}
        BY <2>3 DEF Orderly, InClose
    <3> QED
        BY <2>1, <2>3, <3>1 DEF Requested
  <2>7. \A i \in DOMAIN events' : events'[i] # "CloseSocketed"
      BY <2>3
  <2> QED
      BY <2>1, <2>3, <2>5, <2>6, <2>7 DEF Orderly, InClose
<1>5. CASE SendDataPrivate
  <2>1. /\ Takes("SendDataPrivate") /\ pc = "rest"
        /\ UNCHANGED <<m_Start, m_Tcp, pc, handle, call, deleting>>
      BY <1>5 DEF SendDataPrivate, Takes, AtRest
  <2>2. /\ 1 \in DOMAIN events
        /\ \A i \in DOMAIN events' : i + 1 \in DOMAIN events /\ events'[i] = events[i + 1]
        /\ Len(events') = Len(events) - 1
      BY <2>1, QueueFacts
  <2>3. Requested
      BY <2>2 DEF Requested
  <2>4. IsOpen /\ m_Start
      BY <2>1, <2>3 DEF Orderly
  <2>5. crashed' \notin {"close", "deleted"}
      BY <1>5, <2>4 DEF SendDataPrivate, IsOpen
  <2>6. ~Closing'
      BY <2>1, <2>2 DEF Orderly, Closing
  <2>7. \A i \in DOMAIN events' : events'[i] = "CloseSocketed" => i = Len(events') /\ InClose'
    <3>1. InClose => InClose'
        BY <2>1 DEF InClose
    <3>2. Len(events) \in Nat /\ Len(events') \in Nat /\ DOMAIN events' = 1..Len(events')
      <4>1. events \in Seq(Slots) /\ events' \in Seq(Slots)
          BY <2>1, QueueTyped DEF TypeOK
      <4> QED
          BY <4>1
    <3> QED
        BY <2>2, <3>1, <3>2 DEF Orderly
  <2> QED
      BY <2>1, <2>4, <2>5, <2>6, <2>7 DEF Orderly, IsOpen
<1>6. CASE Close_Cb
  <2>1. /\ Closing /\ pc' = "closed" /\ UNCHANGED <<call, events, deleting, crashed>>
      BY <1>6 DEF Close_Cb, Closing
  <2>2. events = <<>> /\ InClose
      BY <2>1 DEF Orderly
  <2>3. \A c \in Callers : call[c] \notin {"send", "close", "return"}
      BY <2>2 DEF Orderly, InClose
  <2> QED
      BY <2>1, <2>2, <2>3 DEF Orderly, Requested, InClose
<1>7. CASE Closeed
  <2>1. /\ pc = "closed" /\ pc' = "rest" /\ UNCHANGED <<events, deleting, handle, crashed>>
        /\ call' = [c \in Callers |-> IF call[c] = "waiting" THEN "return" ELSE call[c]]
      BY <1>7, Zenon DEF Closeed, WakesAll
  <2>2. events = <<>> /\ InClose
      BY <2>1 DEF Orderly, Closing
  <2>3. \A c \in Callers : call'[c] \notin {"send", "close"}
      BY <2>1, <2>2 DEF Orderly, InClose
  <2>4. ~Closing'
      BY <2>1 DEF SocketInv, NoneLive, Live, Closing
  <2>5. \A c, d \in Callers : c # d => call'[c] = "idle" \/ call'[d] = "idle"
      BY <2>1 DEF Orderly
  <2> QED
      BY <2>1, <2>2, <2>3, <2>4, <2>5 DEF Orderly, Requested
<1>8. CASE Read_Cb
    BY <1>8 DEF Read_Cb, Excused
<1>9. CASE Connect_Cb \/ Write_Cb
  <2>1. UNCHANGED <<m_Start, m_Tcp, handle, pc, call, events, deleting, crashed>>
      BY <1>9, Zenon DEF Connect_Cb, Write_Cb
  <2> QED
      BY <2>1, OrderlyFrame DEF Orderly, Closing, IsOpen
<1> QED
    BY <1>1, <1>2, <1>3, <1>4, <1>5, <1>6, <1>7, <1>8, <1>9 DEF Loop, Network

LEMMA SafeStep == TypeOK /\ SocketInv /\ SafeInv /\ [Next]_vars => SafeInv'
<1> SUFFICES ASSUME TypeOK, SocketInv, SafeInv, [Next]_vars PROVE SafeInv'
    OBVIOUS
<1>1. StartedInv'
    BY StartedStep DEF SafeInv
<1>2. CASE Excused
    BY <1>1, <1>2, ExcusedStep DEF SafeInv
<1>3. CASE Orderly
  <2>1. CASE Terminated \/ UNCHANGED vars
    <3>1. UNCHANGED <<m_Start, m_Tcp, handle, pc, call, events, deleting, crashed>>
        BY <2>1 DEF Terminated, vars, clientVars, loopVars, uvVars, callVars
    <3>2. \A c \in Callers : deleting = c /\ call[c] = "return" => pc' = "rest"
        BY <1>3, <3>1 DEF Orderly
    <3>3. (Closing' => Closing) /\ (IsOpen => IsOpen')
        BY <3>1 DEF Closing, IsOpen
    <3>4. m_Start /\ (pc = "opening" \/ IsOpen) => m_Start' /\ (pc' = "opening" \/ IsOpen')
        BY <3>1, <3>3
    <3>5. Orderly'
        BY <1>3, <3>1, <3>2, <3>3, <3>4, OrderlyFrame
    <3> QED
        BY <1>1, <3>5 DEF SafeInv
  <2>2. Excused' \/ Orderly'
      BY <1>3, <2>1, OrderlyCalls, OrderlyCaller, OrderlyLoop DEF Next, SafeInv
  <2> QED
      BY <1>1, <2>2 DEF SafeInv
<1> QED
    BY <1>2, <1>3 DEF SafeInv

(* A client used by one thread at a time, which has no OpenSocket queued when it deletes the *)
(* client, is safe until the peer ends a stream.                                            *)
THEOREM CloseIsSafe == Spec => []CloseSafe
<1>1. Init => SafeInv
    BY NoneAssumption
    DEF Init, SafeInv, StartedInv, Orderly, Requested, Closing, InClose
<1>2. SafeInv => CloseSafe
    BY DEF SafeInv, Orderly, Excused, CloseSafe
<1> QED
    BY <1>1, <1>2, SafeStep, SocketInit, SocketStep, TypeCorrect, PTL DEF Spec
=============================================================================
