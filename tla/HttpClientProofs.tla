-------------------------- MODULE HttpClientProofs --------------------------
(* Theorems about HttpClient, for any callers, any kinds of request and any number of them; *)
(* those about one request after the other, for one caller that downloads nothing.          *)
EXTENDS HttpClient, TLAPS

-----------------------------------------------------------------------------
(* What a sequence of statements has.                                      *)

Has(s, statements) == \E i \in DOMAIN s : s[i] \in statements

LEMMA HasConcat ==
    ASSUME NEW s \in Seq(Statements), NEW t \in Seq(Statements), NEW X
    PROVE  /\ Has(s \o t, X) <=> Has(s, X) \/ Has(t, X)
           /\ s \o t \in Seq(Statements)
<1>1. ASSUME NEW i \in DOMAIN t, t[i] \in X PROVE Has(s \o t, X)
  <2>1. i + Len(s) \in DOMAIN (s \o t) /\ (s \o t)[i + Len(s)] = t[i]
      BY <1>1
  <2> QED
      BY <1>1, <2>1 DEF Has
<1>2. ASSUME NEW i \in DOMAIN s, s[i] \in X PROVE Has(s \o t, X)
  <2>1. i \in DOMAIN (s \o t) /\ (s \o t)[i] = s[i]
      BY <1>2
  <2> QED
      BY <1>2, <2>1 DEF Has
<1>3. ASSUME NEW i \in DOMAIN (s \o t), (s \o t)[i] \in X PROVE Has(s, X) \/ Has(t, X)
  <2>1. CASE i <= Len(s)
    <3>1. i \in DOMAIN s /\ s[i] = (s \o t)[i]
        BY <1>3, <2>1
    <3> QED
        BY <1>3, <3>1 DEF Has
  <2>2. CASE i > Len(s)
    <3>1. i - Len(s) \in DOMAIN t /\ t[i - Len(s)] = (s \o t)[i]
        BY <1>3, <2>2
    <3> QED
        BY <1>3, <3>1 DEF Has
  <2> QED
      BY <1>3, <2>1, <2>2
<1> QED
    BY <1>1, <1>2, <1>3 DEF Has

LEMMA HasTail ==
    ASSUME NEW s \in Seq(Statements), s # <<>>, NEW X
    PROVE  /\ Has(s, X) <=> Head(s) \in X \/ Has(Tail(s), X)
           /\ Tail(s) \in Seq(Statements)
<1>1. ASSUME NEW i \in DOMAIN Tail(s), Tail(s)[i] \in X PROVE Has(s, X)
  <2>1. i + 1 \in DOMAIN s /\ s[i + 1] = Tail(s)[i]
      BY <1>1
  <2> QED
      BY <1>1, <2>1 DEF Has
<1>2. ASSUME Head(s) \in X PROVE Has(s, X)
  <2>1. 1 \in DOMAIN s /\ s[1] = Head(s)
      OBVIOUS
  <2> QED
      BY <1>2, <2>1 DEF Has
<1>3. ASSUME NEW i \in DOMAIN s, s[i] \in X PROVE Head(s) \in X \/ Has(Tail(s), X)
  <2>1. CASE i = 1
      BY <1>3, <2>1
  <2>2. CASE i # 1
    <3>1. i - 1 \in DOMAIN Tail(s) /\ Tail(s)[i - 1] = s[i]
        BY <1>3, <2>2
    <3> QED
        BY <1>3, <3>1 DEF Has
  <2> QED
      BY <2>1, <2>2
<1> QED
    BY <1>1, <1>2, <1>3 DEF Has

LEMMA HasNothing == \A X : ~Has(<<>>, X)
BY DEF Has

-----------------------------------------------------------------------------
(* The statements a slot begins with.                                      *)

(* The statements of requests, of ExitTask, and of the thread's slots. *)
CallStatements == {"busy", "check", "var", "state", "emit"}
ExitSet == {"stop", "work", "file", "closing", "quit", "wait"}
ThreadStatements == Statements \ CallStatements

RequestTails == {<<"busy", "check", "var", "state", "emit">>, <<"check", "var", "state", "emit">>,
                 <<"var", "state", "emit">>, <<"state", "emit">>, <<"emit">>}

LEMMA TailsFacts ==
    ASSUME NEW s \in RequestTails
    PROVE  /\ s \in Seq(CallStatements)
           /\ s # <<>>
           /\ Head(s) \in CallStatements
           /\ Tail(s) \in RequestTails \cup {<<>>}
           /\ Head(s) # "emit" => Tail(s) # <<>>
           /\ Head(s) # "busy" => Has(s, {"emit"}) /\ ~Has(s, {"busy"})
           /\ Head(s) = "busy" => Has(s, {"busy"})
           /\ Head(s) # "emit" => Has(Tail(s), {"emit"}) /\ ~Has(Tail(s), {"busy"})
<1>1. CASE s = <<"busy", "check", "var", "state", "emit">>
    BY <1>1 DEF RequestTails, CallStatements, Has
<1>2. CASE s = <<"check", "var", "state", "emit">>
    BY <1>2 DEF RequestTails, CallStatements, Has
<1>3. CASE s = <<"var", "state", "emit">>
    BY <1>3 DEF RequestTails, CallStatements, Has
<1>4. CASE s = <<"state", "emit">>
    BY <1>4 DEF RequestTails, CallStatements, Has
<1>5. CASE s = <<"emit">>
    BY <1>5 DEF RequestTails, CallStatements, Has
<1> QED
    BY <1>1, <1>2, <1>3, <1>4, <1>5 DEF RequestTails

LEMMA RequestTailHeads ==
    ASSUME NEW s \in RequestTails
    PROVE  /\ Head(s) = "busy" => Tail(s) \in RequestTails /\ Head(Tail(s)) = "check"
           /\ Head(s) = "check" => Tail(s) \in RequestTails /\ Head(Tail(s)) = "var"
           /\ Head(s) = "var" => Tail(s) \in RequestTails /\ Head(Tail(s)) = "state"
           /\ Head(s) = "state" => Tail(s) \in RequestTails /\ Head(Tail(s)) = "emit"
           /\ Head(s) = "emit" => Tail(s) = <<>>
           /\ s \notin Seq(ExitSet) /\ s # <<>>
<1>1. CASE s = <<"busy", "check", "var", "state", "emit">>
  <2>1. Tail(s) = <<"check", "var", "state", "emit">>
      BY <1>1
  <2> QED
      BY <1>1, <2>1 DEF RequestTails, ExitSet
<1>2. CASE s = <<"check", "var", "state", "emit">>
  <2>1. Tail(s) = <<"var", "state", "emit">>
      BY <1>2
  <2> QED
      BY <1>2, <2>1 DEF RequestTails, ExitSet
<1>3. CASE s = <<"var", "state", "emit">>
  <2>1. Tail(s) = <<"state", "emit">>
      BY <1>3
  <2> QED
      BY <1>3, <2>1 DEF RequestTails, ExitSet
<1>4. CASE s = <<"state", "emit">>
  <2>1. Tail(s) = <<"emit">>
      BY <1>4
  <2> QED
      BY <1>4, <2>1 DEF RequestTails, ExitSet
<1>5. CASE s = <<"emit">>
  <2>1. Tail(s) = <<>>
      BY <1>5
  <2> QED
      BY <1>5, <2>1 DEF RequestTails, ExitSet
<1> QED
    BY <1>1, <1>2, <1>3, <1>4, <1>5 DEF RequestTails

LEMMA SlotsTyped ==
    /\ ReplySlot \in Seq(ThreadStatements)
    /\ SslErrorsSlot \in Seq(ThreadStatements)
    /\ httpDownFinished \in Seq(ThreadStatements)
    /\ httpError \in Seq(ThreadStatements)
    /\ ExitStatements \in Seq(ExitSet)
<1> USE DEF ThreadStatements, Statements, CallStatements
<1>1. ReplySlot \in Seq(ThreadStatements)
  <2>1. <<"reply", "none", "unset", "work", "disconnect">> \in Seq(ThreadStatements)
      OBVIOUS
  <2>2. <<>> \in Seq(ThreadStatements)
      OBVIOUS
  <2>3. CASE listening
      BY <2>1, <2>3, Zenon DEF ReplySlot
  <2>4. CASE ~listening
      BY <2>2, <2>4, Zenon DEF ReplySlot
  <2> QED
      BY <2>3, <2>4
<1>2. SslErrorsSlot \in Seq(ThreadStatements)
    BY DEF SslErrorsSlot
<1>3. httpDownFinished \in Seq(ThreadStatements)
    BY DEF httpDownFinished
<1>4. httpError \in Seq(ThreadStatements)
    BY DEF httpError
<1>5. ExitStatements \in Seq(ExitSet)
    BY DEF ExitStatements, ExitSet
<1> QED
    BY <1>1, <1>2, <1>3, <1>4, <1>5

LEMMA SlotsClearWork ==
    /\ listening => Has(ReplySlot, {"work"})
    /\ ~listening => ReplySlot = <<>>
    /\ Has(SslErrorsSlot, {"work"})
    /\ Has(httpDownFinished, {"work"})
    /\ ~Has(ExitStatements, {"disconnect"})
    /\ ~Has(<<"none", "work">>, {"disconnect"})
    /\ ~Has(<<"work", "closing">>, {"disconnect"})
    /\ Has(<<"none", "work">>, {"work"})
    /\ Has(<<"work", "closing">>, {"work"})
<1>1. listening => ReplySlot = <<"reply", "none", "unset", "work", "disconnect">>
    BY DEF ReplySlot
<1>2. Has(<<"reply", "none", "unset", "work", "disconnect">>, {"work"})
  <2>1. 4 \in DOMAIN <<"reply", "none", "unset", "work", "disconnect">>
      OBVIOUS
  <2> QED
      BY <2>1 DEF Has
<1>3. ~listening => ReplySlot = <<>>
    BY DEF ReplySlot
<1>4. Has(SslErrorsSlot, {"work"})
  <2>1. 3 \in DOMAIN SslErrorsSlot /\ SslErrorsSlot[3] = "work"
      BY DEF SslErrorsSlot
  <2> QED
      BY <2>1 DEF Has
<1>5. Has(httpDownFinished, {"work"})
  <2>1. 3 \in DOMAIN httpDownFinished /\ httpDownFinished[3] = "work"
      BY DEF httpDownFinished
  <2> QED
      BY <2>1 DEF Has
<1>6. ~Has(ExitStatements, {"disconnect"})
    BY DEF ExitStatements, Has
<1>7. /\ ~Has(<<"none", "work">>, {"disconnect"})
      /\ ~Has(<<"work", "closing">>, {"disconnect"})
    BY DEF Has
<1>8. Has(<<"none", "work">>, {"work"})
  <2>1. 2 \in DOMAIN <<"none", "work">>
      OBVIOUS
  <2> QED
      BY <2>1 DEF Has
<1>9. Has(<<"work", "closing">>, {"work"})
  <2>1. 1 \in DOMAIN <<"work", "closing">>
      OBVIOUS
  <2> QED
      BY <2>1 DEF Has
<1> QED
    BY <1>1, <1>2, <1>3, <1>4, <1>5, <1>6, <1>7, <1>8, <1>9

-----------------------------------------------------------------------------
(* Types, and which statements each thread may execute.                    *)

(* A caller is in a request or in ExitTask; the thread never executes a caller's statement. *)
TodoShape ==
    /\ \A c \in Callers : todo[c] \in RequestTails \/ todo[c] \in Seq(ExitSet)
    /\ todo["http"] \in Seq(ThreadStatements)

TypeInv == TypeOK /\ TodoShape

LEMMA TypeInit == Init => TypeInv
<1> SUFFICES ASSUME Init PROVE TypeInv
    OBVIOUS
<1>1. <<>> \in Seq(Statements) /\ <<>> \in Seq(ExitSet) /\ <<>> \in Seq(ThreadStatements)
    OBVIOUS
<1>2. todo \in [Threads -> Seq(Statements)]
    BY <1>1 DEF Init
<1>3. TodoShape
    BY <1>1 DEF Init, TodoShape, Threads
<1>4. 0 \in Ids /\ NoRequest \in [id : Ids, kind : RequestKinds]
    BY RequestsAssumption DEF Ids, NoRequest, RequestKinds
<1> QED
    BY <1>2, <1>3, <1>4 DEF Init, TypeInv, TypeOK

(* A thread that begins a function. *)
LEMMA BeginsTyped ==
    ASSUME TypeInv, NEW t \in Threads, NEW s, Begins(t, s),
           t = "http" => s \in Seq(ThreadStatements),
           t \in Callers => s \in RequestTails \/ s \in Seq(ExitSet)
    PROVE  todo' \in [Threads -> Seq(Statements)] /\ TodoShape'
<1>1. s \in Seq(Statements)
  <2>1. RequestTails \subseteq Seq(Statements)
      BY TailsFacts DEF CallStatements, Statements
  <2>2. Seq(ExitSet) \subseteq Seq(Statements) /\ Seq(ThreadStatements) \subseteq Seq(Statements)
      BY DEF ExitSet, ThreadStatements, Statements, CallStatements
  <2> QED
      BY <2>1, <2>2 DEF Threads
<1> QED
    BY <1>1, CallersAssumption DEF Begins, TypeInv, TypeOK, TodoShape, Threads

(* Which thread may be at which statement. *)
LEMMA AtFacts ==
    ASSUME TypeInv, NEW t \in Threads, NEW statement, At(t, statement)
    PROVE  /\ todo[t] # <<>> /\ todo[t] \in Seq(Statements) /\ Head(todo[t]) = statement
           /\ t = "http" => statement \in ThreadStatements
           /\ t \in Callers /\ statement \in CallStatements => todo[t] \in RequestTails
           /\ t \in Callers /\ statement \notin CallStatements =>
                  statement \in ExitSet /\ todo[t] \in Seq(ExitSet)
<1>1. todo[t] # <<>> /\ todo[t] \in Seq(Statements) /\ Head(todo[t]) = statement
    BY DEF At, Idle, TypeInv, TypeOK
<1>2. ASSUME NEW S, todo[t] \in Seq(S) PROVE Head(todo[t]) \in S
    BY <1>1, <1>2
<1>3. ExitSet \cap CallStatements = {}
    BY DEF ExitSet, CallStatements
<1>4. todo[t] \in RequestTails => Head(todo[t]) \in CallStatements
    BY TailsFacts
<1> QED
    BY <1>1, <1>2, <1>3, <1>4 DEF TypeInv, TodoShape

(* A thread that executes a statement. *)
LEMMA ThenTyped ==
    ASSUME TypeInv, NEW t \in Threads, NEW statement, NEW next, Then(t, statement, next),
           t = "http" => next \in Seq(ThreadStatements),
           t \in Callers => next \in Seq(ExitSet),
           t \in Callers /\ statement \in CallStatements => next = <<>>
    PROVE  todo' \in [Threads -> Seq(Statements)] /\ TodoShape'
<1>1. At(t, statement) /\ Begins(t, next \o Tail(todo[t]))
    BY DEF Then, Begins
<1>2. t = "http" => next \o Tail(todo[t]) \in Seq(ThreadStatements)
    BY <1>1, AtFacts DEF TypeInv, TodoShape
<1>3. t \in Callers => \/ next \o Tail(todo[t]) \in RequestTails
                       \/ next \o Tail(todo[t]) \in Seq(ExitSet)
  <2> SUFFICES ASSUME t \in Callers
               PROVE  \/ next \o Tail(todo[t]) \in RequestTails
                      \/ next \o Tail(todo[t]) \in Seq(ExitSet)
      OBVIOUS
  <2>1. CASE statement \in CallStatements
    <3>1. todo[t] \in RequestTails /\ next = <<>> /\ Tail(todo[t]) \in Seq(Statements)
        BY <1>1, <2>1, AtFacts, HasTail
    <3>2. next \o Tail(todo[t]) = Tail(todo[t])
        BY <3>1
    <3>3. Tail(todo[t]) \in RequestTails \cup {<<>>} /\ <<>> \in Seq(ExitSet)
        BY <3>1, TailsFacts
    <3> QED
        BY <3>2, <3>3
  <2>2. CASE statement \notin CallStatements
      BY <1>1, <2>2, AtFacts
  <2> QED
      BY <2>1, <2>2
<1> QED
    BY <1>1, <1>2, <1>3, BeginsTyped

(* An action that leaves todo keeps the shape. *)
LEMMA TodoUnchanged ==
    ASSUME TypeInv, UNCHANGED todo
    PROVE  todo' \in [Threads -> Seq(Statements)] /\ TodoShape'
BY DEF TypeInv, TypeOK, TodoShape

(* TypeOK but for todo. *)
FieldsTyped ==
    /\ m_bStart \in BOOLEAN /\ m_bWork \in BOOLEAN
    /\ m_pFile \in Files \cup {0} /\ open \subseteq Files
    /\ m_yState \in RequestKinds \cup {"NONE"}
    /\ m_pVar \in Ids /\ replied \in Ids /\ count \in Ids
    /\ crashed \in {"no", "file", "var"}
    /\ request \in [Callers -> [id : Ids, kind : RequestKinds]]
    /\ pc \in {"begin", "loop", "finished"}
    /\ updates \in Nat
    /\ replies \in [Waiting \X Ids -> Nat]
    /\ listening \in BOOLEAN /\ quitting \in BOOLEAN /\ lost \in BOOLEAN /\ raced \in BOOLEAN
    /\ accepted \subseteq Ids
    /\ refused \subseteq Waiting \X Ids
    /\ answers \in [Ids -> Nat]

LEMMA SendsTyped ==
    ASSUME FieldsTyped, NEW waiting \in Waiting, Sends(waiting)
    PROVE  replies' \in [Waiting \X Ids -> Nat]
<1>1. <<waiting, m_pVar>> \in Waiting \X Ids /\ replies \in [Waiting \X Ids -> Nat]
    BY DEF FieldsTyped
<1> QED
    BY <1>1 DEF Sends

LEMMA FieldsStep == TypeInv /\ [Next]_vars => FieldsTyped'
<1> SUFFICES ASSUME TypeInv, [Next]_vars PROVE FieldsTyped'
    OBVIOUS
<1> FieldsTyped
    BY DEF TypeInv, TypeOK, FieldsTyped
<1> USE DEF FieldsTyped, flagVars, fileVars, loopVars, historyVars
<1>1. ASSUME NEW c \in Callers, NEW kind \in Kinds, Request(c, kind) PROVE FieldsTyped'
  <2>1. count' \in Ids /\ kind \in RequestKinds
      BY <1>1, RequestsAssumption, KindsAssumption DEF Request, Ids
  <2> QED
      BY <1>1, <2>1 DEF Request
<1>2. ASSUME NEW t \in Threads, ExitTask(t) PROVE FieldsTyped'
    BY <1>2 DEF ExitTask
<1>3. ASSUME NEW t \in Threads, Statement(t) PROVE FieldsTyped'
  <2>1. 0 \in Ids
      BY RequestsAssumption DEF Ids
  <2>2. CASE SetsFlag(t)
    <3>1. UNCHANGED <<fileVars, request, loopVars, historyVars>>
        BY <2>2 DEF SetsFlag
    <3>2. /\ m_bStart' \in BOOLEAN /\ m_bWork' \in BOOLEAN
          /\ m_yState' \in RequestKinds \cup {"NONE"} /\ m_pVar' \in Ids
        BY <2>1, <2>2 DEF SetsFlag
    <3> QED
        BY <3>1, <3>2
  <2>3. CASE TestsFile(t)
      BY <2>3 DEF TestsFile
  <2>4. CASE UsesFile(t)
      BY <2>4 DEF UsesFile
  <2>5. CASE Switch(t)
      BY <2>5 DEF Switch
  <2>6. CASE Answers(t)
      BY <2>6 DEF Answers
  <2>7. CASE Disconnects(t)
      BY <2>7 DEF Disconnects
  <2>8. CASE Quits(t)
      BY <2>8 DEF Quits
  <2>9. CASE Waits(t)
      BY <2>9 DEF Waits
  <2> QED
      BY <1>3, <2>2, <2>3, <2>4, <2>5, <2>6, <2>7, <2>8, <2>9 DEF Statement
<1>4. ASSUME NEW c \in Callers, CallerStatement(c) PROVE FieldsTyped'
  <2>1. CASE Refuses(c)
    <3>1. NoRequest \in [id : Ids, kind : RequestKinds]
        BY RequestsAssumption DEF NoRequest, Ids, RequestKinds
    <3> QED
        BY <2>1, <3>1 DEF Refuses
  <2>2. CASE Proceeds(c)
      BY <2>2 DEF Proceeds
  <2>3. CASE SetsVar(c)
      BY <2>3 DEF SetsVar
  <2>4. CASE SetHttpState(c)
      BY <2>4 DEF SetHttpState
  <2>5. CASE UpdateHttpState(c)
    <3>1. NoRequest \in [id : Ids, kind : RequestKinds]
        BY RequestsAssumption DEF NoRequest, Ids, RequestKinds
    <3> QED
        BY <2>5, <3>1 DEF UpdateHttpState
  <2> QED
      BY <1>3, <1>4, <2>1, <2>2, <2>3, <2>4, <2>5 DEF CallerStatement, Threads
<1>5. CASE Thread
  <2>1. CASE Connects
      BY <2>1 DEF Connects
  <2>2. CASE RunEnds
      BY <2>2 DEF RunEnds
  <2>3. CASE InitHttpDownLoad
      BY <2>3 DEF InitHttpDownLoad, Update, Sends
  <2>4. ASSUME NEW kind, InitHttpRequest(kind) PROVE FieldsTyped'
    <3>1. Sends("request") /\ Update(kind) /\ listening' = TRUE /\ UNCHANGED <<m_pFile, open>>
        BY <2>4, Zenon DEF InitHttpRequest
    <3>2. replies' \in [Waiting \X Ids -> Nat]
        BY <3>1, SendsTyped DEF Waiting
    <3>3. updates' \in Nat
        BY <3>1 DEF Update
    <3> QED
        BY <3>1, <3>2, <3>3, Zenon DEF Update
  <2>5. CASE UpdateWithoutState
      BY <2>5 DEF UpdateWithoutState, Update
  <2> QED
      BY <1>3, <1>5, <2>1, <2>2, <2>3, <2>4, <2>5
      DEF Thread, InitHttpGet, InitHttpPost, InitHttpMultiPartPost, Threads
<1>6. CASE Network
  <2>1. ASSUME NEW waiting \in Waiting, NEW id \in Ids, NEW s, Ends(waiting, id, s),
               refused' \subseteq Waiting \X Ids
        PROVE  FieldsTyped'
    <3>1. <<waiting, id>> \in Waiting \X Ids
        OBVIOUS
    <3>2. replies' \in [Waiting \X Ids -> Nat]
        BY <2>1, <3>1 DEF Ends
    <3> QED
        BY <2>1, <3>2, Zenon DEF Ends
  <2>2. ASSUME NEW id \in Ids, httpDownReadyRead(id) PROVE FieldsTyped'
      BY <2>2 DEF httpDownReadyRead
  <2> QED
      BY <1>6, <2>1, <2>2
      DEF Network, RequestFinished, DownLoadFinished, DownLoadFailed, SslErrors, Waiting
<1>7. CASE RaceOnVar
    BY <1>7 DEF RaceOnVar
<1>8. CASE Terminated \/ UNCHANGED vars
    BY <1>8 DEF Terminated, vars
<1> QED
    BY <1>1, <1>2, <1>3, <1>4, <1>5, <1>6, <1>7, <1>8 DEF Next, Calls

LEMMA TodoStep ==
    TypeInv /\ [Next]_vars => todo' \in [Threads -> Seq(Statements)] /\ TodoShape'
<1> SUFFICES ASSUME TypeInv, [Next]_vars
             PROVE  todo' \in [Threads -> Seq(Statements)] /\ TodoShape'
    OBVIOUS
<1> DEFINE Typed == todo' \in [Threads -> Seq(Statements)] /\ TodoShape'
<1> USE DEF Typed
<1>e. <<>> \in Seq(ExitSet) /\ <<>> \in Seq(ThreadStatements)
    OBVIOUS
<1>s. Seq(ExitSet) \subseteq Seq(ThreadStatements)
    BY DEF ExitSet, ThreadStatements, Statements, CallStatements
<1>t. "http" \in Threads /\ Callers \subseteq Threads /\ "http" \notin Callers
    BY CallersAssumption DEF Threads
<1>1. ASSUME NEW c \in Callers, NEW kind \in Kinds, Request(c, kind) PROVE Typed
  <2>1. <<"busy", "check", "var", "state", "emit">> \in RequestTails
      BY DEF RequestTails
  <2> QED
      BY <1>1, <1>t, <2>1, BeginsTyped DEF Request
<1>2. ASSUME NEW t \in Threads, ExitTask(t) PROVE Typed
    BY <1>2, <1>s, SlotsTyped, BeginsTyped DEF ExitTask
<1>3. ASSUME NEW t \in Threads, NEW statement, Does(t, statement) PROVE Typed
    BY <1>3, <1>e, ThenTyped DEF Does
<1>4. ASSUME NEW t \in Threads, Statement(t) PROVE Typed
  <2>1. CASE TestsFile(t)
    <3>1. "file" \notin CallStatements /\ <<"closing">> \in Seq(ExitSet)
        BY DEF CallStatements, ExitSet
    <3>2. (IF m_pFile # 0 THEN <<"closing">> ELSE <<>>) \in Seq(ExitSet)
        BY <1>e, <3>1
    <3> QED
        BY <2>1, <3>1, <3>2, <1>s, ThenTyped DEF TestsFile
  <2>2. CASE Switch(t)
    <3> DEFINE next == CASE m_yState = "DOWNLOAD" -> <<"file", "error">>
                         [] m_yState = "HTTPPOST" -> <<"posterror">>
                         [] OTHER -> <<>>
    <3>1. next \in Seq(ThreadStatements)
      <4>1. <<"file", "error">> \in Seq(ThreadStatements)
            /\ <<"posterror">> \in Seq(ThreadStatements)
          BY DEF ThreadStatements, Statements, CallStatements
      <4> QED
          BY <1>e, <4>1
    <3>2. Then(t, "switch", next)
        BY <2>2 DEF Switch
    <3>3. At(t, "switch") /\ "switch" \notin ExitSet /\ "switch" \notin CallStatements
        BY <3>2 DEF Then, ExitSet, CallStatements
    <3>4. t \notin Callers
        BY <3>3, AtFacts
    <3> QED
        BY <3>1, <3>2, <3>4, ThenTyped
  <2>3. CASE Quits(t)
    <3>1. <<"wait">> \in Seq(ExitSet)
        BY DEF ExitSet
    <3>2. (IF pc = "finished" THEN <<>> ELSE <<"wait">>) \in Seq(ExitSet)
        BY <1>e, <3>1
    <3>3. "quit" \notin CallStatements
        BY DEF CallStatements
    <3> QED
        BY <2>3, <3>2, <3>3, <1>s, ThenTyped DEF Quits
  <2> QED
      BY <1>3, <1>4, <2>1, <2>2, <2>3
      DEF Statement, SetsFlag, UsesFile, Answers, Disconnects, Waits
<1>5. ASSUME NEW c \in Callers, CallerStatement(c) PROVE Typed
  <2>1. CASE Refuses(c)
      BY <2>1, <1>e, <1>t, BeginsTyped DEF Refuses
  <2> QED
      BY <1>3, <1>4, <1>5, <1>t, <2>1
      DEF CallerStatement, Proceeds, SetsVar, SetHttpState, UpdateHttpState
<1>6. ASSUME NEW s \in Seq(ThreadStatements), Begins("http", s) PROVE Typed
    BY <1>6, <1>t, BeginsTyped
<1>7. CASE Thread
  <2>1. <<"work", "closing">> \in Seq(ThreadStatements)
        /\ <<"none", "work">> \in Seq(ThreadStatements)
      BY DEF ThreadStatements, Statements, CallStatements
  <2>2. CASE InitHttpDownLoad
      BY <2>1, <2>2, <1>6, TodoUnchanged DEF InitHttpDownLoad
  <2>3. CASE UpdateWithoutState
      BY <2>1, <2>3, <1>6 DEF UpdateWithoutState
  <2> QED
      BY <1>4, <1>7, <1>t, <2>2, <2>3, TodoUnchanged
      DEF Thread, Connects, RunEnds, InitHttpGet, InitHttpPost, InitHttpMultiPartPost,
          InitHttpRequest
<1>8. CASE Network
  <2>1. <<"write">> \in Seq(ThreadStatements)
      BY DEF ThreadStatements, Statements, CallStatements
  <2>2. ReplySlot \o httpDownFinished \in Seq(ThreadStatements)
      BY SlotsTyped
  <2>3. httpError \o ReplySlot \o httpDownFinished \in Seq(ThreadStatements)
      BY SlotsTyped
  <2> QED
      BY <1>6, <1>8, <2>1, <2>2, <2>3, SlotsTyped
      DEF Network, RequestFinished, DownLoadFinished, DownLoadFailed, SslErrors, Ends,
          httpDownReadyRead
<1>9. CASE RaceOnVar \/ Terminated \/ UNCHANGED vars
    BY <1>9, TodoUnchanged DEF RaceOnVar, Terminated, vars
<1> QED
    BY <1>1, <1>2, <1>5, <1>7, <1>8, <1>9 DEF Next, Calls

LEMMA TypeStep == TypeInv /\ [Next]_vars => TypeInv'
<1> SUFFICES ASSUME TypeInv, [Next]_vars PROVE TypeInv'
    OBVIOUS
<1> QED
    BY FieldsStep, TodoStep, Zenon DEF FieldsTyped, TypeInv, TypeOK

(* Type correctness: every variable keeps its type, whatever the callers and the network do. *)
THEOREM TypeCorrect == Spec => []TypeOK
<1>1. TypeInv => TypeOK
    BY DEF TypeInv
<1> QED
    BY <1>1, TypeInit, TypeStep, PTL DEF Spec

-----------------------------------------------------------------------------
(* The object is busy for a reason.                                        *)

(* A caller between m_bWork = true and UpdateHttpState. *)
Mid(c) == Has(todo[c], {"emit"}) /\ ~Has(todo[c], {"busy"})
Requested == (\E c \in Callers : Mid(c)) \/ updates > 0
ClearsWork == Has(todo["http"], {"work"})
Disconnecting == Has(todo["http"], {"disconnect"})

(* BusyHasCause alone is not inductive: a slot that has cleared m_bWork disconnects the     *)
(* manager, and with it the reply that BusyHasCause might have counted on.  By then a new   *)
(* m_bWork can only come from a caller whose event the thread has not taken yet.            *)
BusyInv == m_bWork /\ ~lost /\ pc # "finished" =>
    /\ \/ Requested
       \/ ClearsWork
       \/ InFlight("download")
       \/ listening /\ InFlight("request")
    /\ Disconnecting /\ ~ClearsWork => Requested

LEMMA BusyInvImplies == BusyInv => BusyHasCause
BY DEF BusyInv, BusyHasCause, Requested, Mid, ClearsWork, Pending, Has

(* A step that touches nothing BusyInv speaks of, but for todo. *)
LEMMA BusyFrame ==
    ASSUME BusyInv, m_bWork' => m_bWork, UNCHANGED <<lost, updates, pc, replies, listening>>,
           \A c \in Callers : Mid(c) => Mid(c)',
           ClearsWork => ClearsWork',
           Disconnecting' => Disconnecting
    PROVE  BusyInv'
<1>1. Requested => Requested'
    BY DEF Requested
<1> QED
    BY <1>1 DEF BusyInv, InFlight

(* What a thread that begins, and what one that goes on, leaves of the others. *)
LEMMA BeginsFrame ==
    ASSUME TypeInv, NEW t \in Threads, NEW s, Begins(t, s)
    PROVE  /\ todo'[t] = s
           /\ \A c \in Callers : c # t => (Mid(c) <=> Mid(c)')
           /\ t # "http" => (ClearsWork <=> ClearsWork') /\ (Disconnecting <=> Disconnecting')
           /\ t = "http" => /\ ClearsWork' <=> Has(s, {"work"})
                            /\ Disconnecting' <=> Has(s, {"disconnect"})
<1>1. todo'[t] = s /\ \A u \in Threads \ {t} : todo'[u] = todo[u]
    BY DEF Begins, TypeInv, TypeOK
<1> QED
    BY <1>1, CallersAssumption DEF Mid, ClearsWork, Disconnecting, Threads

LEMMA HttpThen ==
    ASSUME TypeInv, NEW statement, NEW next \in Seq(Statements), Then("http", statement, next)
    PROVE  /\ \A c \in Callers : Mid(c) <=> Mid(c)'
           /\ ~Has(next, {"disconnect"}) /\ Disconnecting' => Disconnecting
           /\ statement # "work" /\ ClearsWork => ClearsWork'
           /\ statement # "work" /\ ~Has(next, {"work"}) /\ ClearsWork' => ClearsWork
           /\ statement = "disconnect" => Disconnecting
           /\ statement \in ThreadStatements
<1> "http" \in Threads /\ "http" \notin Callers
    BY CallersAssumption DEF Threads
<1>1. Begins("http", next \o Tail(todo["http"])) /\ At("http", statement)
    BY DEF Then, Begins
<1>2. todo["http"] # <<>> /\ todo["http"] \in Seq(Statements) /\ Head(todo["http"]) = statement
      /\ statement \in ThreadStatements
    BY <1>1, AtFacts
<1>3. \A X : Has(todo["http"], X) <=> statement \in X \/ Has(Tail(todo["http"]), X)
    BY <1>2, HasTail
<1>4. Tail(todo["http"]) \in Seq(Statements)
    BY <1>2, HasTail
<1>5. \A X : Has(next \o Tail(todo["http"]), X) <=>
            Has(next, X) \/ Has(Tail(todo["http"]), X)
    BY <1>4, HasConcat
<1> QED
    BY <1>1, <1>2, <1>3, <1>5, BeginsFrame DEF ClearsWork, Disconnecting

(* A caller in ExitTask is not requesting. *)
LEMMA ExitNotMid ==
    ASSUME NEW c \in Callers, todo[c] \in Seq(ExitSet)
    PROVE  ~Mid(c)
BY DEF Mid, Has, ExitSet

(* A statement other than the writes of m_bWork, of any thread. *)
LEMMA StatementFrame ==
    ASSUME TypeInv, NEW t \in Threads, NEW statement,
           statement \notin CallStatements \cup {"work"},
           NEW next \in Seq(Statements), Then(t, statement, next),
           ~Has(next, {"disconnect"})
    PROVE  /\ \A c \in Callers : Mid(c) => Mid(c)'
           /\ ClearsWork => ClearsWork'
           /\ Disconnecting' => Disconnecting
<1>1. CASE t = "http"
    BY <1>1, HttpThen
<1>2. CASE t \in Callers
  <2>1. At(t, statement) /\ Begins(t, next \o Tail(todo[t]))
      BY DEF Then, Begins
  <2>2. ~Mid(t)
      BY <1>2, <2>1, AtFacts, ExitNotMid
  <2> QED
      BY <1>2, <2>1, <2>2, BeginsFrame, CallersAssumption
<1> QED
    BY <1>1, <1>2 DEF Threads

LEMMA BusyInit == Init => BusyInv
BY DEF Init, BusyInv

(* A step of a caller's request from one of its statements to the next. *)
LEMMA RequestFrame ==
    ASSUME TypeInv, NEW c \in Callers, NEW statement \in CallStatements \ {"emit"},
           Does(c, statement)
    PROVE  Mid(c)' /\ ClearsWork' = ClearsWork /\ Disconnecting' = Disconnecting
           /\ \A d \in Callers : Mid(d) => Mid(d)'
<1>1. At(c, statement) /\ Begins(c, <<>> \o Tail(todo[c])) /\ c \in Threads /\ c # "http"
    BY CallersAssumption DEF Does, Then, Begins, Threads
<1>2. todo[c] \in RequestTails /\ Head(todo[c]) = statement /\ Tail(todo[c]) \in Seq(Statements)
    BY <1>1, AtFacts, HasTail
<1>3. <<>> \o Tail(todo[c]) = Tail(todo[c])
    BY <1>2
<1>4. Has(Tail(todo[c]), {"emit"}) /\ ~Has(Tail(todo[c]), {"busy"})
    BY <1>2, TailsFacts
<1>5. Mid(c)'
    BY <1>1, <1>3, <1>4, BeginsFrame DEF Mid
<1>6. \A d \in Callers \ {c} : Mid(d) => Mid(d)'
    BY <1>1, BeginsFrame
<1>7. (ClearsWork <=> ClearsWork') /\ (Disconnecting <=> Disconnecting')
    BY <1>1, BeginsFrame
<1> QED
    BY <1>5, <1>6, <1>7 DEF ClearsWork, Disconnecting, Has

(* The statements of Statement(t). *)
LEMMA BusyStatement ==
    ASSUME TypeInv, BusyInv, NEW t \in Threads, Statement(t)
    PROVE  BusyInv'
<1> USE DEF flagVars, fileVars, loopVars, historyVars
<1>e. <<>> \in Seq(Statements) /\ ~Has(<<>>, {"disconnect"})
    BY HasNothing
<1>1. ASSUME NEW statement, statement \notin CallStatements \cup {"work"},
             NEW next \in Seq(Statements), Then(t, statement, next), ~Has(next, {"disconnect"}),
             m_bWork' => m_bWork, UNCHANGED <<lost, updates, pc, replies, listening>>
      PROVE  BusyInv'
    BY <1>1, StatementFrame, BusyFrame
<1>2. CASE SetsFlag(t)
  <2>1. CASE Does(t, "busy")
    <3>1. t \in Callers
      <4>1. At(t, "busy") /\ "busy" \notin ThreadStatements
          BY <2>1 DEF Does, Then, ThreadStatements, CallStatements
      <4> QED
          BY <4>1, AtFacts DEF Threads
    <3>2. "busy" \in CallStatements \ {"emit"}
        BY DEF CallStatements
    <3>3. Mid(t)'
        BY <2>1, <3>1, <3>2, RequestFrame
    <3> QED
        BY <3>1, <3>3 DEF BusyInv, Requested
  <2>2. CASE m_bWork' = FALSE
      BY <2>2 DEF BusyInv
  <2>3. ASSUME NEW statement \in {"none", "unset", "stop"}, Does(t, statement),
               m_bWork' = m_bWork
        PROVE  BusyInv'
    <3>1. statement \notin CallStatements \cup {"work"}
        BY <2>3 DEF CallStatements
    <3> QED
        BY <1>2, <2>3, <3>1, <1>e, <1>1 DEF SetsFlag, Does
  <2> QED
      BY <1>2, <2>1, <2>2, <2>3 DEF SetsFlag
<1>3. CASE TestsFile(t)
  <2>1. <<"closing">> \in Seq(Statements) /\ ~Has(<<"closing">>, {"disconnect"})
      BY DEF Statements, Has
  <2>2. (IF m_pFile # 0 THEN <<"closing">> ELSE <<>>) \in Seq(Statements)
        /\ ~Has(IF m_pFile # 0 THEN <<"closing">> ELSE <<>>, {"disconnect"})
      BY <1>e, <2>1
  <2>3. "file" \notin CallStatements \cup {"work"}
      BY DEF CallStatements
  <2> QED
      BY <1>1, <1>3, <2>2, <2>3 DEF TestsFile
<1>4. CASE UsesFile(t)
  <2>1. "closing" \notin CallStatements \cup {"work"}
        /\ "write" \notin CallStatements \cup {"work"}
      BY DEF CallStatements
  <2> QED
      BY <1>1, <1>4, <1>e, <2>1 DEF UsesFile, Does
<1>5. CASE Switch(t)
  <2> DEFINE next == CASE m_yState = "DOWNLOAD" -> <<"file", "error">>
                       [] m_yState = "HTTPPOST" -> <<"posterror">>
                       [] OTHER -> <<>>
  <2>1. /\ <<"file", "error">> \in Seq(Statements) /\ ~Has(<<"file", "error">>, {"disconnect"})
        /\ <<"posterror">> \in Seq(Statements) /\ ~Has(<<"posterror">>, {"disconnect"})
      BY DEF Statements, Has
  <2>2. next \in {<<"file", "error">>, <<"posterror">>, <<>>}
      OBVIOUS
  <2>3. next \in Seq(Statements) /\ ~Has(next, {"disconnect"})
      BY <1>e, <2>1, <2>2
  <2>4. Then(t, "switch", next)
      BY <1>5 DEF Switch
  <2>5. "switch" \notin CallStatements \cup {"work"}
      BY DEF CallStatements
  <2>6. UNCHANGED <<m_bWork, lost, updates, pc, replies, listening>>
      BY <1>5, Zenon DEF Switch
  <2> HIDE DEF next
  <2> QED
      BY <1>1, <2>3, <2>4, <2>5, <2>6
<1>6. CASE Answers(t)
  <2>1. \A s \in {"reply", "error", "finished", "posterror"} : s \notin CallStatements \cup {"work"}
      BY DEF CallStatements
  <2> QED
      BY <1>1, <1>6, <1>e, <2>1 DEF Answers, Does
<1>7. CASE Disconnects(t)
  <2>1. Then(t, "disconnect", <<>>) /\ UNCHANGED <<m_bWork, lost, updates, pc, replies>>
      BY <1>7 DEF Disconnects, Does
  <2>2. t = "http"
    <3>1. At(t, "disconnect") /\ "disconnect" \notin CallStatements /\ "disconnect" \notin ExitSet
        BY <2>1 DEF Then, CallStatements, ExitSet
    <3> QED
        BY <3>1, AtFacts DEF Threads
  <2>3. /\ \A c \in Callers : Mid(c) <=> Mid(c)'
        /\ ClearsWork => ClearsWork'
        /\ Disconnecting
    <3>1. Then("http", "disconnect", <<>>)
        BY <2>1, <2>2
    <3>2. "disconnect" # "work"
        OBVIOUS
    <3> QED
        BY <1>e, <3>1, <3>2, HttpThen, Zenon
  <2>4. Requested => Requested'
      BY <2>1, <2>3 DEF Requested
  <2> QED
      BY <2>1, <2>3, <2>4 DEF BusyInv
<1>8. CASE Quits(t)
  <2>1. <<"wait">> \in Seq(Statements) /\ ~Has(<<"wait">>, {"disconnect"})
      BY DEF Statements, Has
  <2>2. (IF pc = "finished" THEN <<>> ELSE <<"wait">>) \in Seq(Statements)
        /\ ~Has(IF pc = "finished" THEN <<>> ELSE <<"wait">>, {"disconnect"})
      BY <1>e, <2>1
  <2>3. "quit" \notin CallStatements \cup {"work"}
      BY DEF CallStatements
  <2> QED
      BY <1>1, <1>8, <2>2, <2>3 DEF Quits
<1>9. CASE Waits(t)
  <2>1. "wait" \notin CallStatements \cup {"work"}
      BY DEF CallStatements
  <2> QED
      BY <1>1, <1>9, <1>e, <2>1 DEF Waits, Does
<1> QED
    BY <1>2, <1>3, <1>4, <1>5, <1>6, <1>7, <1>8, <1>9 DEF Statement

(* The other statements of a caller. *)
LEMMA BusyCaller ==
    ASSUME TypeInv, BusyInv, NEW c \in Callers, CallerStatement(c)
    PROVE  BusyInv'
<1> USE DEF flagVars, fileVars, loopVars, historyVars
<1>1. ASSUME NEW statement \in CallStatements \ {"emit"}, Does(c, statement)
      PROVE  BusyInv'
    BY <1>1, RequestFrame DEF BusyInv, Requested
<1>2. CASE Refuses(c)
    BY <1>2 DEF Refuses, BusyInv
<1>3. CASE Proceeds(c)
    BY <1>1, <1>3 DEF Proceeds, CallStatements
<1>4. CASE SetsVar(c)
    BY <1>1, <1>4 DEF SetsVar, CallStatements
<1>5. CASE SetHttpState(c)
    BY <1>1, <1>5 DEF SetHttpState, CallStatements
<1>6. CASE UpdateHttpState(c)
  <2>1. CASE pc = "begin"
      BY <1>6, <2>1 DEF UpdateHttpState, BusyInv
  <2>2. CASE pc # "begin"
    <3>1. updates' > 0
        BY <1>6, <2>2 DEF UpdateHttpState, TypeInv, TypeOK
    <3> QED
        BY <3>1 DEF BusyInv, Requested
  <2> QED
      BY <2>1, <2>2
<1> QED
    BY <1>2, <1>3, <1>4, <1>5, <1>6, BusyStatement DEF CallerStatement, Threads

(* A slot that begins: of an event, or of a reply. *)
LEMMA RestFacts ==
    ASSUME TypeInv, AtRest
    PROVE  ~ClearsWork /\ ~Disconnecting
BY HasNothing DEF AtRest, Idle, ClearsWork, Disconnecting

LEMMA SentInFlight ==
    ASSUME TypeInv, NEW waiting \in Waiting, Sends(waiting)
    PROVE  InFlight(waiting)'
<1>1. <<waiting, m_pVar>> \in Waiting \X Ids /\ replies \in [Waiting \X Ids -> Nat]
      /\ m_pVar \in Ids
    BY DEF TypeInv, TypeOK
<1>2. replies'[<<waiting, m_pVar>>] > 0
    BY <1>1 DEF Sends
<1> QED
    BY <1>1, <1>2 DEF InFlight

LEMMA BusyThread ==
    ASSUME TypeInv, BusyInv, Thread
    PROVE  BusyInv'
<1> USE DEF flagVars, fileVars, loopVars, historyVars
<1>t. "http" \in Threads
    BY DEF Threads
<1>1. CASE Connects
    BY <1>1, BusyFrame DEF Connects, BusyInv, Requested, Mid, ClearsWork, Disconnecting, InFlight,
                           Has
<1>2. CASE RunEnds
    BY <1>2 DEF RunEnds, BusyInv
<1>3. ASSUME NEW s, Begins("http", s), Has(s, {"work"}) PROVE BusyInv'
    BY <1>3, <1>t, BeginsFrame DEF BusyInv
<1>4. CASE InitHttpDownLoad
  <2>1. CASE Sends("download") /\ UNCHANGED todo
    <3>1. ~Disconnecting'
        BY <1>4, <2>1, RestFacts DEF InitHttpDownLoad, Update, Disconnecting
    <3>2. InFlight("download")'
        BY <2>1, SentInFlight DEF Waiting
    <3> QED
        BY <3>1, <3>2 DEF BusyInv
  <2>2. CASE Begins("http", <<"work", "closing">>)
      BY <2>2, <1>3, SlotsClearWork
  <2> QED
      BY <1>4, <2>1, <2>2 DEF InitHttpDownLoad
<1>5. ASSUME NEW kind, InitHttpRequest(kind) PROVE BusyInv'
  <2>1. Update(kind) /\ Sends("request") /\ UNCHANGED todo /\ listening'
      BY <1>5, Zenon DEF InitHttpRequest
  <2>2. ~Disconnecting'
      BY <2>1, RestFacts DEF Update, Disconnecting
  <2>3. InFlight("request")'
      BY <2>1, SentInFlight DEF Waiting
  <2> QED
      BY <2>1, <2>2, <2>3 DEF BusyInv
<1>6. CASE UpdateWithoutState
    BY <1>6, <1>3, SlotsClearWork DEF UpdateWithoutState
<1>7. CASE Statement("http")
    BY <1>7, <1>t, BusyStatement
<1> QED
    BY <1>1, <1>2, <1>4, <1>5, <1>6, <1>7
    DEF Thread, InitHttpGet, InitHttpPost, InitHttpMultiPartPost

LEMMA BusyNetwork ==
    ASSUME TypeInv, BusyInv, Network
    PROVE  BusyInv'
<1> USE DEF flagVars, fileVars, loopVars, historyVars
<1>t. "http" \in Threads
    BY DEF Threads
<1>1. ASSUME NEW s, Begins("http", s), Has(s, {"work"}) PROVE BusyInv'
    BY <1>1, <1>t, BeginsFrame DEF BusyInv
<1>2. ASSUME NEW id \in Ids, RequestFinished(id) PROVE BusyInv'
  <2>1. Ends("request", id, ReplySlot)
      BY <1>2 DEF RequestFinished
  <2>2. Begins("http", ReplySlot)
        /\ UNCHANGED <<m_bWork, lost, updates, pc, listening>>
      BY <2>1 DEF Ends
  <2>3. CASE listening
      BY <2>2, <2>3, <1>1, SlotsClearWork
  <2>4. CASE ~listening
    <3>1. ~Disconnecting' /\ \A c \in Callers : Mid(c) <=> Mid(c)'
      <4>1. ReplySlot = <<>>
          BY <2>4, SlotsClearWork
      <4> QED
          BY <2>2, <4>1, <1>t, BeginsFrame, HasNothing, CallersAssumption
    <3>2. InFlight("download") => InFlight("download")'
      <4> SUFFICES ASSUME NEW i \in Ids, replies[<<"download", i>>] > 0
                   PROVE  replies'[<<"download", i>>] > 0
          BY DEF InFlight
      <4>1. <<"download", i>> # <<"request", id>>
          OBVIOUS
      <4> QED
          BY <2>1, <4>1 DEF Ends, TypeInv, TypeOK, Waiting
    <3>3. ~ClearsWork /\ ~Disconnecting
        BY <2>1, RestFacts DEF Ends
    <3> QED
        BY <2>2, <2>4, <3>1, <3>2, <3>3 DEF BusyInv, Requested
  <2> QED
      BY <2>3, <2>4
<1>3. ASSUME NEW id \in Ids, DownLoadFinished(id) PROVE BusyInv'
  <2>1. Has(ReplySlot \o httpDownFinished, {"work"})
    <3>1. ReplySlot \in Seq(Statements) /\ httpDownFinished \in Seq(Statements)
        BY SlotsTyped DEF ThreadStatements
    <3> QED
        BY <3>1, SlotsClearWork, HasConcat
  <2> QED
      BY <1>1, <1>3, <2>1 DEF DownLoadFinished, Ends
<1>4. ASSUME NEW id \in Ids, DownLoadFailed(id) PROVE BusyInv'
  <2>1. Has((httpError \o ReplySlot) \o httpDownFinished, {"work"})
    <3>1. ReplySlot \in Seq(Statements) /\ httpError \in Seq(Statements)
          /\ httpDownFinished \in Seq(Statements)
        BY SlotsTyped DEF ThreadStatements
    <3> QED
        BY <3>1, SlotsClearWork, HasConcat
  <2> QED
      BY <1>1, <1>4, <2>1 DEF DownLoadFailed, Ends
<1>5. ASSUME NEW id \in Ids, NEW waiting \in Waiting, SslErrors(waiting, id) PROVE BusyInv'
    BY <1>1, <1>5, SlotsClearWork DEF SslErrors, Ends
<1>6. ASSUME NEW id \in Ids, httpDownReadyRead(id) PROVE BusyInv'
  <2>1. ~Has(<<"write">>, {"disconnect"})
      BY DEF Has
  <2>2. ~ClearsWork /\ ~Disconnecting
      BY <1>6, RestFacts DEF httpDownReadyRead
  <2>3. ~Disconnecting' /\ \A c \in Callers : Mid(c) <=> Mid(c)'
      BY <1>6, <2>1, <1>t, BeginsFrame, CallersAssumption DEF httpDownReadyRead
  <2> QED
      BY <1>6, <2>2, <2>3, BusyFrame DEF httpDownReadyRead
<1> QED
    BY <1>2, <1>3, <1>4, <1>5, <1>6 DEF Network

LEMMA BusyStep == TypeInv /\ BusyInv /\ [Next]_vars => BusyInv'
<1> SUFFICES ASSUME TypeInv, BusyInv, [Next]_vars PROVE BusyInv'
    OBVIOUS
<1> USE DEF flagVars, fileVars, loopVars, historyVars
<1>1. ASSUME NEW c \in Callers, NEW kind \in Kinds, Request(c, kind) PROVE BusyInv'
  <2>1. ~m_bWork'
      BY <1>1 DEF Request
  <2> QED
      BY <2>1 DEF BusyInv
<1>2. ASSUME NEW t \in Threads, ExitTask(t) PROVE BusyInv'
  <2>1. Begins(t, ExitStatements) /\ UNCHANGED <<m_bWork, lost, updates, pc, replies, listening>>
      BY <1>2 DEF ExitTask
  <2>2. todo[t] = <<>>
      BY <1>2 DEF ExitTask, AtRest, Idle
  <2>3. \A c \in Callers : Mid(c) => Mid(c)'
      BY <2>1, <2>2, BeginsFrame, HasNothing DEF Mid
  <2>4. (ClearsWork => ClearsWork') /\ (Disconnecting' => Disconnecting)
      BY <2>1, <2>2, BeginsFrame, HasNothing, SlotsClearWork DEF ClearsWork
  <2> QED
      BY <2>1, <2>3, <2>4, BusyFrame
<1>3. CASE RaceOnVar \/ Terminated \/ UNCHANGED vars
  <2>1. UNCHANGED <<m_bWork, lost, updates, pc, replies, listening, todo>>
      BY <1>3 DEF RaceOnVar, Terminated, vars
  <2> QED
      BY <2>1, BusyFrame DEF Mid, ClearsWork, Disconnecting
<1> QED
    BY <1>1, <1>2, <1>3, BusyCaller, BusyThread, BusyNetwork DEF Next, Calls

(* The object is busy only while something will clear m_bWork: whatever the number of       *)
(* callers that test and set the flags without a lock, no interleaving leaves it refusing   *)
(* requests with nothing under way, but for the event emitted to nobody.                    *)
THEOREM BusyCorrect == Spec => []BusyHasCause
<1>1. TypeInv /\ BusyInv => BusyHasCause
    BY BusyInvImplies
<1> QED
    BY <1>1, TypeInit, TypeStep, BusyInit, BusyStep, PTL DEF Spec

-----------------------------------------------------------------------------
(* What a step does: the statements that threads execute, in one place.                      *)

(* The statements that come before the ones that are left.                                   *)
NextOf(statement, next) ==
    /\ statement \notin {"file", "quit", "switch"} => next = <<>>
    /\ statement = "file" => next = IF m_pFile # 0 THEN <<"closing">> ELSE <<>>
    /\ statement = "quit" => next \in {<<>>, <<"wait">>}
    /\ statement = "switch" => next \in {<<>>, <<"file", "error">>, <<"posterror">>}

(* What executing a statement of Statement(t) does to the variables but todo.                *)
Effects(statement) ==
    /\ m_bStart' = (m_bStart /\ statement # "stop")
    /\ m_bWork' = (statement = "busy" \/ (m_bWork /\ statement # "work"))
    /\ m_yState' = IF statement = "none" THEN "NONE" ELSE m_yState
    /\ m_pVar' = IF statement = "unset" THEN 0 ELSE m_pVar
    /\ m_pFile' = IF statement = "closing" THEN 0 ELSE m_pFile
    /\ open' = IF statement = "closing" THEN open \ {m_pFile} ELSE open
    /\ crashed' = IF statement \in {"closing", "write"} /\ m_pFile = 0 THEN "file" ELSE crashed
    /\ listening' = (listening /\ statement # "disconnect")
    /\ statement = "reply" => answers' = [answers EXCEPT ![replied] = @ + 1]
    /\ statement \notin {"reply", "error", "finished", "posterror"} => answers' = answers
    /\ UNCHANGED <<request, pc, replied, updates, replies, count, lost, raced, accepted, refused>>

LEMMA StatementEffects ==
    ASSUME TypeInv, NEW t \in Threads, Statement(t)
    PROVE  \E statement \in Statements \ {"check", "var", "state", "emit"},
              next \in Seq(Statements) :
               Then(t, statement, next) /\ NextOf(statement, next) /\ Effects(statement)
<1> USE DEF flagVars, fileVars, loopVars, historyVars
<1>e. <<>> \in Seq(Statements)
    OBVIOUS
<1>b. m_bStart \in BOOLEAN /\ m_bWork \in BOOLEAN /\ listening \in BOOLEAN
    BY DEF TypeInv, TypeOK
<1>0. ASSUME NEW statement \in
                   Statements \ {"check", "var", "state", "emit", "file", "quit", "switch"},
             Does(t, statement), Effects(statement)
      PROVE  \E s \in Statements \ {"check", "var", "state", "emit"}, next \in Seq(Statements) :
               Then(t, s, next) /\ NextOf(s, next) /\ Effects(s)
  <2>1. NextOf(statement, <<>>)
      BY <1>0 DEF NextOf
  <2> QED
      BY <1>0, <1>e, <2>1 DEF Does
<1>1. CASE SetsFlag(t)
  <2>1. CASE Does(t, "busy") /\ m_bWork' = TRUE /\ UNCHANGED <<m_bStart, m_yState, m_pVar>>
    <3>1. Effects("busy")
        BY <1>1, <1>b, <2>1 DEF SetsFlag, Effects
    <3> QED
        BY <1>0, <2>1, <3>1 DEF Statements
  <2>2. CASE Does(t, "work") /\ m_bWork' = FALSE /\ UNCHANGED <<m_bStart, m_yState, m_pVar>>
    <3>1. Effects("work")
        BY <1>1, <1>b, <2>2 DEF SetsFlag, Effects
    <3> QED
        BY <1>0, <2>2, <3>1 DEF Statements
  <2>3. CASE Does(t, "none") /\ m_yState' = "NONE" /\ UNCHANGED <<m_bStart, m_bWork, m_pVar>>
    <3>1. Effects("none")
        BY <1>1, <1>b, <2>3 DEF SetsFlag, Effects
    <3> QED
        BY <1>0, <2>3, <3>1 DEF Statements
  <2>4. CASE Does(t, "unset") /\ m_pVar' = 0 /\ UNCHANGED <<m_bStart, m_bWork, m_yState>>
    <3>1. Effects("unset")
        BY <1>1, <1>b, <2>4 DEF SetsFlag, Effects
    <3> QED
        BY <1>0, <2>4, <3>1 DEF Statements
  <2>5. CASE Does(t, "stop") /\ m_bStart' = FALSE /\ UNCHANGED <<m_bWork, m_yState, m_pVar>>
    <3>1. Effects("stop")
        BY <1>1, <1>b, <2>5 DEF SetsFlag, Effects
    <3> QED
        BY <1>0, <2>5, <3>1 DEF Statements
  <2> QED
      BY <1>1, <2>1, <2>2, <2>3, <2>4, <2>5 DEF SetsFlag
<1>2. CASE TestsFile(t)
  <2> DEFINE next == IF m_pFile # 0 THEN <<"closing">> ELSE <<>>
  <2>1. next \in Seq(Statements)
    <3>1. <<"closing">> \in Seq(Statements)
        BY DEF Statements
    <3> QED
        BY <1>e, <3>1
  <2>2. Then(t, "file", next) /\ NextOf("file", next)
      BY <1>2 DEF TestsFile, NextOf
  <2>3. Effects("file")
      BY <1>2, <1>b, Zenon DEF TestsFile, Effects
  <2>4. "file" \in Statements \ {"check", "var", "state", "emit"}
      BY DEF Statements
  <2> QED
      BY <2>1, <2>2, <2>3, <2>4
<1>3. CASE UsesFile(t)
  <2>1. CASE Does(t, "closing") /\ m_pFile' = 0 /\ open' = open \ {m_pFile}
    <3>1. Effects("closing")
        BY <1>3, <1>b, <2>1 DEF UsesFile, Effects
    <3> QED
        BY <1>0, <2>1, <3>1 DEF Statements
  <2>2. CASE Does(t, "write") /\ UNCHANGED <<m_pFile, open>>
    <3>1. Effects("write")
        BY <1>3, <1>b, <2>2 DEF UsesFile, Effects
    <3> QED
        BY <1>0, <2>2, <3>1 DEF Statements
  <2> QED
      BY <1>3, <2>1, <2>2 DEF UsesFile
<1>4. CASE Switch(t)
  <2> DEFINE next == CASE m_yState = "DOWNLOAD" -> <<"file", "error">>
                       [] m_yState = "HTTPPOST" -> <<"posterror">>
                       [] OTHER -> <<>>
  <2>1. next \in {<<>>, <<"file", "error">>, <<"posterror">>}
      OBVIOUS
  <2>2. next \in Seq(Statements)
    <3>1. <<"file", "error">> \in Seq(Statements) /\ <<"posterror">> \in Seq(Statements)
        BY DEF Statements
    <3> QED
        BY <1>e, <2>1, <3>1
  <2>3. Then(t, "switch", next) /\ UNCHANGED <<flagVars, fileVars, request, loopVars, historyVars>>
      BY <1>4, Zenon DEF Switch
  <2> HIDE DEF next
  <2>4. NextOf("switch", next)
      BY <2>1 DEF NextOf
  <2>5. Effects("switch")
      BY <1>b, <2>3 DEF Effects
  <2>6. "switch" \in Statements \ {"check", "var", "state", "emit"}
      BY DEF Statements
  <2> QED
      BY <2>2, <2>3, <2>4, <2>5, <2>6
<1>5. CASE Answers(t)
  <2>1. \E s \in {"reply", "error", "finished", "posterror"} : Does(t, s) /\ Effects(s)
      BY <1>5, <1>b DEF Answers, Effects
  <2> QED
      BY <1>0, <2>1 DEF Statements
<1>6. CASE Disconnects(t)
  <2>1. Does(t, "disconnect") /\ Effects("disconnect")
      BY <1>6, <1>b DEF Disconnects, Effects
  <2> QED
      BY <1>0, <2>1 DEF Statements
<1>7. CASE Quits(t)
  <2> DEFINE next == IF pc = "finished" THEN <<>> ELSE <<"wait">>
  <2>1. next \in {<<>>, <<"wait">>}
      OBVIOUS
  <2>2. next \in Seq(Statements)
    <3>1. <<"wait">> \in Seq(Statements)
        BY DEF Statements
    <3> QED
        BY <1>e, <2>1, <3>1
  <2>3. Then(t, "quit", next)
      BY <1>7 DEF Quits
  <2>4. Effects("quit")
      BY <1>7, <1>b, Zenon DEF Quits, Effects
  <2> HIDE DEF next
  <2>5. NextOf("quit", next) /\ "quit" \in Statements \ {"check", "var", "state", "emit"}
      BY <2>1 DEF NextOf, Statements
  <2> QED
      BY <2>2, <2>3, <2>4, <2>5
<1>8. CASE Waits(t)
  <2>1. Does(t, "wait") /\ Effects("wait")
      BY <1>8, <1>b DEF Waits, Effects
  <2> QED
      BY <1>0, <2>1 DEF Statements
<1> QED
    BY <1>1, <1>2, <1>3, <1>4, <1>5, <1>6, <1>7, <1>8 DEF Statement

(* A thread that executes a statement leaves the others alone.                               *)
LEMMA ThenFrame ==
    ASSUME TypeInv, NEW t \in Threads, NEW statement, NEW next \in Seq(Statements),
           Then(t, statement, next)
    PROVE  /\ todo[t] \in Seq(Statements) /\ todo[t] # <<>> /\ Head(todo[t]) = statement
           /\ Tail(todo[t]) \in Seq(Statements)
           /\ todo'[t] = next \o Tail(todo[t])
           /\ \A u \in Threads \ {t} : todo'[u] = todo[u]
           /\ \A X : Has(todo[t], X) <=> statement \in X \/ Has(Tail(todo[t]), X)
           /\ \A X : Has(todo'[t], X) <=> Has(next, X) \/ Has(Tail(todo[t]), X)
<1>1. At(t, statement) /\ todo'[t] = next \o Tail(todo[t])
      /\ \A u \in Threads \ {t} : todo'[u] = todo[u]
    BY DEF Then, TypeInv, TypeOK
<1>2. todo[t] # <<>> /\ todo[t] \in Seq(Statements) /\ Head(todo[t]) = statement
    BY <1>1, AtFacts
<1>3. Tail(todo[t]) \in Seq(Statements)
    BY <1>2, HasTail
<1>4. \A X : Has(todo[t], X) <=> statement \in X \/ Has(Tail(todo[t]), X)
    BY <1>2, HasTail
<1>5. \A X : Has(todo'[t], X) <=> Has(next, X) \/ Has(Tail(todo[t]), X)
  <2>1. \A X : Has(next \o Tail(todo[t]), X) <=> Has(next, X) \/ Has(Tail(todo[t]), X)
      BY <1>3, HasConcat
  <2> QED
      BY <1>1, <2>1, Zenon
<1> QED
    BY <1>1, <1>2, <1>3, <1>4, <1>5

(* Nothing sets m_bStart again.                                                              *)
LEMMA StartStays ==
    ASSUME TypeInv, [Next]_vars
    PROVE  m_bStart' => m_bStart
<1> USE DEF flagVars, fileVars, loopVars, historyVars
<1>1. ASSUME NEW t \in Threads, Statement(t) PROVE m_bStart' => m_bStart
    BY <1>1, StatementEffects DEF Effects
<1>2. ASSUME NEW c \in Callers, CallerStatement(c) PROVE m_bStart' => m_bStart
    BY <1>1, <1>2
    DEF CallerStatement, Refuses, Proceeds, SetsVar, SetHttpState, UpdateHttpState, Threads
<1>3. CASE Calls
    BY <1>3 DEF Calls, Request, ExitTask
<1>4. CASE Thread
    BY <1>1, <1>4
    DEF Thread, Connects, RunEnds, InitHttpDownLoad, InitHttpGet, InitHttpPost,
        InitHttpMultiPartPost, InitHttpRequest, UpdateWithoutState, Update, Threads
<1>5. CASE Network
    BY <1>5
    DEF Network, RequestFinished, DownLoadFinished, DownLoadFailed, SslErrors, Ends,
        httpDownReadyRead
<1>6. CASE RaceOnVar \/ Terminated \/ UNCHANGED vars
    BY <1>6 DEF RaceOnVar, Terminated, vars
<1> QED
    BY <1>2, <1>3, <1>4, <1>5, <1>6 DEF Next

-----------------------------------------------------------------------------
(* The file.                                                               *)

(* Until ExitTask has cleared m_bStart, a caller has executed none of its other statements.  *)
ExitShape(t) == todo[t] \in Seq(ExitSet) => todo[t] \in {<<>>, ExitStatements}
CallersExit == m_bStart => \A c \in Callers : ExitShape(c)

(* The first statement of ExitTask clears m_bStart.                                          *)
LEMMA ExitGoesOn ==
    ASSUME TypeInv, NEW t \in Threads, NEW statement, NEW next \in Seq(Statements),
           Then(t, statement, next), todo[t] \in {<<>>, ExitStatements}
    PROVE  statement = "stop"
<1>1. todo[t] # <<>> /\ Head(todo[t]) = statement
    BY ThenFrame
<1> QED
    BY <1>1 DEF ExitStatements

LEMMA CallersExitInit == Init => CallersExit
BY DEF Init, CallersExit, ExitShape, Threads

LEMMA CallersExitStep ==
    ASSUME TypeInv, CallersExit, [Next]_vars
    PROVE  CallersExit'
<1> SUFFICES ASSUME NEW c \in Callers, m_bStart', todo'[c] \in Seq(ExitSet)
             PROVE  todo'[c] \in {<<>>, ExitStatements}
    BY DEF CallersExit, ExitShape
<1>s. m_bStart /\ (todo[c] \in Seq(ExitSet) => todo[c] \in {<<>>, ExitStatements})
    BY StartStays DEF CallersExit, ExitShape
<1>t. c \in Threads /\ c # "http" /\ "http" \in Threads /\ todo \in [Threads -> Seq(Statements)]
    BY CallersAssumption DEF Threads, TypeInv, TypeOK
<1>r. RequestTails \cap Seq(ExitSet) = {}
  <2>1. \A s \in RequestTails : s # <<>> /\ Head(s) \in CallStatements
      BY TailsFacts
  <2>2. \A s \in Seq(ExitSet) : s # <<>> => Head(s) \in ExitSet
      OBVIOUS
  <2>3. ExitSet \cap CallStatements = {}
      BY DEF ExitSet, CallStatements
  <2> QED
      BY <2>1, <2>2, <2>3
<1>0. CASE todo'[c] = todo[c]
    BY <1>0, <1>s
<1>1. ASSUME NEW t \in Threads, NEW s, Begins(t, s),
             t = c => s \in RequestTails \cup {<<>>, ExitStatements}
      PROVE  todo'[c] \in {<<>>, ExitStatements}
  <2>1. CASE t = c
      BY <1>1, <1>t, <1>r, <2>1 DEF Begins
  <2>2. CASE t # c
      BY <1>0, <1>1, <1>t, <2>2 DEF Begins
  <2> QED
      BY <2>1, <2>2
<1>2. ASSUME NEW t \in Threads, Statement(t)
      PROVE  todo'[c] \in {<<>>, ExitStatements}
  <2>1. PICK statement \in Statements, next \in Seq(Statements) :
               Then(t, statement, next) /\ NextOf(statement, next) /\ Effects(statement)
      BY <1>2, StatementEffects
  <2>2. CASE t # c
      BY <1>0, <1>t, <2>1, <2>2, ThenFrame
  <2>3. CASE t = c /\ statement \in CallStatements
    <3>1. todo[c] \in RequestTails /\ todo'[c] = next \o Tail(todo[c])
          /\ Tail(todo[c]) \in Seq(Statements)
        BY <2>1, <2>3, AtFacts, ThenFrame DEF Then
    <3>2. next = <<>>
        BY <2>1, <2>3 DEF NextOf, CallStatements
    <3>3. Tail(todo[c]) \in RequestTails \cup {<<>>}
        BY <3>1, TailsFacts
    <3> QED
        BY <1>r, <3>1, <3>2, <3>3
  <2>4. CASE t = c /\ statement \notin CallStatements
    <3>1. todo[c] \in Seq(ExitSet)
        BY <2>1, <2>4, AtFacts DEF Then
    <3>2. statement = "stop"
        BY <1>s, <2>1, <2>4, <3>1, ExitGoesOn
    <3> QED
        BY <2>1, <3>2 DEF Effects
  <2> QED
      BY <2>2, <2>3, <2>4
<1>3. ASSUME NEW d \in Callers, NEW statement \in CallStatements, Does(d, statement)
      PROVE  todo'[c] \in {<<>>, ExitStatements}
  <2>1. /\ d \in Threads /\ Then(d, statement, <<>>) /\ <<>> \in Seq(Statements)
        /\ At(d, statement)
      BY <1>3 DEF Does, Then, Threads
  <2>2. CASE d = c
    <3>1. todo[c] \in RequestTails /\ todo'[c] = <<>> \o Tail(todo[c])
          /\ Tail(todo[c]) \in Seq(Statements)
        BY <1>3, <2>1, <2>2, AtFacts, ThenFrame
    <3>2. Tail(todo[c]) \in RequestTails \cup {<<>>}
        BY <3>1, TailsFacts
    <3> QED
        BY <1>r, <3>1, <3>2
  <2>3. CASE d # c
      BY <1>0, <1>t, <2>1, <2>3, ThenFrame
  <2> QED
      BY <2>2, <2>3
<1>4. ASSUME NEW d \in Callers, CallerStatement(d)
      PROVE  todo'[c] \in {<<>>, ExitStatements}
  <2>1. d \in Threads
      BY <1>4 DEF Threads
  <2> QED
      BY <1>1, <1>2, <1>3, <1>4, <2>1
      DEF CallerStatement, Refuses, Proceeds, SetsVar, SetHttpState, UpdateHttpState,
          CallStatements
<1>5. CASE Calls
  <2>1. ASSUME NEW d \in Callers, NEW kind \in Kinds, Request(d, kind)
        PROVE  todo'[c] \in {<<>>, ExitStatements}
      BY <1>1, <2>1 DEF Request, RequestTails, Threads
  <2>2. ASSUME NEW t \in Threads, ExitTask(t)
        PROVE  todo'[c] \in {<<>>, ExitStatements}
      BY <1>1, <2>2 DEF ExitTask
  <2> QED
      BY <1>5, <2>1, <2>2 DEF Calls
<1>6. CASE Thread
  <2>1. CASE UNCHANGED todo
      BY <1>0, <2>1
  <2>2. CASE \E s : Begins("http", s)
      BY <1>1, <1>t, <2>2
  <2> QED
      BY <1>2, <1>6, <1>t, <2>1, <2>2
      DEF Thread, Connects, RunEnds, InitHttpDownLoad, InitHttpGet, InitHttpPost,
          InitHttpMultiPartPost, InitHttpRequest, UpdateWithoutState
<1>7. CASE Network
  <2>1. \E s : Begins("http", s)
      BY <1>7
      DEF Network, RequestFinished, DownLoadFinished, DownLoadFailed, SslErrors, Ends,
          httpDownReadyRead
  <2> QED
      BY <1>1, <1>t, <2>1
<1>8. CASE RaceOnVar \/ Terminated \/ UNCHANGED vars
    BY <1>0, <1>8 DEF RaceOnVar, Terminated, vars
<1> QED
    BY <1>4, <1>5, <1>6, <1>7, <1>8 DEF Next

(* The statements that use the file, which must be open.                                     *)
Uses == {"closing", "write"}

LEMMA SlotsFile ==
    /\ ~Has(ReplySlot, Uses) /\ ~Has(SslErrorsSlot, Uses) /\ ~Has(httpDownFinished, Uses)
    /\ ~Has(httpError, Uses) /\ ~Has(ExitStatements, Uses) /\ ~Has(<<"none", "work">>, Uses)
    /\ ~Has(<<>>, Uses)
    /\ Has(httpDownFinished, {"closing", "file"})
<1>1. ~Has(ReplySlot, Uses)
  <2>1. ~Has(<<"reply", "none", "unset", "work", "disconnect">>, Uses) /\ ~Has(<<>>, Uses)
      BY DEF Has, Uses
  <2>2. CASE listening
      BY <2>1, <2>2, Zenon DEF ReplySlot
  <2>3. CASE ~listening
      BY <2>1, <2>3, Zenon DEF ReplySlot
  <2> QED
      BY <2>2, <2>3
<1>2. ~Has(SslErrorsSlot, Uses)
    BY DEF Has, Uses, SslErrorsSlot
<1>3. ~Has(httpDownFinished, Uses)
    BY DEF Has, Uses, httpDownFinished
<1>4. ~Has(httpError, Uses)
    BY DEF Has, Uses, httpError
<1>5. ~Has(ExitStatements, Uses)
    BY DEF Has, Uses, ExitStatements
<1>6. ~Has(<<"none", "work">>, Uses) /\ ~Has(<<>>, Uses)
    BY DEF Has, Uses
<1>7. Has(httpDownFinished, {"closing", "file"})
  <2>1. 1 \in DOMAIN httpDownFinished /\ httpDownFinished[1] = "file"
      BY DEF httpDownFinished
  <2> QED
      BY <2>1 DEF Has
<1> QED
    BY <1>1, <1>2, <1>3, <1>4, <1>5, <1>6, <1>7

(* FileHasReader counts on a switch too, but the slot that has one closes the file later;    *)
(* with the file that is left, it is inductive.                                              *)
ReaderInv == m_pFile # 0 /\ m_bStart =>
    \/ InFlight("download")
    \/ Has(todo["http"], {"closing", "file"})
    \/ \E id \in Ids : <<"download", id>> \in refused

(* While the object runs, only the thread uses the file: in the slot of an event that could  *)
(* not open it, in that of data, or after a test of it in the same slot.                     *)
UseInv == m_bStart =>
    /\ crashed # "file"
    /\ Has(todo["http"], Uses) =>
         m_pFile # 0 /\ (todo["http"] = <<"work", "closing">> \/ ~Has(Tail(todo["http"]), Uses))

LEMMA FileInit == Init => ReaderInv /\ UseInv
BY HasNothing DEF Init, ReaderInv, UseInv, Threads

LEMMA UseInvImplies == UseInv => FileUsable
BY DEF UseInv, FileUsable

(* A slot that begins at rest.                                                               *)
LEMMA FileSlots ==
    ASSUME NEW s \in {ReplySlot \o httpDownFinished,
                      (httpError \o ReplySlot) \o httpDownFinished}
    PROVE  ~Has(s, Uses) /\ Has(s, {"closing", "file"})
<1>1. /\ ReplySlot \in Seq(Statements) /\ httpError \in Seq(Statements)
      /\ httpDownFinished \in Seq(Statements)
    BY SlotsTyped DEF ThreadStatements
<1>2. httpError \o ReplySlot \in Seq(Statements) /\ ~Has(httpError \o ReplySlot, Uses)
    BY <1>1, HasConcat, SlotsFile
<1>3. CASE s = ReplySlot \o httpDownFinished
    BY <1>1, <1>3, HasConcat, SlotsFile
<1>4. CASE s = (httpError \o ReplySlot) \o httpDownFinished
    BY <1>1, <1>2, <1>4, HasConcat, SlotsFile
<1> QED
    BY <1>3, <1>4

LEMMA FileStatement ==
    ASSUME TypeInv, CallersExit, ReaderInv, UseInv, NEW t \in Threads, Statement(t)
    PROVE  ReaderInv' /\ UseInv'
<1> SUFFICES ASSUME m_bStart' PROVE ReaderInv' /\ UseInv'
    BY DEF ReaderInv, UseInv
<1>1. PICK statement \in Statements, next \in Seq(Statements) :
             Then(t, statement, next) /\ NextOf(statement, next) /\ Effects(statement)
    BY StatementEffects
<1>2. m_bStart /\ statement # "stop"
    BY <1>1 DEF Effects
<1>3. UNCHANGED <<replies, refused>> /\ m_pFile' = (IF statement = "closing" THEN 0 ELSE m_pFile)
      /\ crashed' = IF statement \in {"closing", "write"} /\ m_pFile = 0 THEN "file" ELSE crashed
    BY <1>1 DEF Effects
<1>h. "http" \in Threads
    BY DEF Threads
<1>4. CASE t # "http"
  <2>1. t \in Callers /\ todo'["http"] = todo["http"]
      BY <1>1, <1>4, <1>h, ThenFrame DEF Threads
  <2>2. statement \notin {"closing", "write"}
    <3>1. CASE statement \in CallStatements
        BY <3>1 DEF CallStatements
    <3>2. CASE statement \notin CallStatements
      <4>1. todo[t] \in Seq(ExitSet)
          BY <1>1, <2>1, <3>2, AtFacts DEF Then
      <4> QED
          BY <1>1, <1>2, <2>1, <4>1, ExitGoesOn DEF CallersExit, ExitShape
    <3> QED
        BY <3>1, <3>2
  <2>3. m_pFile' = m_pFile /\ crashed' = crashed
      BY <1>3, <2>2 DEF TypeInv, TypeOK
  <2>4. ReaderInv'
      BY <1>2, <1>3, <2>1, <2>3 DEF ReaderInv, InFlight
  <2>5. UseInv'
    <3>1. m_bStart' = m_bStart
        BY <1>2
    <3> QED
        BY <2>1, <2>3, <3>1, Zenon DEF UseInv
  <2> QED
      BY <2>4, <2>5
<1>5. CASE t = "http"
  <2> DEFINE s == todo["http"]
  <2>1. /\ s \in Seq(Statements) /\ s # <<>> /\ Head(s) = statement
        /\ Tail(s) \in Seq(Statements) /\ todo'["http"] = next \o Tail(s)
        /\ \A X : Has(s, X) <=> statement \in X \/ Has(Tail(s), X)
        /\ \A X : Has(todo'["http"], X) <=> Has(next, X) \/ Has(Tail(s), X)
      BY <1>1, <1>5, ThenFrame
  <2>2. ReaderInv'
    <3> SUFFICES ASSUME m_pFile' # 0
                 PROVE  \/ InFlight("download")' \/ Has(todo'["http"], {"closing", "file"})
                        \/ \E id \in Ids : <<"download", id>> \in refused'
        BY DEF ReaderInv
    <3>1. m_pFile # 0 /\ statement # "closing"
        BY <1>3
    <3>2. CASE statement = "file"
      <4>1. next = <<"closing">>
          BY <1>1, <3>1, <3>2 DEF NextOf
      <4>2. Has(next, {"closing", "file"})
          BY <4>1 DEF Has
      <4> QED
          BY <2>1, <4>2
    <3>3. CASE statement # "file"
      <4>1. Has(s, {"closing", "file"}) => Has(todo'["http"], {"closing", "file"})
          BY <2>1, <3>1, <3>3
      <4> QED
          BY <1>2, <1>3, <3>1, <4>1 DEF ReaderInv, InFlight
    <3> QED
        BY <3>2, <3>3
  <2>3. crashed' # "file"
    <3>1. statement \in Uses => m_pFile # 0
        BY <1>2, <2>1 DEF UseInv
    <3> QED
        BY <1>2, <1>3, <3>1 DEF UseInv, Uses
  <2>4. ASSUME Has(todo'["http"], Uses)
        PROVE  m_pFile' # 0 /\ (todo'["http"] = <<"work", "closing">>
                              \/ ~Has(Tail(todo'["http"]), Uses))
    <3>1. CASE Has(Tail(s), Uses)
      <4>1. s = <<"work", "closing">> /\ m_pFile # 0
          BY <1>2, <2>1, <3>1 DEF UseInv
      <4>2. statement = "work" /\ Tail(s) = <<"closing">>
          BY <2>1, <4>1
      <4>3. next = <<>>
          BY <1>1, <4>2 DEF NextOf
      <4>4. todo'["http"] = <<"closing">>
          BY <2>1, <4>2, <4>3
      <4>5. ~Has(Tail(todo'["http"]), Uses)
          BY <4>4 DEF Has
      <4> QED
          BY <1>3, <4>1, <4>2, <4>5
    <3>2. CASE ~Has(Tail(s), Uses)
      <4>1. Has(next, Uses)
          BY <2>1, <2>4, <3>2
      <4>2. ~Has(<<>>, Uses) /\ ~Has(<<"wait">>, Uses) /\ ~Has(<<"file", "error">>, Uses)
            /\ ~Has(<<"posterror">>, Uses)
          BY DEF Has, Uses
      <4>3. statement = "file" /\ next = <<"closing">> /\ m_pFile # 0
          BY <1>1, <4>1, <4>2, Zenon DEF NextOf
      <4>4. Tail(todo'["http"]) = Tail(s)
          BY <2>1, <4>3
      <4> QED
          BY <1>3, <3>2, <4>3, <4>4
    <3> QED
        BY <3>1, <3>2
  <2> QED
      BY <2>2, <2>3, <2>4 DEF UseInv
<1> QED
    BY <1>4, <1>5

LEMMA FileStep ==
    ASSUME TypeInv, CallersExit, ReaderInv, UseInv, [Next]_vars
    PROVE  ReaderInv' /\ UseInv'
<1> SUFFICES ASSUME m_bStart' PROVE ReaderInv' /\ UseInv'
    BY DEF ReaderInv, UseInv
<1> USE DEF flagVars, fileVars, loopVars, historyVars
<1>s. m_bStart /\ crashed # "file"
    BY StartStays DEF UseInv
<1>t. "http" \in Threads /\ todo \in [Threads -> Seq(Statements)] /\ "http" \notin Callers
    BY CallersAssumption DEF Threads, TypeInv, TypeOK
<1>0. ASSUME todo'["http"] = todo["http"], UNCHANGED <<m_pFile, replies, refused>>,
             crashed' \in {crashed, "var"}
      PROVE  ReaderInv' /\ UseInv'
    BY <1>0, <1>s DEF ReaderInv, UseInv, InFlight
<1>1. ASSUME NEW c \in Callers, NEW s, Begins(c, s) PROVE todo'["http"] = todo["http"]
    BY <1>1, <1>t DEF Begins
<1>2. ASSUME NEW c \in Callers, NEW statement, Does(c, statement)
      PROVE  todo'["http"] = todo["http"]
    BY <1>2, <1>t DEF Does, Then
<1>3. ASSUME NEW c \in Callers, CallerStatement(c) PROVE ReaderInv' /\ UseInv'
    BY <1>0, <1>1, <1>2, <1>3, FileStatement
    DEF CallerStatement, Refuses, Proceeds, SetsVar, SetHttpState, UpdateHttpState, Threads
<1>4. ASSUME NEW s, Begins("http", s), AtRest, ~Has(s, Uses), UNCHANGED <<m_pFile, crashed>>,
             \/ UNCHANGED <<replies, refused>>
             \/ Has(s, {"closing", "file"})
             \/ UNCHANGED replies /\ refused \subseteq refused'
             \/ InFlight("download") => InFlight("download")' \/
                    (\E id \in Ids : <<"download", id>> \in refused'),
             refused \subseteq refused'
      PROVE  ReaderInv' /\ UseInv'
  <2>1. todo'["http"] = s /\ ~Has(todo["http"], {"closing", "file"})
      BY <1>4, <1>t, HasNothing DEF Begins, AtRest, Idle
  <2> QED
      BY <1>4, <1>s, <2>1 DEF ReaderInv, UseInv, InFlight
<1>5. CASE Calls
  <2>1. ASSUME NEW c \in Callers, NEW kind \in Kinds, Request(c, kind)
        PROVE  ReaderInv' /\ UseInv'
      BY <1>0, <1>1, <2>1 DEF Request
  <2>2. ASSUME NEW t \in Threads, ExitTask(t) PROVE ReaderInv' /\ UseInv'
    <3>1. CASE t = "http"
        BY <1>4, <2>2, <3>1, SlotsFile DEF ExitTask
    <3>2. CASE t \in Callers
        BY <1>0, <1>1, <2>2, <3>2 DEF ExitTask
    <3> QED
        BY <3>1, <3>2 DEF Threads
  <2> QED
      BY <1>5, <2>1, <2>2 DEF Calls
<1>6. CASE InitHttpDownLoad
  <2>1. m_pFile' # 0 /\ UNCHANGED <<crashed, refused>>
      BY <1>6 DEF InitHttpDownLoad, Update, Files
  <2>2. CASE Sends("download") /\ UNCHANGED todo
    <3>1. InFlight("download")' /\ ~Has(todo'["http"], Uses)
        BY <1>6, <2>2, SentInFlight, HasNothing
        DEF InitHttpDownLoad, Update, AtRest, Idle, Waiting
    <3> QED
        BY <1>s, <2>1, <3>1 DEF ReaderInv, UseInv
  <2>3. CASE Begins("http", <<"work", "closing">>)
    <3>1. todo'["http"] = <<"work", "closing">>
        BY <1>t, <2>3 DEF Begins
    <3>2. Has(<<"work", "closing">>, {"closing", "file"})
      <4>1. 2 \in DOMAIN <<"work", "closing">> /\ <<"work", "closing">>[2] = "closing"
          OBVIOUS
      <4> QED
          BY <4>1 DEF Has
    <3> QED
        BY <1>s, <2>1, <3>1, <3>2 DEF ReaderInv, UseInv
  <2> QED
      BY <1>6, <2>2, <2>3 DEF InitHttpDownLoad
<1>7. ASSUME NEW kind, InitHttpRequest(kind) PROVE ReaderInv' /\ UseInv'
  <2>1. Update(kind) /\ Sends("request") /\ UNCHANGED <<m_pFile, todo>>
      BY <1>7, Zenon DEF InitHttpRequest
  <2>2. UNCHANGED <<crashed, refused>>
      BY <2>1 DEF Update
  <2>3. InFlight("download") => InFlight("download")'
    <3>1. replies \in [Waiting \X Ids -> Nat]
        BY DEF TypeInv, TypeOK
    <3> QED
        BY <2>1, <3>1 DEF Sends, InFlight, Waiting
  <2> QED
      BY <1>s, <2>1, <2>2, <2>3 DEF ReaderInv, UseInv
<1>8. CASE Thread
  <2>1. CASE Connects
      BY <1>0, <2>1 DEF Connects
  <2>2. CASE RunEnds
      BY <2>2 DEF RunEnds
  <2>3. CASE UpdateWithoutState
      BY <1>4, <2>3, SlotsFile DEF UpdateWithoutState, Update
  <2>4. CASE Statement("http")
      BY <1>t, <2>4, FileStatement
  <2> QED
      BY <1>6, <1>7, <1>8, <2>1, <2>2, <2>3, <2>4
      DEF Thread, InitHttpGet, InitHttpPost, InitHttpMultiPartPost
<1>9. CASE Network
  <2>1. ASSUME NEW id \in Ids, RequestFinished(id) PROVE ReaderInv' /\ UseInv'
    <3>1. InFlight("download") => InFlight("download")'
      <4>1. replies \in [Waiting \X Ids -> Nat]
          BY DEF TypeInv, TypeOK
      <4> QED
          BY <2>1, <4>1 DEF RequestFinished, Ends, InFlight, Waiting
    <3> QED
        BY <1>4, <2>1, <3>1, SlotsFile DEF RequestFinished, Ends
  <2>2. ASSUME NEW id \in Ids, DownLoadFinished(id) PROVE ReaderInv' /\ UseInv'
      BY <1>4, <2>2, FileSlots DEF DownLoadFinished, Ends
  <2>3. ASSUME NEW id \in Ids, DownLoadFailed(id) PROVE ReaderInv' /\ UseInv'
      BY <1>4, <2>3, FileSlots DEF DownLoadFailed, Ends
  <2>4. ASSUME NEW id \in Ids, NEW waiting \in Waiting, SslErrors(waiting, id)
        PROVE  ReaderInv' /\ UseInv'
    <3>1. CASE waiting = "download"
        BY <1>4, <2>4, <3>1, SlotsFile DEF SslErrors, Ends
    <3>2. CASE waiting = "request"
      <4>1. replies \in [Waiting \X Ids -> Nat]
          BY DEF TypeInv, TypeOK
      <4>2. InFlight("download") => InFlight("download")'
          BY <2>4, <3>2, <4>1 DEF SslErrors, Ends, InFlight, Waiting
      <4> QED
          BY <1>4, <2>4, <4>2, SlotsFile DEF SslErrors, Ends
    <3> QED
        BY <3>1, <3>2 DEF Waiting
  <2>5. ASSUME NEW id \in Ids, httpDownReadyRead(id) PROVE ReaderInv' /\ UseInv'
    <3>1. todo'["http"] = <<"write">> /\ ~Has(todo["http"], {"closing", "file"})
          /\ m_pFile # 0 /\ UNCHANGED <<m_pFile, crashed, replies, refused>>
        BY <1>t, <2>5, HasNothing DEF httpDownReadyRead, Begins, AtRest, Idle
    <3>2. ~Has(Tail(<<"write">>), Uses)
        BY DEF Has
    <3> QED
        BY <1>s, <3>1, <3>2 DEF ReaderInv, UseInv, InFlight
  <2> QED
      BY <1>9, <2>1, <2>2, <2>3, <2>4, <2>5 DEF Network
<1>10. CASE RaceOnVar \/ Terminated \/ UNCHANGED vars
    BY <1>0, <1>10 DEF RaceOnVar, Terminated, vars
<1> QED
    BY <1>3, <1>5, <1>8, <1>9, <1>10 DEF Next

-----------------------------------------------------------------------------
(* The open files.                                                         *)

Asking(c) == Has(todo[c], {"emit"})
Clearing == ClearsWork /\ todo["http"] # ExitStatements
NoReply == \A r \in Waiting \X Ids : replies[r] = 0
OneReply == \A r, q \in Waiting \X Ids :
    replies[r] > 0 /\ replies[q] > 0 => r = q /\ replies[r] = 1

(* A request is in one phase at a time, and the object is busy until the last clears it.     *)
AskPhase == \A c \in Callers : Asking(c) =>
    /\ updates = 0 /\ NoReply /\ ~Clearing
    /\ Mid(c) => m_bWork
    /\ \A d \in Callers : Asking(d) => d = c
UpdatePhase == updates > 0 => updates = 1 /\ NoReply /\ ~Clearing /\ m_bWork
WaitPhase == ~NoReply => OneReply /\ ~Clearing /\ m_bWork

(* The manager's signals are connected only for a get or a post, so no download ends in SSL  *)
(* errors.                                                                                  *)
Heard == (listening => InFlight("request") \/ Disconnecting)
         /\ \A id \in Ids : <<"download", id>> \notin refused

OneFile == open \subseteq {m_pFile}

OnePhase == AskPhase /\ UpdatePhase /\ WaitPhase /\ Heard /\ OneFile

(* FileHasReader lets a file be forgotten only if requests overlap.  Without an overlap they *)
(* pass through the phases one at a time, so that the file of one is closed before the next. *)
AloneInv == m_bStart /\ ~raced => OnePhase

LEMMA NoneInFlight == NoReply => ~InFlight("request") /\ ~InFlight("download")
<1> SUFFICES ASSUME NoReply, NEW waiting \in Waiting, NEW id \in Ids, replies[<<waiting, id>>] > 0
             PROVE  FALSE
    BY DEF InFlight, Waiting
<1>1. <<waiting, id>> \in Waiting \X Ids
    OBVIOUS
<1>2. replies[<<waiting, id>>] = 0
    BY <1>1 DEF NoReply
<1> QED
    BY <1>2

LEMMA AloneImplies == ReaderInv /\ AloneInv => FileHasReader
BY DEF ReaderInv, AloneInv, OnePhase, OneFile, FileHasReader, Pending, Has

LEMMA AloneInit == Init => AloneInv
<1> SUFFICES ASSUME Init PROVE OnePhase
    BY DEF AloneInv
<1>1. NoReply /\ \A t \in Threads : todo[t] = <<>>
    BY DEF Init, NoReply
<1>2. (\A c \in Callers : ~Asking(c))
    BY <1>1, HasNothing DEF Asking, Threads
<1> QED
    BY <1>1, <1>2 DEF Init, OnePhase, AskPhase, UpdatePhase, WaitPhase, Heard, OneFile

(* A step of one phase.                                                                      *)
LEMMA AloneFrame ==
    ASSUME OnePhase, UNCHANGED <<updates, replies, refused>>,
           m_bWork => m_bWork',
           \A c \in Callers : Asking(c)' => Asking(c) /\ (Mid(c)' => Mid(c) \/ m_bWork'),
           Clearing' => Clearing,
           listening' => listening /\ (Disconnecting => Disconnecting'),
           open' \subseteq {m_pFile'}
    PROVE  OnePhase'
<1>1. (NoReply <=> NoReply') /\ (OneReply <=> OneReply')
      /\ (InFlight("request") <=> InFlight("request")')
    BY DEF NoReply, OneReply, InFlight
<1>2. AskPhase'
    BY <1>1 DEF OnePhase, AskPhase
<1>3. UpdatePhase' /\ WaitPhase'
    BY <1>1 DEF OnePhase, UpdatePhase, WaitPhase
<1>4. Heard' /\ OneFile'
    BY <1>1 DEF OnePhase, Heard, OneFile
<1> QED
    BY <1>2, <1>3, <1>4 DEF OnePhase

(* A step that leaves todo.                                                                  *)
LEMMA AloneSame ==
    ASSUME OnePhase,
           UNCHANGED <<todo, updates, replies, refused, m_bWork, listening, m_pFile, open>>
    PROVE  OnePhase'
BY AloneFrame DEF Asking, Mid, Clearing, ClearsWork, Disconnecting, OnePhase, OneFile

(* A caller goes from one statement to another: the thread's are the same.                   *)
LEMMA AloneBegins ==
    ASSUME TypeInv, NEW c \in Callers, NEW s, Begins(c, s)
    PROVE  /\ todo'[c] = s
           /\ \A d \in Callers \ {c} : todo'[d] = todo[d] /\ (Asking(d)' <=> Asking(d))
                                       /\ (Mid(d)' <=> Mid(d))
           /\ (Clearing' <=> Clearing) /\ (Disconnecting' <=> Disconnecting)
<1>1. todo'[c] = s /\ todo'["http"] = todo["http"]
      /\ \A d \in Callers \ {c} : todo'[d] = todo[d]
    BY CallersAssumption DEF Begins, TypeInv, TypeOK, Threads
<1> QED
    BY <1>1 DEF Asking, Mid, Clearing, ClearsWork, Disconnecting

(* The thread goes from one statement to another: the callers' are the same.                 *)
LEMMA AloneHttp ==
    ASSUME TypeInv, todo' = [todo EXCEPT !["http"] = todo'["http"]]
    PROVE  \A c \in Callers : (Asking(c)' <=> Asking(c)) /\ (Mid(c)' <=> Mid(c))
<1>1. \A c \in Callers : todo'[c] = todo[c]
    BY CallersAssumption DEF TypeInv, TypeOK, Threads
<1> QED
    BY <1>1 DEF Asking, Mid

(* A slot that begins when the requests and the replies are used up.                         *)
LEMMA AloneSlot ==
    ASSUME TypeInv, NEW s, Begins("http", s), \A c \in Callers : ~Asking(c),
           updates' = 0, NoReply', \A id \in Ids : <<"download", id>> \notin refused',
           listening' => Has(s, {"disconnect"}),
           open' \subseteq {m_pFile'}
    PROVE  OnePhase'
<1>1. todo'["http"] = s /\ todo' = [todo EXCEPT !["http"] = todo'["http"]]
    BY DEF Begins, TypeInv, TypeOK, Threads
<1>2. \A c \in Callers : ~Asking(c)'
    BY <1>1, AloneHttp
<1>3. AskPhase' /\ UpdatePhase' /\ WaitPhase'
    BY <1>2 DEF AskPhase, UpdatePhase, WaitPhase
<1>4. Heard' /\ OneFile'
    BY <1>1 DEF Heard, OneFile, Disconnecting
<1> QED
    BY <1>3, <1>4 DEF OnePhase

LEMMA AloneStatement ==
    ASSUME TypeInv, CallersExit, OnePhase, m_bStart', NEW t \in Threads, Statement(t)
    PROVE  OnePhase'
<1>1. PICK statement \in Statements \ {"check", "var", "state", "emit"},
           next \in Seq(Statements) :
             Then(t, statement, next) /\ NextOf(statement, next) /\ Effects(statement)
    BY StatementEffects
<1>2. m_bStart /\ statement # "stop"
    BY <1>1 DEF Effects
<1>3. /\ UNCHANGED <<updates, replies, refused>>
      /\ m_bWork' = (statement = "busy" \/ (m_bWork /\ statement # "work"))
      /\ listening' => listening /\ statement # "disconnect"
      /\ m_pFile' = (IF statement = "closing" THEN 0 ELSE m_pFile)
      /\ open' = (IF statement = "closing" THEN open \ {m_pFile} ELSE open)
    BY <1>1 DEF Effects
<1>4. open' \subseteq {m_pFile'}
    BY <1>3 DEF OnePhase, OneFile
<1>5. At(t, statement) /\ Begins(t, next \o Tail(todo[t]))
    BY <1>1 DEF Then, Begins
<1>6. CASE t \in Callers
  <2>1. statement \in CallStatements
    <3> SUFFICES ASSUME statement \notin CallStatements PROVE FALSE
        OBVIOUS
    <3>1. todo[t] \in Seq(ExitSet)
        BY <1>5, <1>6, AtFacts
    <3> QED
        BY <1>1, <1>2, <1>6, <3>1, ExitGoesOn DEF CallersExit, ExitShape
  <2>2. statement = "busy" /\ next = <<>>
      BY <1>1, <2>1 DEF CallStatements, NextOf
  <2>3. Does(t, "busy")
      BY <1>1, <2>2 DEF Does
  <2>4. todo[t] \in RequestTails
      BY <1>5, <1>6, <2>1, AtFacts
  <2>5. Asking(t)
    <3>1. Has(Tail(todo[t]), {"emit"})
        BY <1>1, <2>2, <2>4, ThenFrame, TailsFacts
    <3> QED
        BY <1>1, <3>1, ThenFrame DEF Asking
  <2>6. \A c \in Callers : Asking(c)' => Asking(c) /\ (Mid(c)' => Mid(c) \/ m_bWork')
      BY <1>3, <1>5, <1>6, <2>2, <2>5, AloneBegins
  <2>7. (Clearing' <=> Clearing) /\ (Disconnecting' <=> Disconnecting)
      BY <1>5, <1>6, AloneBegins
  <2> QED
      BY <1>3, <1>4, <2>2, <2>6, <2>7, AloneFrame
<1>7. CASE t = "http"
  <2>1. todo["http"] # ExitStatements
      BY <1>1, <1>2, <1>7, ExitGoesOn
  <2>2. Clearing <=> ClearsWork
      BY <2>1 DEF Clearing
  <2>3. todo' = [todo EXCEPT !["http"] = todo'["http"]]
      BY <1>5, <1>7 DEF Begins, TypeInv, TypeOK, Threads
  <2>4. \A c \in Callers : (Asking(c)' <=> Asking(c)) /\ (Mid(c)' <=> Mid(c))
      BY <2>3, AloneHttp
  <2>5. /\ Has(todo["http"], {"disconnect"}) /\ statement # "disconnect"
                => Has(todo'["http"], {"disconnect"})
        /\ Has(todo["http"], {"work"}) <=> statement = "work" \/ Has(Tail(todo["http"]), {"work"})
        /\ Has(todo'["http"], {"work"}) <=> Has(next, {"work"}) \/ Has(Tail(todo["http"]), {"work"})
      BY <1>1, <1>7, ThenFrame
  <2>6. listening' => listening /\ (Disconnecting => Disconnecting')
      BY <1>3, <2>5 DEF Disconnecting
  <2>7. CASE statement = "work"
    <3>1. Clearing
        BY <2>2, <2>5, <2>7 DEF ClearsWork
    <3>2. NoReply /\ updates = 0 /\ \A c \in Callers : ~Asking(c)
        BY <3>1 DEF OnePhase, AskPhase, UpdatePhase, WaitPhase, TypeInv, TypeOK
    <3>3. ~InFlight("request")
        BY <3>2, NoneInFlight
    <3>4. NoReply' /\ updates' = 0 /\ \A c \in Callers : ~Asking(c)'
        BY <1>3, <2>4, <3>2 DEF NoReply
    <3>5. AskPhase' /\ UpdatePhase' /\ WaitPhase'
        BY <3>4 DEF AskPhase, UpdatePhase, WaitPhase
    <3>6. Heard' /\ OneFile'
        BY <1>3, <1>4, <2>6, <3>3 DEF OnePhase, Heard, OneFile
    <3> QED
        BY <3>5, <3>6 DEF OnePhase
  <2>8. CASE statement # "work"
    <3>1. ~Has(next, {"work"})
      <4>1. ~Has(<<>>, {"work"}) /\ ~Has(<<"closing">>, {"work"}) /\ ~Has(<<"wait">>, {"work"})
            /\ ~Has(<<"file", "error">>, {"work"}) /\ ~Has(<<"posterror">>, {"work"})
          BY DEF Has
      <4>2. next \in {<<>>, <<"closing">>, <<"wait">>, <<"file", "error">>, <<"posterror">>}
          BY <1>1 DEF NextOf
      <4> QED
          BY <4>1, <4>2, Zenon
    <3>2. Clearing' => Clearing
        BY <2>2, <2>5, <3>1 DEF Clearing, ClearsWork
    <3>3. \A c \in Callers : Asking(c)' => Asking(c) /\ (Mid(c)' => Mid(c) \/ m_bWork')
        BY <2>4
    <3> QED
        BY <1>3, <1>4, <2>6, <2>8, <3>2, <3>3, AloneFrame
  <2> QED
      BY <2>7, <2>8
<1> QED
    BY <1>6, <1>7 DEF Threads

LEMMA AloneCaller ==
    ASSUME TypeInv, CallersExit, OnePhase, m_bStart', NEW c \in Callers, CallerStatement(c)
    PROVE  OnePhase'
<1> USE DEF flagVars, fileVars, loopVars, historyVars
<1>h. c \in Threads
    BY DEF Threads
<1>o. open \subseteq {m_pFile}
    BY DEF OnePhase, OneFile
<1>a. ASSUME NEW statement \in CallStatements \ {"busy"}, At(c, statement)
      PROVE  /\ Asking(c) /\ Mid(c) /\ todo[c] \in RequestTails /\ Head(todo[c]) = statement
             /\ updates = 0 /\ NoReply /\ ~Clearing /\ m_bWork
             /\ \A d \in Callers \ {c} : ~Asking(d)
  <2>1. todo[c] \in RequestTails /\ Head(todo[c]) = statement
      BY <1>a, <1>h, AtFacts
  <2>2. Asking(c) /\ Mid(c)
      BY <1>a, <2>1, TailsFacts DEF Asking, Mid
  <2> QED
      BY <2>1, <2>2 DEF OnePhase, AskPhase
<1>1. ASSUME NEW statement \in {"check", "var", "state"}, Does(c, statement),
             UNCHANGED <<m_bWork, updates, replies, refused, listening, m_pFile, open>>
      PROVE  OnePhase'
  <2>1. statement \in CallStatements \ {"busy"} /\ At(c, statement)
      BY <1>1 DEF Does, Then, CallStatements
  <2>2. Asking(c) /\ Mid(c)
      BY <1>a, <2>1
  <2>3. Begins(c, <<>> \o Tail(todo[c]))
      BY <1>1 DEF Does, Then, Begins
  <2>4. \A d \in Callers : Asking(d)' => Asking(d) /\ (Mid(d)' => Mid(d) \/ m_bWork')
      BY <2>2, <2>3, AloneBegins
  <2>5. (Clearing' <=> Clearing) /\ (Disconnecting' <=> Disconnecting)
      BY <2>3, AloneBegins
  <2> QED
      BY <1>1, <1>o, <2>4, <2>5, AloneFrame
<1>2. ASSUME todo'[c] = <<>>, NEW s, Begins(c, s), updates' \in {0, 1},
             updates' = 1 => m_bWork', At(c, "check") \/ At(c, "emit"),
             UNCHANGED <<replies, refused, listening, m_pFile, open>>
      PROVE  OnePhase'
  <2>1. NoReply /\ ~Clearing /\ \A d \in Callers \ {c} : ~Asking(d)
      BY <1>2, <1>a DEF CallStatements
  <2>2. /\ NoReply' /\ ~Clearing' /\ \A d \in Callers : ~Asking(d)'
        /\ InFlight("request") => InFlight("request")'
        /\ Disconnecting => Disconnecting'
      BY <1>2, <2>1, AloneBegins, HasNothing DEF NoReply, Asking, InFlight
  <2>3. AskPhase' /\ UpdatePhase' /\ WaitPhase'
      BY <1>2, <2>2 DEF AskPhase, UpdatePhase, WaitPhase
  <2>4. Heard' /\ OneFile'
      BY <1>2, <1>o, <2>2 DEF OnePhase, Heard, OneFile
  <2> QED
      BY <2>3, <2>4 DEF OnePhase
<1>3. CASE Refuses(c)
  <2>1. updates = 0
      BY <1>3, <1>a DEF Refuses, CallStatements
  <2>2. Begins(c, <<>>) /\ todo'[c] = <<>>
      BY <1>3, AloneBegins DEF Refuses
  <2> QED
      BY <1>2, <1>3, <2>1, <2>2 DEF Refuses
<1>4. CASE UpdateHttpState(c)
  <2>1. At(c, "emit") /\ Begins(c, <<>> \o Tail(todo[c]))
      BY <1>4 DEF UpdateHttpState, Does, Then, Begins
  <2>2. updates = 0 /\ m_bWork /\ todo[c] \in RequestTails /\ Head(todo[c]) = "emit"
      BY <2>1, <1>a DEF CallStatements
  <2>3. <<>> \o Tail(todo[c]) = <<>>
    <3>1. Tail(todo[c]) = <<>>
        BY <2>2, RequestTailHeads
    <3> QED
        BY <3>1
  <2>4. todo'[c] = <<>>
      BY <2>1, <2>3, AloneBegins
  <2> QED
      BY <1>2, <1>4, <2>1, <2>2, <2>4 DEF UpdateHttpState
<1>5. CASE Proceeds(c)
    BY <1>1, <1>5 DEF Proceeds
<1>6. CASE SetsVar(c)
    BY <1>1, <1>6 DEF SetsVar
<1>7. CASE SetHttpState(c)
    BY <1>1, <1>7 DEF SetHttpState
<1> QED
    BY <1>h, <1>3, <1>4, <1>5, <1>6, <1>7, AloneStatement DEF CallerStatement

(* A request that overlaps no other finds the object at rest.                                *)
LEMMA AloneRequest ==
    ASSUME TypeInv, OnePhase, NEW c \in Callers, NEW kind \in Kinds, Request(c, kind), ~raced'
    PROVE  OnePhase'
<1> USE DEF flagVars, fileVars, loopVars, historyVars
<1> DEFINE s == <<"busy", "check", "var", "state", "emit">>
<1>1. /\ ~m_bWork /\ todo[c] = <<>> /\ Begins(c, s) /\ ~Overlaps(c)
      /\ UNCHANGED <<updates, replies, refused, m_bWork, listening, m_pFile, open>>
    BY DEF Request, Idle
<1>2. updates = 0 /\ NoReply
    BY <1>1 DEF OnePhase, UpdatePhase, WaitPhase, TypeInv, TypeOK
<1>3. ~ClearsWork /\ \A d \in Callers \ {c} : ~Asking(d)
    BY <1>1 DEF Overlaps, Pending, ClearsWork, Asking, Has
<1>4. todo'[c] = s /\ ~Clearing' /\ (Disconnecting => Disconnecting')
      /\ \A d \in Callers \ {c} : ~Asking(d)'
    BY <1>1, <1>3, AloneBegins DEF Clearing
<1>5. ~Mid(c)'
  <2>1. s \in RequestTails /\ Head(s) = "busy"
      BY DEF RequestTails
  <2>2. Has(s, {"busy"})
      BY <2>1, TailsFacts
  <2> QED
      BY <1>4, <2>2 DEF Mid
<1>6. NoReply' /\ updates' = 0 /\ (InFlight("request") => InFlight("request")')
    BY <1>1, <1>2 DEF NoReply, InFlight
<1>7. AskPhase' /\ UpdatePhase' /\ WaitPhase'
    BY <1>4, <1>5, <1>6 DEF AskPhase, UpdatePhase, WaitPhase
<1>8. Heard' /\ OneFile'
    BY <1>1, <1>4, <1>6 DEF OnePhase, Heard, OneFile
<1> QED
    BY <1>7, <1>8 DEF OnePhase

LEMMA AloneExit ==
    ASSUME TypeInv, OnePhase, NEW t \in Threads, ExitTask(t)
    PROVE  OnePhase'
<1> USE DEF flagVars, fileVars, loopVars, historyVars
<1>1. /\ todo[t] = <<>> /\ Begins(t, ExitStatements) /\ open \subseteq {m_pFile}
      /\ UNCHANGED <<updates, replies, refused, m_bWork, listening, m_pFile, open>>
    BY DEF ExitTask, AtRest, Idle, OnePhase, OneFile
<1>2. ~Has(ExitStatements, {"emit"})
    BY DEF ExitStatements, Has
<1>3. CASE t \in Callers
  <2>1. \A c \in Callers : Asking(c)' => Asking(c) /\ (Mid(c)' => Mid(c))
      BY <1>1, <1>2, <1>3, AloneBegins DEF Asking
  <2>2. (Clearing' <=> Clearing) /\ (Disconnecting' <=> Disconnecting)
      BY <1>1, <1>3, AloneBegins
  <2> QED
      BY <1>1, <2>1, <2>2, AloneFrame
<1>4. CASE t = "http"
  <2>1. todo'["http"] = ExitStatements /\ todo' = [todo EXCEPT !["http"] = todo'["http"]]
      BY <1>1, <1>4 DEF Begins, TypeInv, TypeOK, Threads
  <2>2. \A c \in Callers : Asking(c)' => Asking(c) /\ (Mid(c)' => Mid(c))
      BY <2>1, AloneHttp
  <2>3. ~Clearing' /\ ~Disconnecting
      BY <1>1, <1>4, <2>1, HasNothing DEF Clearing, Disconnecting
  <2> QED
      BY <1>1, <2>2, <2>3, AloneFrame
<1> QED
    BY <1>3, <1>4 DEF Threads

(* The event of the only request.                                                            *)
LEMMA AloneUpdate ==
    ASSUME TypeInv, OnePhase, NEW state, Update(state)
    PROVE  /\ updates' = 0 /\ NoReply /\ m_bWork' = m_bWork /\ m_bWork /\ UNCHANGED refused
           /\ todo["http"] = <<>> /\ ~Disconnecting /\ ~Clearing /\ ~listening
           /\ \A c \in Callers : ~Asking(c)
<1> USE DEF flagVars, historyVars
<1>1. updates > 0 /\ updates' = updates - 1 /\ todo["http"] = <<>> /\ UNCHANGED <<m_bWork, refused>>
    BY DEF Update, AtRest, Idle
<1>2. updates = 1 /\ NoReply /\ m_bWork /\ ~Clearing
    BY <1>1 DEF OnePhase, UpdatePhase
<1>3. \A c \in Callers : ~Asking(c)
    BY <1>1 DEF OnePhase, AskPhase
<1>4. ~Disconnecting
    BY <1>1, HasNothing DEF Disconnecting
<1>5. ~InFlight("request")
    BY <1>2, NoneInFlight
<1> QED
    BY <1>1, <1>2, <1>3, <1>4, <1>5 DEF OnePhase, Heard

LEMMA AloneSends ==
    ASSUME TypeInv, NoReply, NEW waiting \in Waiting, Sends(waiting)
    PROVE  OneReply'
<1>1. replies \in [Waiting \X Ids -> Nat] /\ <<waiting, m_pVar>> \in Waiting \X Ids
    BY DEF TypeInv, TypeOK
<1>2. \A r \in Waiting \X Ids : replies'[r] = IF r = <<waiting, m_pVar>> THEN 1 ELSE 0
    BY <1>1 DEF Sends, NoReply
<1>3. \A r \in Waiting \X Ids : replies'[r] > 0 => r = <<waiting, m_pVar>> /\ replies'[r] = 1
    BY <1>2
<1> QED
    BY <1>3 DEF OneReply

LEMMA AloneSent ==
    ASSUME TypeInv, OnePhase, NEW state, Update(state), NEW waiting \in Waiting, Sends(waiting),
           UNCHANGED todo, listening' => waiting = "request", open' \subseteq {m_pFile'}
    PROVE  OnePhase'
<1>1. /\ updates' = 0 /\ NoReply /\ m_bWork' /\ UNCHANGED refused
      /\ ~Clearing /\ \A c \in Callers : ~Asking(c)
    BY AloneUpdate
<1>2. OneReply' /\ InFlight(waiting)'
    BY <1>1, AloneSends, SentInFlight
<1>3. ~Clearing' /\ \A c \in Callers : ~Asking(c)'
    BY <1>1 DEF Clearing, ClearsWork, Asking
<1>4. AskPhase' /\ UpdatePhase' /\ WaitPhase'
    BY <1>1, <1>2, <1>3 DEF AskPhase, UpdatePhase, WaitPhase
<1>5. Heard' /\ OneFile'
    BY <1>1, <1>2 DEF OnePhase, Heard, OneFile
<1> QED
    BY <1>4, <1>5 DEF OnePhase

(* Without an overlap the pointer is null when a download makes a new file.                  *)
LEMMA AloneDownLoad ==
    ASSUME TypeInv, ReaderInv, m_bStart, OnePhase, InitHttpDownLoad
    PROVE  OnePhase'
<1>1. Update("DOWNLOAD") /\ UNCHANGED listening
    BY DEF InitHttpDownLoad
<1>2. /\ updates' = 0 /\ NoReply /\ UNCHANGED refused /\ todo["http"] = <<>> /\ ~listening
      /\ \A c \in Callers : ~Asking(c)
    BY <1>1, AloneUpdate
<1>3. m_pFile = 0
  <2>1. ~InFlight("download") /\ ~Has(todo["http"], {"closing", "file"})
      BY <1>2, HasNothing, NoneInFlight
  <2>2. \A id \in Ids : <<"download", id>> \notin refused
      BY DEF OnePhase, Heard
  <2> QED
      BY <2>1, <2>2 DEF ReaderInv
<1>4. open = {}
    BY <1>3 DEF OnePhase, OneFile, TypeInv, TypeOK, Files
<1>5. CASE Sends("download") /\ open' = open \cup {m_pFile'} /\ UNCHANGED todo
    BY <1>1, <1>2, <1>4, <1>5, AloneSent DEF Waiting
<1>6. CASE Begins("http", <<"work", "closing">>) /\ UNCHANGED <<open, replies>>
  <2>1. NoReply'
      BY <1>2, <1>6 DEF NoReply
  <2>2. \A id \in Ids : <<"download", id>> \notin refused'
      BY <1>2 DEF OnePhase, Heard
  <2> QED
      BY <1>1, <1>2, <1>4, <1>6, <2>1, <2>2, AloneSlot
<1> QED
    BY <1>5, <1>6 DEF InitHttpDownLoad

LEMMA AloneThread ==
    ASSUME TypeInv, CallersExit, ReaderInv, m_bStart, m_bStart', OnePhase, Thread
    PROVE  OnePhase'
<1> USE DEF flagVars, fileVars, loopVars, historyVars
<1>1. CASE Connects
    BY <1>1, AloneSame DEF Connects
<1>2. CASE RunEnds
    BY <1>2 DEF RunEnds
<1>3. ASSUME NEW kind, InitHttpRequest(kind) PROVE OnePhase'
  <2>1. Update(kind) /\ Sends("request") /\ UNCHANGED <<m_pFile, open, todo>>
      BY <1>3, Zenon DEF InitHttpRequest
  <2>2. open' \subseteq {m_pFile'}
      BY <2>1 DEF OnePhase, OneFile
  <2> QED
      BY <2>1, <2>2, AloneSent DEF Waiting
<1>4. CASE UpdateWithoutState
  <2>1. Update("NONE") /\ Begins("http", <<"none", "work">>)
        /\ UNCHANGED <<m_pFile, open, listening, replies>>
      BY <1>4 DEF UpdateWithoutState
  <2>2. /\ updates' = 0 /\ NoReply /\ UNCHANGED refused /\ ~listening
        /\ \A c \in Callers : ~Asking(c)
      BY <2>1, AloneUpdate
  <2>3. /\ NoReply' /\ open' \subseteq {m_pFile'}
        /\ \A id \in Ids : <<"download", id>> \notin refused'
      BY <2>1, <2>2 DEF NoReply, OnePhase, OneFile, Heard
  <2> QED
      BY <2>1, <2>2, <2>3, AloneSlot
<1>5. CASE Statement("http")
    BY <1>5, AloneStatement DEF Threads
<1> QED
    BY <1>1, <1>2, <1>3, <1>4, <1>5, AloneDownLoad
    DEF Thread, InitHttpGet, InitHttpPost, InitHttpMultiPartPost

(* The slots of a reply to a get or a post disconnect the manager; those of a download do    *)
(* not find it connected.                                                                    *)
LEMMA SlotsDisconnect ==
    /\ listening => Has(ReplySlot, {"disconnect"})
    /\ Has(SslErrorsSlot, {"disconnect"})
<1>1. 5 \in DOMAIN <<"reply", "none", "unset", "work", "disconnect">>
      /\ <<"reply", "none", "unset", "work", "disconnect">>[5] = "disconnect"
    OBVIOUS
<1>2. listening => ReplySlot = <<"reply", "none", "unset", "work", "disconnect">>
    BY DEF ReplySlot
<1>3. 4 \in DOMAIN SslErrorsSlot /\ SslErrorsSlot[4] = "disconnect"
    BY DEF SslErrorsSlot
<1> QED
    BY <1>1, <1>2, <1>3 DEF Has

LEMMA AloneEnds ==
    ASSUME TypeInv, OnePhase, NEW waiting \in Waiting, NEW id \in Ids, NEW s,
           Ends(waiting, id, s),
           waiting = "request" /\ listening => Has(s, {"disconnect"})
    PROVE  /\ (\A i \in Ids : <<"download", i>> \notin refused') => OnePhase'
           /\ listening => waiting = "request"
<1> USE DEF flagVars, fileVars, historyVars
<1>1. /\ replies[<<waiting, id>>] > 0 /\ Begins("http", s) /\ todo["http"] = <<>>
      /\ replies' = [replies EXCEPT ![<<waiting, id>>] = @ - 1]
      /\ UNCHANGED <<updates, listening, m_pFile, open>>
    BY DEF Ends, AtRest, Idle
<1>2. <<waiting, id>> \in Waiting \X Ids /\ replies \in [Waiting \X Ids -> Nat]
    BY DEF TypeInv, TypeOK
<1>3. ~NoReply
    BY <1>1, <1>2 DEF NoReply
<1>4. OneReply /\ updates = 0 /\ \A c \in Callers : ~Asking(c)
    BY <1>3 DEF OnePhase, AskPhase, UpdatePhase, WaitPhase, TypeInv, TypeOK
<1>5. \A r \in Waiting \X Ids : r # <<waiting, id>> => replies[r] = 0
    BY <1>1, <1>2, <1>4 DEF OneReply
<1>6. replies[<<waiting, id>>] = 1
    BY <1>1, <1>2, <1>4 DEF OneReply
<1>7. NoReply'
    BY <1>1, <1>2, <1>5, <1>6 DEF NoReply
<1>8. listening => waiting = "request"
  <2>1. ~Disconnecting
      BY <1>1, HasNothing DEF Disconnecting
  <2>2. listening => InFlight("request")
      BY <2>1 DEF OnePhase, Heard
  <2>3. ASSUME NEW i \in Ids, replies[<<"request", i>>] > 0 PROVE waiting = "request"
    <3>1. <<"request", i>> \in Waiting \X Ids
        BY DEF Waiting
    <3>2. <<"request", i>> = <<waiting, id>>
        BY <1>5, <2>3, <3>1
    <3> QED
        BY <3>2
  <2> QED
      BY <2>2, <2>3 DEF InFlight
<1>9. open' \subseteq {m_pFile'} /\ (listening' => Has(s, {"disconnect"})) /\ updates' = 0
    BY <1>1, <1>4, <1>8 DEF OnePhase, OneFile
<1>10. (\A i \in Ids : <<"download", i>> \notin refused') => OnePhase'
    BY <1>1, <1>4, <1>7, <1>9, AloneSlot
<1> QED
    BY <1>8, <1>10

LEMMA AloneNetwork ==
    ASSUME TypeInv, OnePhase, Network
    PROVE  OnePhase'
<1> USE DEF flagVars, fileVars, loopVars, historyVars
<1>r. \A id \in Ids : <<"download", id>> \notin refused
    BY DEF OnePhase, Heard
<1>1. ASSUME NEW id \in Ids, RequestFinished(id) PROVE OnePhase'
    BY <1>1, <1>r, AloneEnds, SlotsDisconnect DEF RequestFinished, Waiting
<1>2. ASSUME NEW id \in Ids, DownLoadFinished(id) PROVE OnePhase'
    BY <1>2, <1>r, AloneEnds DEF DownLoadFinished, Waiting
<1>3. ASSUME NEW id \in Ids, DownLoadFailed(id) PROVE OnePhase'
    BY <1>3, <1>r, AloneEnds DEF DownLoadFailed, Waiting
<1>4. ASSUME NEW id \in Ids, NEW waiting \in Waiting, SslErrors(waiting, id) PROVE OnePhase'
  <2>1. Ends(waiting, id, SslErrorsSlot) /\ listening
        /\ refused' = refused \cup {<<waiting, id>>}
      BY <1>4 DEF SslErrors
  <2>2. waiting = "request"
      BY <2>1, AloneEnds, SlotsDisconnect
  <2>3. \A i \in Ids : <<"download", i>> \notin refused'
      BY <2>1, <2>2 DEF OnePhase, Heard
  <2> QED
      BY <2>1, <2>2, <2>3, AloneEnds, SlotsDisconnect
<1>5. ASSUME NEW id \in Ids, httpDownReadyRead(id) PROVE OnePhase'
  <2>1. /\ todo["http"] = <<>> /\ Begins("http", <<"write">>) /\ open \subseteq {m_pFile}
        /\ UNCHANGED <<updates, replies, refused, m_bWork, listening, m_pFile, open>>
      BY <1>5 DEF httpDownReadyRead, AtRest, Idle, OnePhase, OneFile
  <2>2. todo'["http"] = <<"write">> /\ todo' = [todo EXCEPT !["http"] = todo'["http"]]
      BY <2>1 DEF Begins, TypeInv, TypeOK, Threads
  <2>3. \A c \in Callers : Asking(c)' => Asking(c) /\ (Mid(c)' => Mid(c))
      BY <2>2, AloneHttp
  <2>4. ~Clearing' /\ ~Disconnecting
      BY <2>1, <2>2, HasNothing DEF Clearing, ClearsWork, Disconnecting, Has
  <2> QED
      BY <2>1, <2>3, <2>4, AloneFrame
<1> QED
    BY <1>1, <1>2, <1>3, <1>4, <1>5 DEF Network

(* An overlap is not forgotten.                                                              *)
LEMMA RacedStays ==
    ASSUME TypeInv, [Next]_vars
    PROVE  raced => raced'
<1> USE DEF flagVars, fileVars, loopVars, historyVars
<1>1. ASSUME NEW t \in Threads, Statement(t) PROVE raced' = raced
    BY <1>1, StatementEffects DEF Effects
<1>2. ASSUME NEW c \in Callers, CallerStatement(c) PROVE raced' = raced
    BY <1>1, <1>2
    DEF CallerStatement, Refuses, Proceeds, SetsVar, SetHttpState, UpdateHttpState, Threads
<1>3. CASE Calls
    BY <1>3 DEF Calls, Request, ExitTask
<1>4. CASE Thread
    BY <1>1, <1>4
    DEF Thread, Connects, RunEnds, InitHttpDownLoad, InitHttpGet, InitHttpPost,
        InitHttpMultiPartPost, InitHttpRequest, UpdateWithoutState, Update, Threads
<1>5. CASE Network
    BY <1>5
    DEF Network, RequestFinished, DownLoadFinished, DownLoadFailed, SslErrors, Ends,
        httpDownReadyRead
<1>6. CASE RaceOnVar \/ Terminated \/ UNCHANGED vars
    BY <1>6 DEF RaceOnVar, Terminated, vars
<1> QED
    BY <1>2, <1>3, <1>4, <1>5, <1>6 DEF Next

LEMMA AloneStep ==
    ASSUME TypeInv, CallersExit, ReaderInv, AloneInv, [Next]_vars
    PROVE  AloneInv'
<1> SUFFICES ASSUME m_bStart', ~raced' PROVE OnePhase'
    BY DEF AloneInv
<1>1. m_bStart /\ ~raced
    BY StartStays, RacedStays
<1>2. OnePhase
    BY <1>1 DEF AloneInv
<1>3. CASE RaceOnVar \/ Terminated \/ UNCHANGED vars
    BY <1>2, <1>3, AloneSame
    DEF RaceOnVar, Terminated, vars, flagVars, fileVars, loopVars, historyVars
<1>4. CASE Calls
    BY <1>2, <1>4, AloneRequest, AloneExit DEF Calls
<1>5. ASSUME NEW c \in Callers, CallerStatement(c) PROVE OnePhase'
    BY <1>2, <1>5, AloneCaller
<1>6. CASE Thread
    BY <1>1, <1>2, <1>6, AloneThread
<1>7. CASE Network
    BY <1>2, <1>7, AloneNetwork
<1> QED
    BY <1>3, <1>4, <1>5, <1>6, <1>7 DEF Next

LEMMA FileInvariant == Spec => [](ReaderInv /\ UseInv /\ AloneInv)
<1>1. Init => TypeInv /\ CallersExit /\ ReaderInv /\ UseInv /\ AloneInv
    BY TypeInit, CallersExitInit, FileInit, AloneInit
<1>2. TypeInv /\ CallersExit /\ ReaderInv /\ UseInv /\ AloneInv /\ [Next]_vars
        => TypeInv' /\ CallersExit' /\ ReaderInv' /\ UseInv' /\ AloneInv'
    BY TypeStep, CallersExitStep, FileStep, AloneStep
<1> QED
    BY <1>1, <1>2, PTL DEF Spec

(* Until the object is told to exit, the file of m_pFile is under way to be closed: a        *)
(* download that writes it is in flight, a slot is about to close it, or the SSL errors of a *)
(* download ended it.  And no other file is open, unless requests have overlapped: only a    *)
(* request taken while another was on its way or being ended makes the object forget a file. *)
THEOREM FileReaderCorrect == Spec => []FileHasReader
    BY FileInvariant, AloneImplies, PTL

(* However the callers and the network interleave, the file is not used after it is closed,  *)
(* as long as nobody has told the object to exit.                                            *)
THEOREM FileUseCorrect == Spec => []FileUsable
    BY FileInvariant, UseInvImplies, PTL

-----------------------------------------------------------------------------
(* One caller that makes gets and posts: its requests pass through the phases of a call, an  *)
(* event, a reply and a slot, one at a time.  With two callers, or with downloads, whose     *)
(* slots clear the flags twice, the phases overlap.                                          *)

OneCaller == (\A c, d \in Callers : c = d) /\ "DOWNLOAD" \notin Kinds

SlotTails == {<<"reply", "none", "unset", "work", "disconnect">>,
              <<"none", "unset", "work", "disconnect">>, <<"unset", "work", "disconnect">>,
              <<"work", "disconnect">>}

(* The slot of a reply has yet to clear the busy flag; it has yet to answer.                 *)
InSlot == todo["http"] \in SlotTails
Answering == InSlot /\ Head(todo["http"]) = "reply"

(* The parameters and the flags are those of the last request, which has not been answered.  *)
Current ==
    m_pVar = count /\ m_yState \in Kinds /\ (m_bStart => m_bWork) /\ answers[count] = 0

HttpShape == InSlot \/ todo["http"] \in Seq(ExitSet) \/ todo["http"] = <<"disconnect">>

RequestPhase == \A c \in Callers : todo[c] \in RequestTails =>
    /\ updates = 0 /\ ~InFlight("request") /\ ~InSlot
    /\ request[c].id = count /\ request[c].kind \in Kinds /\ answers[count] = 0
    /\ m_bStart /\ Head(todo[c]) # "busy" => m_bWork
    /\ Head(todo[c]) \in {"state", "emit"} => m_pVar = count
    /\ Head(todo[c]) = "emit" => m_yState = request[c].kind

EventPhase == updates > 0 => updates = 1 /\ ~InFlight("request") /\ ~InSlot /\ Current

ReplyPhase == \A id \in Ids :
    /\ replies[<<"download", id>>] = 0
    /\ replies[<<"request", id>>] > 0 =>
         /\ id = count /\ replies[<<"request", id>>] = 1 /\ listening
         /\ todo["http"] \in Seq(ExitSet) /\ Current

SlotPhase == InSlot =>
    /\ m_bStart => m_bWork
    /\ Answering => replied = count /\ Current

(* The last request, if it was accepted, is yet to be answered.                              *)
Open == updates > 0 \/ InFlight("request") \/ Answering

AnswerInv ==
    /\ \A id \in Ids : id > count => answers[id] = 0
    /\ m_bStart /\ ~lost => \A id \in accepted :
         answers[id] = 1 \/ <<"request", id>> \in refused \/ (id = count /\ Open)

HttpExit == m_bStart => ExitShape("http")

PhaseInv ==
    /\ HttpShape /\ HttpExit /\ VarOwned /\ AnswerInv
    /\ RequestPhase /\ EventPhase /\ ReplyPhase /\ SlotPhase

LEMMA PhaseInvImplies ==
    ASSUME TypeInv, PhaseInv
    PROVE  AnswerCurrent /\ NoneForgotten /\ VarOwned
<1>1. AnswerCurrent
  <2> SUFFICES ASSUME At("http", "reply"), m_bStart
               PROVE  m_bWork /\ m_pVar = replied /\ m_yState \in RequestKinds
      BY DEF AnswerCurrent
  <2>1. todo["http"] # <<>> /\ Head(todo["http"]) = "reply"
      BY AtFacts DEF Threads
  <2>2. Answering
    <3>1. todo["http"] \notin Seq(ExitSet)
      <4>1. todo["http"] \in Seq(ExitSet) => Head(todo["http"]) \in ExitSet
          BY <2>1
      <4> QED
          BY <2>1, <4>1 DEF ExitSet
    <3>2. todo["http"] # <<"disconnect">>
        BY <2>1
    <3> QED
        BY <2>1, <3>1, <3>2 DEF PhaseInv, HttpShape, Answering
  <2> QED
      BY <2>2, KindsAssumption DEF PhaseInv, SlotPhase, Current, Answering
<1>2. NoneForgotten
  <2>1. m_bStart /\ ~m_bWork => ~Open
      BY DEF PhaseInv, EventPhase, ReplyPhase, SlotPhase, Current, Open, InFlight, Answering
  <2> QED
      BY <2>1 DEF PhaseInv, AnswerInv, NoneForgotten
<1> QED
    BY <1>1, <1>2 DEF PhaseInv

(* The statements that follow one another in a slot and in a request.                        *)
LEMMA SlotTailFacts ==
    ASSUME NEW s \in SlotTails
    PROVE  /\ s \in Seq(Statements) /\ s # <<>> /\ s \notin Seq(ExitSet) /\ s # <<"disconnect">>
           /\ Head(s) \in {"reply", "none", "unset", "work"}
           /\ Head(s) # "work" => Tail(s) \in SlotTails /\ Head(Tail(s)) # "reply"
           /\ Head(s) = "work" => Tail(s) = <<"disconnect">>
<1>1. Head(s) \notin ExitSet => s \notin Seq(ExitSet) \/ s = <<>>
    OBVIOUS
<1>2. CASE s = <<"reply", "none", "unset", "work", "disconnect">>
  <2>1. Tail(s) = <<"none", "unset", "work", "disconnect">>
      BY <1>2
  <2> QED
      BY <1>1, <1>2, <2>1 DEF SlotTails, ExitSet, Statements
<1>3. CASE s = <<"none", "unset", "work", "disconnect">>
  <2>1. Tail(s) = <<"unset", "work", "disconnect">>
      BY <1>3
  <2> QED
      BY <1>1, <1>3, <2>1 DEF SlotTails, ExitSet, Statements
<1>4. CASE s = <<"unset", "work", "disconnect">>
  <2>1. Tail(s) = <<"work", "disconnect">>
      BY <1>4
  <2> QED
      BY <1>1, <1>4, <2>1 DEF SlotTails, ExitSet, Statements
<1>5. CASE s = <<"work", "disconnect">>
  <2>1. Tail(s) = <<"disconnect">>
      BY <1>5
  <2>2. s \notin Seq(ExitSet)
    <3>1. s[2] = "disconnect" /\ 2 \in DOMAIN s
        BY <1>5
    <3>2. "disconnect" \notin ExitSet
        BY DEF ExitSet
    <3> QED
        BY <3>1, <3>2
  <2> QED
      BY <1>5, <2>1, <2>2 DEF SlotTails, Statements
<1> QED
    BY <1>2, <1>3, <1>4, <1>5 DEF SlotTails

LEMMA ExitNoSlot ==
    ASSUME NEW s \in Seq(ExitSet)
    PROVE  s \notin SlotTails /\ s # <<"disconnect">>
<1>1. s \notin SlotTails
    BY SlotTailFacts
<1>2. s # <<"disconnect">>
    BY DEF ExitSet
<1> QED
    BY <1>1, <1>2

LEMMA PhaseInit == Init => PhaseInv
<1> SUFFICES ASSUME Init PROVE PhaseInv
    OBVIOUS
<1>1. todo["http"] = <<>> /\ <<>> \in Seq(ExitSet)
    BY DEF Init, Threads
<1>0. ~InSlot
    BY <1>1, SlotTailFacts, Zenon DEF InSlot
<1>2. \A c \in Callers : todo[c] \notin RequestTails
    BY RequestTailHeads DEF Init, Threads
<1>3. HttpShape /\ HttpExit /\ VarOwned
    BY <1>1 DEF Init, HttpShape, HttpExit, ExitShape, VarOwned
<1>4. AnswerInv
    BY DEF Init, AnswerInv
<1>5. RequestPhase /\ EventPhase /\ SlotPhase
    BY <1>0, <1>2 DEF Init, RequestPhase, EventPhase, SlotPhase
<1>6. ReplyPhase
    BY DEF Init, ReplyPhase, Waiting
<1> QED
    BY <1>3, <1>4, <1>5, <1>6 DEF PhaseInv

(* A step that starts, answers and ends no request.                                          *)
LEMMA PhaseFrame ==
    ASSUME PhaseInv,
           UNCHANGED <<m_yState, m_pVar, updates, replies, listening, count, answers, accepted,
                       refused, lost, request, replied>>,
           crashed' # "var",
           m_bStart' => m_bStart /\ m_bWork' = m_bWork,
           \A c \in Callers : todo'[c] \in RequestTails => todo'[c] = todo[c],
           \/ todo'["http"] = todo["http"]
           \/ /\ todo["http"] \in Seq(ExitSet) /\ todo'["http"] \in Seq(ExitSet)
              /\ m_bStart' => todo'["http"] \in {<<>>, ExitStatements}
    PROVE  PhaseInv'
<1> USE DEF PhaseInv
<1>1. /\ todo["http"] \in Seq(ExitSet) => ~InSlot
      /\ todo'["http"] \in Seq(ExitSet) => ~InSlot'
    BY ExitNoSlot, Zenon DEF InSlot
<1>2. (InSlot' <=> InSlot) /\ (Answering' <=> Answering)
    BY <1>1 DEF InSlot, Answering
<1>3. HttpShape' /\ HttpExit' /\ VarOwned'
    BY DEF HttpShape, HttpExit, ExitShape, VarOwned, InSlot
<1>4. InFlight("request")' <=> InFlight("request")
    BY DEF InFlight
<1>5. AnswerInv'
    BY <1>2, <1>4 DEF AnswerInv, Open
<1>6. RequestPhase'
    BY <1>2, <1>4 DEF RequestPhase
<1>7. Current => Current'
    BY DEF Current
<1>8. EventPhase'
    BY <1>2, <1>4, <1>7 DEF EventPhase
<1>9. ReplyPhase'
    BY <1>7 DEF ReplyPhase
<1>10. SlotPhase'
    BY <1>2, <1>7 DEF SlotPhase
<1> QED
    BY <1>3, <1>5, <1>6, <1>8, <1>9, <1>10

(* The thread executes a statement.                                                          *)
LEMMA PhaseHttp ==
    ASSUME TypeInv, PhaseInv, Statement("http")
    PROVE  PhaseInv'
<1> DEFINE s == todo["http"]
<1>h. "http" \in Threads /\ Callers \subseteq Threads /\ "http" \notin Callers
    BY CallersAssumption DEF Threads
<1>1. PICK statement \in Statements, next \in Seq(Statements) :
             Then("http", statement, next) /\ NextOf(statement, next) /\ Effects(statement)
    BY <1>h, StatementEffects
<1>2. /\ s \in Seq(Statements) /\ s # <<>> /\ Head(s) = statement
      /\ Tail(s) \in Seq(Statements) /\ todo'["http"] = next \o Tail(s)
      /\ \A c \in Callers : todo'[c] = todo[c]
    BY <1>1, <1>h, ThenFrame
<1>3. crashed # "var" /\ crashed' # "var"
    BY <1>1 DEF Effects, PhaseInv, VarOwned
<1>4. CASE s \in Seq(ExitSet)
  <2>1. statement \in ExitSet
      BY <1>2, <1>4
  <2>2. todo'["http"] \in Seq(ExitSet)
    <3>1. next \in {<<>>, <<"closing">>, <<"wait">>}
        BY <1>1, <2>1 DEF NextOf, ExitSet
    <3>2. <<>> \in Seq(ExitSet) /\ <<"closing">> \in Seq(ExitSet) /\ <<"wait">> \in Seq(ExitSet)
        BY DEF ExitSet
    <3>3. next \in Seq(ExitSet)
        BY <3>1, <3>2
    <3> QED
        BY <1>2, <1>4, <3>3
  <2>3. ~m_bStart'
    <3>1. m_bStart => s \in {<<>>, ExitStatements}
        BY <1>4 DEF PhaseInv, HttpExit, ExitShape
    <3>2. m_bStart => statement = "stop"
        BY <1>1, <1>h, <3>1, ExitGoesOn
    <3> QED
        BY <1>1, <3>2 DEF Effects
  <2>4. UNCHANGED <<m_yState, m_pVar, updates, replies, listening, count, answers, accepted,
                    refused, lost, request, replied>>
      BY <1>1, <2>1 DEF Effects, ExitSet, TypeInv, TypeOK
  <2> QED
      BY <1>2, <1>3, <1>4, <2>2, <2>3, <2>4, PhaseFrame
<1>5. CASE s = <<"disconnect">>
  <2>1. statement = "disconnect" /\ Tail(s) = <<>>
      BY <1>2, <1>5
  <2>2. next = <<>>
      BY <1>1, <2>1 DEF NextOf
  <2>3. todo'["http"] = <<>>
      BY <1>2, <2>1, <2>2
  <2>4. ~InSlot /\ ~InSlot' /\ s \notin Seq(ExitSet)
    <3>1. <<>> \in Seq(ExitSet)
        OBVIOUS
    <3> QED
        BY <1>5, <2>3, <3>1, ExitNoSlot, SlotTailFacts DEF InSlot
  <2>5. /\ UNCHANGED <<m_bStart, m_bWork, m_yState, m_pVar, answers, request, pc, replied,
                       updates, replies, count, lost, accepted, refused>>
    <3>1. m_bStart \in BOOLEAN /\ m_bWork \in BOOLEAN
        BY DEF TypeInv, TypeOK
    <3> QED
        BY <1>1, <2>1, <3>1 DEF Effects
  <2>6. \A id \in Ids : replies[<<"request", id>>] \in Nat /\ ~(replies[<<"request", id>>] > 0)
      BY <2>4 DEF PhaseInv, ReplyPhase, TypeInv, TypeOK, Waiting
  <2>7. (~InFlight("request") /\ ~InFlight("request")') /\ (Current => Current')
        /\ ~Answering /\ ~Answering'
      BY <2>4, <2>5, <2>6 DEF InFlight, Current, Answering
  <2>8. HttpShape' /\ HttpExit' /\ VarOwned'
    <3>1. <<>> \in Seq(ExitSet)
        OBVIOUS
    <3> QED
        BY <1>3, <2>3, <3>1 DEF HttpShape, HttpExit, ExitShape, VarOwned
  <2>9. AnswerInv'
      BY <2>5, <2>7 DEF PhaseInv, AnswerInv, Open
  <2>10. RequestPhase' /\ EventPhase' /\ SlotPhase'
      BY <1>2, <2>4, <2>5, <2>7 DEF PhaseInv, RequestPhase, EventPhase, SlotPhase
  <2>11. ReplyPhase'
      BY <2>5, <2>6 DEF PhaseInv, ReplyPhase
  <2> QED
      BY <2>8, <2>9, <2>10, <2>11 DEF PhaseInv
<1>6. CASE InSlot
  <2>1. /\ s \notin Seq(ExitSet) /\ statement \in {"reply", "none", "unset", "work"}
        /\ statement # "work" => Tail(s) \in SlotTails /\ Head(Tail(s)) # "reply"
        /\ statement = "work" => Tail(s) = <<"disconnect">>
      BY <1>2, <1>6, SlotTailFacts DEF InSlot
  <2>2. next = <<>>
      BY <1>1, <2>1 DEF NextOf
  <2>3. todo'["http"] = Tail(s)
      BY <1>2, <2>2
  <2>4. /\ \A c \in Callers : todo[c] \notin RequestTails
        /\ ~(updates > 0)
        /\ \A id \in Ids : ~(replies[<<"request", id>>] > 0)
      BY <1>6, <2>1 DEF PhaseInv, RequestPhase, EventPhase, ReplyPhase
  <2>5. UNCHANGED <<m_bStart, request, pc, replied, updates, replies, count, lost, accepted,
                    refused>>
    <3>1. m_bStart \in BOOLEAN
        BY DEF TypeInv, TypeOK
    <3> QED
        BY <1>1, <2>1, <3>1 DEF Effects
  <2>6. ~Answering'
      BY <2>1, <2>3, SlotTailFacts DEF Answering, InSlot
  <2>7. HttpShape' /\ VarOwned'
      BY <1>3, <2>1, <2>3 DEF HttpShape, InSlot, VarOwned
  <2>8. HttpExit'
    <3>1. Tail(s) \notin Seq(ExitSet)
        BY <2>1, ExitNoSlot
    <3> QED
        BY <2>3, <3>1 DEF HttpExit, ExitShape
  <2>9. RequestPhase' /\ EventPhase'
      BY <1>2, <2>4, <2>5 DEF RequestPhase, EventPhase
  <2>10. ReplyPhase'
      BY <2>4, <2>5 DEF PhaseInv, ReplyPhase
  <2>11. SlotPhase'
    <3>1. CASE statement = "work"
      <4>1. ~InSlot'
          BY <2>1, <2>3, <3>1, SlotTailFacts, Zenon DEF InSlot
      <4> QED
          BY <4>1 DEF SlotPhase
    <3>2. CASE statement # "work"
      <4>1. m_bWork' = m_bWork
          BY <1>1, <2>1, <3>2 DEF Effects, TypeInv, TypeOK
      <4> QED
          BY <1>6, <2>5, <2>6, <4>1 DEF PhaseInv, SlotPhase
    <3> QED
        BY <3>1, <3>2
  <2>12. AnswerInv'
    <3>0. ~InFlight("request") /\ answers \in [Ids -> Nat] /\ count \in Ids /\ Ids \subseteq Int
      <4>1. ~InFlight("request")
          BY <2>4 DEF InFlight
      <4>2. Ids \subseteq Int
          BY RequestsAssumption DEF Ids
      <4> QED
          BY <4>1, <4>2 DEF TypeInv, TypeOK
    <3>1. CASE statement = "reply"
      <4>1. Answering /\ replied = count /\ answers[count] = 0
          BY <1>2, <1>6, <3>1 DEF PhaseInv, SlotPhase, Answering, Current
      <4>2. answers' = [answers EXCEPT ![count] = 1]
          BY <1>1, <3>0, <3>1, <4>1 DEF Effects
      <4>3. answers'[count] = 1 /\ \A id \in Ids : id # count => answers'[id] = answers[id]
          BY <3>0, <4>2
      <4> QED
          BY <2>5, <3>0, <4>3 DEF PhaseInv, AnswerInv, TypeInv, TypeOK
    <3>2. CASE statement # "reply"
      <4>1. answers' = answers /\ ~Open
          BY <1>1, <1>2, <2>1, <2>4, <3>0, <3>2 DEF Effects, Open, Answering
      <4> QED
          BY <2>5, <4>1 DEF PhaseInv, AnswerInv
    <3> QED
        BY <3>1, <3>2
  <2> QED
      BY <2>7, <2>8, <2>9, <2>10, <2>11, <2>12 DEF PhaseInv
<1> QED
    BY <1>4, <1>5, <1>6 DEF PhaseInv, HttpShape

(* The caller executes a statement.  While it is in a request nothing else is under way.     *)
LEMMA PhaseCaller ==
    ASSUME TypeInv, CallersExit, PhaseInv, OneCaller, NEW c \in Callers, CallerStatement(c)
    PROVE  PhaseInv'
<1> USE DEF flagVars, fileVars, loopVars, historyVars
<1> DEFINE s == todo[c]
<1>h. c \in Threads /\ c # "http" /\ "http" \in Threads /\ \A d \in Callers : d = c
    BY CallersAssumption DEF Threads, OneCaller
<1>t. todo \in [Threads -> Seq(Statements)]
    BY DEF TypeInv, TypeOK
<1>n. count \in Ids /\ m_bStart \in BOOLEAN /\ m_bWork \in BOOLEAN
    BY DEF TypeInv, TypeOK
(* What a request leaves alone, and what is left to show of it. *)
<1>0. ASSUME s \in RequestTails, todo'["http"] = todo["http"], crashed' = crashed,
             UNCHANGED <<m_bStart, replies, listening, count, answers, replied, refused>>
      PROVE  /\ ~InSlot' /\ ~InFlight("request")' /\ ~Answering' /\ ~Open /\ updates = 0
             /\ HttpShape' /\ HttpExit' /\ VarOwned' /\ ReplyPhase' /\ SlotPhase'
             /\ updates' = 0 /\ UNCHANGED <<accepted, lost>> => AnswerInv'
  <2>1. ~InSlot /\ ~InFlight("request") /\ updates = 0
      BY <1>0 DEF PhaseInv, RequestPhase
  <2>2. ~InSlot' /\ ~InFlight("request")' /\ ~Answering' /\ ~Open
      BY <1>0, <2>1 DEF InSlot, InFlight, Answering, Open
  <2>3. HttpShape' /\ HttpExit' /\ VarOwned'
      BY <1>0 DEF PhaseInv, HttpShape, HttpExit, ExitShape, VarOwned, InSlot
  <2>4. ReplyPhase'
      BY <1>0, <2>1 DEF PhaseInv, ReplyPhase, InFlight
  <2>5. SlotPhase'
      BY <2>2 DEF SlotPhase
  <2>6. updates' = 0 /\ UNCHANGED <<accepted, lost>> => AnswerInv'
      BY <1>0, <2>2 DEF PhaseInv, AnswerInv
  <2> QED
      BY <2>1, <2>2, <2>3, <2>4, <2>5, <2>6
(* From one statement of the request to the next. *)
<1>1. ASSUME NEW statement \in CallStatements \ {"emit"}, Does(c, statement),
             UNCHANGED <<m_bStart, replies, listening, count, answers, replied, refused, updates,
                         accepted, lost, request, crashed>>,
             m_bWork' = (m_bWork \/ statement = "busy"),
             m_pVar' = IF statement = "var" THEN request[c].id ELSE m_pVar,
             m_yState' = IF statement = "state" THEN request[c].kind ELSE m_yState
      PROVE  PhaseInv'
  <2>1. s \in RequestTails /\ Head(s) = statement /\ Tail(s) \in Seq(Statements)
      BY <1>1, <1>h, AtFacts, HasTail DEF Does, Then
  <2>2. todo'[c] = Tail(s) /\ todo'["http"] = todo["http"]
    <3>1. <<>> \o Tail(s) = Tail(s)
        BY <2>1
    <3> QED
        BY <1>1, <1>h, <1>t, <3>1 DEF Does, Then
  <2>3. Tail(s) \in RequestTails /\ Head(Tail(s)) =
            CASE statement = "busy" -> "check" [] statement = "check" -> "var"
              [] statement = "var" -> "state" [] statement = "state" -> "emit"
      BY <1>1, <2>1, RequestTailHeads DEF CallStatements
  <2>4. /\ ~InSlot' /\ ~InFlight("request")' /\ updates' = 0 /\ AnswerInv'
        /\ HttpShape' /\ HttpExit' /\ VarOwned' /\ ReplyPhase' /\ SlotPhase'
      BY <1>0, <1>1, <2>1, <2>2
  <2>5. RequestPhase'
    <3>0. /\ request[c].id = count /\ request[c].kind \in Kinds /\ answers[count] = 0
          /\ m_bStart /\ Head(s) # "busy" => m_bWork
          /\ Head(s) \in {"state", "emit"} => m_pVar = count
          /\ Head(s) = "emit" => m_yState = request[c].kind
        BY <2>1 DEF PhaseInv, RequestPhase
    <3>1. m_bStart' => m_bWork'
        BY <1>1, <2>1, <3>0
    <3>2. Head(Tail(s)) \in {"state", "emit"} => m_pVar' = count
        BY <1>1, <2>1, <2>3, <3>0 DEF CallStatements
    <3>3. Head(Tail(s)) = "emit" => m_yState' = request[c].kind
        BY <1>1, <2>3, <3>0 DEF CallStatements
    <3> QED
        BY <1>1, <1>h, <2>2, <2>4, <3>0, <3>1, <3>2, <3>3 DEF RequestPhase
  <2>6. EventPhase'
      BY <2>4 DEF EventPhase
  <2> QED
      BY <2>4, <2>5, <2>6 DEF PhaseInv
<1>2. CASE Statement(c)
  <2>1. PICK statement \in Statements \ {"check", "var", "state", "emit"},
             next \in Seq(Statements) :
               Then(c, statement, next) /\ NextOf(statement, next) /\ Effects(statement)
      BY <1>2, <1>h, StatementEffects
  <2>2. CASE statement = "busy"
    <3>1. Does(c, "busy")
        BY <2>1, <2>2 DEF NextOf, Does
    <3>2. /\ UNCHANGED <<m_bStart, replies, listening, count, answers, replied, refused, updates,
                         accepted, lost, request, crashed, m_pVar, m_yState>>
          /\ m_bWork' = TRUE
        BY <1>n, <2>1, <2>2 DEF Effects, TypeInv, TypeOK
    <3>3. "busy" \in CallStatements \ {"emit"}
        BY DEF CallStatements
    <3> QED
        BY <1>1, <3>1, <3>2, <3>3
  <2>3. CASE statement # "busy"
    <3>1. statement \in ExitSet /\ s \in Seq(ExitSet)
        BY <1>h, <2>1, <2>3, AtFacts DEF Then, CallStatements
    <3>2. m_bStart => statement = "stop"
        BY <1>h, <2>1, <3>1, ExitGoesOn DEF CallersExit, ExitShape
    <3>3. ~m_bStart'
        BY <2>1, <3>2 DEF Effects
    <3>4. todo'[c] = next \o Tail(s) /\ todo'["http"] = todo["http"]
        BY <1>h, <2>1, ThenFrame
    <3>5. todo'[c] \in Seq(ExitSet)
      <4>1. next \in {<<>>, <<"closing">>, <<"wait">>}
          BY <2>1, <3>1 DEF NextOf, ExitSet
      <4>2. <<>> \in Seq(ExitSet) /\ <<"closing">> \in Seq(ExitSet) /\ <<"wait">> \in Seq(ExitSet)
          BY DEF ExitSet
      <4>3. next \in Seq(ExitSet)
          BY <4>1, <4>2
      <4> QED
          BY <1>h, <2>1, <3>1, <3>4, <4>3, ThenFrame
    <3>6. \A d \in Callers : todo'[d] \notin RequestTails
        BY <1>h, <3>5, RequestTailHeads
    <3>7. /\ UNCHANGED <<m_yState, m_pVar, updates, replies, listening, count, answers, accepted,
                         refused, lost, request, replied>>
          /\ crashed' # "var"
        BY <2>1, <3>1 DEF Effects, ExitSet, TypeInv, TypeOK, PhaseInv, VarOwned
    <3> QED
        BY <3>3, <3>4, <3>6, <3>7, PhaseFrame
  <2> QED
      BY <2>2, <2>3
<1>3. CASE Refuses(c)
  <2>1. s \in RequestTails
      BY <1>3, <1>h, AtFacts DEF Refuses, CallStatements
  <2>2. todo'[c] = <<>> /\ todo'["http"] = todo["http"]
      BY <1>3, <1>h, <1>t DEF Refuses, Begins
  <2>3. UNCHANGED <<m_bStart, replies, listening, count, answers, replied, refused, updates,
                    accepted, lost, crashed>>
      BY <1>3 DEF Refuses
  <2>4. /\ ~InSlot' /\ ~InFlight("request")' /\ updates' = 0 /\ AnswerInv'
        /\ HttpShape' /\ HttpExit' /\ VarOwned' /\ ReplyPhase' /\ SlotPhase'
      BY <1>0, <2>1, <2>2, <2>3
  <2>5. RequestPhase' /\ EventPhase'
      BY <1>h, <2>2, <2>4, RequestTailHeads DEF RequestPhase, EventPhase
  <2> QED
      BY <2>4, <2>5 DEF PhaseInv
<1>4. CASE Proceeds(c)
  <2>1. "check" \in CallStatements \ {"emit"}
      BY DEF CallStatements
  <2> QED
      BY <1>1, <1>4, <1>n, <2>1 DEF Proceeds
<1>5. CASE SetsVar(c)
  <2>1. "var" \in CallStatements \ {"emit"}
      BY DEF CallStatements
  <2> QED
      BY <1>1, <1>5, <1>n, <2>1 DEF SetsVar
<1>6. CASE SetHttpState(c)
  <2>1. "state" \in CallStatements \ {"emit"}
      BY DEF CallStatements
  <2> QED
      BY <1>1, <1>6, <1>n, <2>1 DEF SetHttpState
<1>7. CASE UpdateHttpState(c)
  <2>1. s \in RequestTails /\ Head(s) = "emit" /\ Tail(s) = <<>>
    <3>1. At(c, "emit")
        BY <1>7 DEF UpdateHttpState, Does, Then
    <3>2. s \in RequestTails /\ Head(s) = "emit"
        BY <1>h, <3>1, AtFacts DEF CallStatements
    <3> QED
        BY <3>2, RequestTailHeads
  <2>2. todo'[c] = <<>> /\ todo'["http"] = todo["http"]
      BY <1>7, <1>h, <1>t, <2>1 DEF UpdateHttpState, Does, Then
  <2>3. UNCHANGED <<m_bStart, m_bWork, m_yState, m_pVar, replies, listening, count, answers,
                    replied, refused, crashed>>
      BY <1>7 DEF UpdateHttpState
  <2>4. /\ ~InSlot' /\ ~InFlight("request")' /\ ~Open /\ updates = 0
        /\ HttpShape' /\ HttpExit' /\ VarOwned' /\ ReplyPhase' /\ SlotPhase'
      BY <1>0, <2>1, <2>2, <2>3
  <2>5. /\ request[c].id = count /\ request[c].kind \in Kinds /\ answers[count] = 0
        /\ m_bStart => m_bWork
        /\ m_pVar = count /\ m_yState = request[c].kind
      BY <2>1 DEF PhaseInv, RequestPhase
  <2>6. Current'
      BY <2>3, <2>5 DEF Current
  <2>7. updates' = (IF pc = "begin" THEN 0 ELSE 1) /\ lost' = (lost \/ pc = "begin")
        /\ accepted' = accepted \cup {count}
      BY <1>7, <2>4, <2>5 DEF UpdateHttpState
  <2>8. RequestPhase' /\ EventPhase'
    <3>1. \A d \in Callers : todo'[d] \notin RequestTails
        BY <1>h, <2>2, RequestTailHeads
    <3>2. updates' > 0 => updates' = 1
        BY <2>7
    <3> QED
        BY <2>4, <2>6, <3>1, <3>2 DEF RequestPhase, EventPhase
  <2>9. AnswerInv'
    <3>1. ~lost' => ~lost /\ Open'
      <4>1. ~lost' => ~lost /\ updates' = 1
          BY <2>7 DEF TypeInv, TypeOK
      <4>2. updates' = 1 => Open'
          BY DEF Open
      <4> QED
          BY <4>1, <4>2
    <3> QED
        BY <2>3, <2>4, <2>7, <3>1 DEF PhaseInv, AnswerInv
  <2> QED
      BY <2>4, <2>8, <2>9 DEF PhaseInv
<1> QED
    BY <1>2, <1>3, <1>4, <1>5, <1>6, <1>7 DEF CallerStatement

(* A request that passes the tests of the flags finds that nothing is under way.             *)
LEMMA PhaseRequest ==
    ASSUME TypeInv, PhaseInv, OneCaller, NEW c \in Callers, NEW kind \in Kinds, Request(c, kind)
    PROVE  PhaseInv'
<1> USE DEF flagVars, fileVars, loopVars, historyVars
<1>h. c \in Threads /\ c # "http" /\ "http" \in Threads /\ \A d \in Callers : d = c
    BY CallersAssumption DEF Threads, OneCaller
<1>1. /\ m_bStart /\ ~m_bWork /\ count' = count + 1 /\ count + 1 \in Ids
      /\ todo' = [todo EXCEPT ![c] = <<"busy", "check", "var", "state", "emit">>]
      /\ request' = [request EXCEPT ![c] = [id |-> count', kind |-> kind]]
      /\ UNCHANGED <<m_bStart, m_bWork, crashed, replied, updates, listening, replies, lost,
                     accepted, refused, answers>>
    BY RequestsAssumption DEF Request, Begins, Ids, TypeInv, TypeOK
<1>2. updates = 0 /\ ~InSlot /\ \A id \in Ids : ~(replies[<<"request", id>>] > 0)
  <2>1. ~Current
      BY <1>1 DEF Current
  <2>2. updates = 0
      BY <2>1 DEF PhaseInv, EventPhase, TypeInv, TypeOK
  <2>3. ~InSlot
      BY <1>1 DEF PhaseInv, SlotPhase
  <2>4. \A id \in Ids : ~(replies[<<"request", id>>] > 0)
      BY <2>1 DEF PhaseInv, ReplyPhase
  <2> QED
      BY <2>2, <2>3, <2>4
<1>3. todo'["http"] = todo["http"]
      /\ todo'[c] = <<"busy", "check", "var", "state", "emit">> /\ Head(todo'[c]) = "busy"
    BY <1>1, <1>h DEF TypeInv, TypeOK
<1>4. ~InSlot' /\ ~InFlight("request")' /\ ~Open /\ ~Answering'
  <2>1. ~InSlot' /\ ~Answering' /\ ~Answering
      BY <1>2, <1>3 DEF InSlot, Answering
  <2>2. ~InFlight("request") /\ ~InFlight("request")'
      BY <1>1, <1>2, Zenon DEF InFlight
  <2> QED
      BY <1>2, <2>1, <2>2 DEF Open
<1>5. HttpShape' /\ HttpExit' /\ VarOwned'
    BY <1>1, <1>3 DEF PhaseInv, HttpShape, HttpExit, ExitShape, VarOwned, InSlot
<1>6. EventPhase' /\ SlotPhase'
    BY <1>1, <1>2, <1>4 DEF EventPhase, SlotPhase
<1>7. ReplyPhase'
    BY <1>1, <1>2 DEF PhaseInv, ReplyPhase
<1>8. count \in Int /\ Ids \subseteq Int
    BY RequestsAssumption DEF Ids, TypeInv, TypeOK
<1>9. AnswerInv'
  <2>1. \A id \in Ids : id > count' => answers'[id] = 0
      BY <1>1, <1>8 DEF PhaseInv, AnswerInv
  <2>2. m_bStart' /\ ~lost' => \A id \in accepted' :
           answers'[id] = 1 \/ <<"request", id>> \in refused'
      BY <1>1, <1>4 DEF PhaseInv, AnswerInv
  <2> QED
      BY <2>1, <2>2 DEF AnswerInv
<1>10. RequestPhase'
  <2>1. request'[c].id = count' /\ request'[c].kind = kind
      BY <1>1 DEF TypeInv, TypeOK
  <2>2. answers'[count'] = 0
      BY <1>1, <1>8 DEF PhaseInv, AnswerInv
  <2> QED
      BY <1>1, <1>2, <1>3, <1>4, <1>h, <2>1, <2>2 DEF RequestPhase
<1> QED
    BY <1>5, <1>6, <1>7, <1>9, <1>10 DEF PhaseInv

LEMMA PhaseExit ==
    ASSUME TypeInv, PhaseInv, NEW t \in Threads, ExitTask(t)
    PROVE  PhaseInv'
<1> USE DEF flagVars, fileVars, loopVars, historyVars
<1>1. /\ todo[t] = <<>> /\ crashed' = crashed
      /\ todo' = [todo EXCEPT ![t] = ExitStatements]
      /\ UNCHANGED <<m_bStart, m_bWork, m_yState, m_pVar, updates, replies, listening, count,
                     answers, accepted, refused, lost, request, replied>>
    BY DEF ExitTask, Begins, AtRest, Idle
<1>2. ExitStatements \in Seq(ExitSet) /\ <<>> \in Seq(ExitSet)
    BY SlotsTyped
<1>3. \A c \in Callers : todo'[c] \in RequestTails => todo'[c] = todo[c]
    BY <1>1, <1>2, RequestTailHeads DEF Threads, TypeInv, TypeOK
<1>4. \/ todo'["http"] = todo["http"]
      \/ /\ todo["http"] \in Seq(ExitSet) /\ todo'["http"] \in Seq(ExitSet)
         /\ m_bStart' => todo'["http"] \in {<<>>, ExitStatements}
    BY <1>1, <1>2 DEF Threads, TypeInv, TypeOK
<1>5. crashed' # "var"
    BY <1>1 DEF PhaseInv, VarOwned
<1> QED
    BY <1>1, <1>3, <1>4, <1>5, PhaseFrame

(* An event is for the last request, and there is one; its reply is the only one.            *)
LEMMA PhaseSends ==
    ASSUME TypeInv, PhaseInv, NEW kind, InitHttpRequest(kind)
    PROVE  PhaseInv'
<1> USE DEF flagVars, fileVars, loopVars, historyVars
<1>0. Update(kind) /\ listening' = TRUE /\ Sends("request") /\ UNCHANGED <<m_pFile, todo>>
    BY Zenon DEF InitHttpRequest
<1>1. /\ updates > 0 /\ updates' = updates - 1 /\ todo["http"] = <<>> /\ UNCHANGED todo
      /\ UNCHANGED <<m_bStart, m_bWork, m_yState, m_pVar, crashed, request, replied, count, lost,
                     accepted, refused, answers>>
    BY <1>0 DEF Update, AtRest, Idle
<1>2. updates = 1 /\ ~InFlight("request") /\ ~InSlot /\ Current
    BY <1>1 DEF PhaseInv, EventPhase
<1>3. \A c \in Callers : todo[c] \notin RequestTails
    BY <1>1 DEF PhaseInv, RequestPhase
<1>4. updates' = 0 /\ ~InSlot' /\ Current' /\ ~Answering /\ ~Answering'
    BY <1>1, <1>2 DEF InSlot, Current, Answering
<1>5. \A id \in Ids : /\ replies'[<<"download", id>>] = replies[<<"download", id>>]
                      /\ replies'[<<"request", id>>] = IF id = count THEN 1 ELSE 0
  <2>1. replies \in [Waiting \X Ids -> Nat] /\ m_pVar = count /\ count \in Ids
        /\ \A id \in Ids : replies[<<"request", id>>] = 0
    <3>1. \A id \in Ids : replies[<<"request", id>>] \in Nat /\ ~(replies[<<"request", id>>] > 0)
        BY <1>2 DEF InFlight, TypeInv, TypeOK, Waiting
    <3> QED
        BY <1>2, <3>1 DEF Current, TypeInv, TypeOK
  <2>2. replies' = [replies EXCEPT ![<<"request", count>>] = replies[<<"request", count>>] + 1]
      BY <1>0, <2>1, Zenon DEF Sends
  <2>3. \A r \in Waiting \X Ids : r # <<"request", count>> => replies'[r] = replies[r]
      BY <2>1, <2>2
  <2>4. \A id \in Ids : /\ <<"download", id>> \in Waiting \X Ids
                        /\ <<"request", id>> \in Waiting \X Ids
      BY DEF Waiting
  <2>5. replies'[<<"request", count>>] = 1
    <3>1. replies'[<<"request", count>>] = replies[<<"request", count>>] + 1
        BY <2>1, <2>2, <2>4
    <3> QED
        BY <2>1, <3>1
  <2>6. \A id \in Ids : replies'[<<"download", id>>] = replies[<<"download", id>>]
      BY <2>3, <2>4
  <2>7. \A id \in Ids : id # count => replies'[<<"request", id>>] = replies[<<"request", id>>]
      BY <2>3, <2>4
  <2> QED
      BY <2>1, <2>5, <2>6, <2>7
<1>6. HttpShape' /\ HttpExit' /\ VarOwned'
    BY <1>1 DEF PhaseInv, HttpShape, HttpExit, ExitShape, VarOwned, InSlot
<1>7. RequestPhase' /\ EventPhase' /\ SlotPhase'
    BY <1>1, <1>3, <1>4 DEF RequestPhase, EventPhase, SlotPhase
<1>8. ReplyPhase'
  <2>1. todo'["http"] \in Seq(ExitSet)
    <3>1. <<>> \in Seq(ExitSet)
        OBVIOUS
    <3> QED
        BY <1>1, <3>1
  <2>2. \A id \in Ids : replies'[<<"download", id>>] = 0
      BY <1>5 DEF PhaseInv, ReplyPhase
  <2>3. ASSUME NEW id \in Ids, replies'[<<"request", id>>] > 0
        PROVE  id = count' /\ replies'[<<"request", id>>] = 1
    <3>1. replies'[<<"request", id>>] = IF id = count THEN 1 ELSE 0
        BY <1>5
    <3>2. id = count
        BY <2>3, <3>1
    <3> QED
        BY <1>1, <3>1, <3>2
  <2> QED
      BY <1>0, <1>4, <2>1, <2>2, <2>3, Zenon DEF ReplyPhase
<1>9. AnswerInv'
  <2>1. Open'
    <3>1. count \in Ids
        BY DEF TypeInv, TypeOK
    <3>2. replies'[<<"request", count>>] = 1
        BY <1>5, <3>1
    <3>3. replies'[<<"request", count>>] > 0
        BY <3>2
    <3> QED
        BY <3>1, <3>3, Zenon DEF Open, InFlight
  <2> QED
      BY <1>1, <2>1 DEF PhaseInv, AnswerInv
<1> QED
    BY <1>6, <1>7, <1>8, <1>9 DEF PhaseInv

LEMMA PhaseThread ==
    ASSUME TypeInv, PhaseInv, OneCaller, Thread
    PROVE  PhaseInv'
<1> USE DEF flagVars, fileVars, loopVars, historyVars
<1>1. CASE Connects
    BY <1>1, PhaseFrame DEF Connects, PhaseInv, VarOwned
<1>2. CASE RunEnds
  <2>1. /\ m_bStart' = FALSE /\ listening' = FALSE /\ todo["http"] = <<>>
        /\ UNCHANGED <<m_bWork, m_yState, m_pVar, crashed, todo, request, replied, updates, count,
                       lost, accepted, refused, answers>>
      BY <1>2 DEF RunEnds, AtRest, Idle
  <2>2. \A id \in Ids : replies'[<<"request", id>>] = 0 /\ replies'[<<"download", id>>] = 0
      BY <1>2 DEF RunEnds, Waiting
  <2>3. ~InSlot /\ ~InSlot' /\ ~InFlight("request")'
    <3>1. <<>> \notin SlotTails
      <4>1. <<>> \in Seq(ExitSet)
          OBVIOUS
      <4> QED
          BY <4>1, ExitNoSlot
    <3>2. \A id \in Ids : ~(replies'[<<"request", id>>] > 0)
      <4>1. ~(0 > 0)
          OBVIOUS
      <4> QED
          BY <2>2, <4>1, Zenon
    <3> QED
        BY <2>1, <3>1, <3>2, Zenon DEF InSlot, InFlight
  <2>4. HttpShape' /\ HttpExit' /\ VarOwned'
      BY <2>1 DEF PhaseInv, HttpShape, HttpExit, VarOwned, InSlot
  <2>5. RequestPhase' /\ EventPhase' /\ SlotPhase'
      BY <2>1, <2>3 DEF PhaseInv, RequestPhase, EventPhase, SlotPhase, Current
  <2>6. ReplyPhase'
    <3>1. ~(0 > 0)
        OBVIOUS
    <3> QED
        BY <2>2, <3>1, Zenon DEF ReplyPhase
  <2>7. AnswerInv'
      BY <2>1 DEF PhaseInv, AnswerInv
  <2> QED
      BY <2>4, <2>5, <2>6, <2>7 DEF PhaseInv
<1>3. ASSUME NEW state, state \notin Kinds, Update(state) PROVE FALSE
  <2>1. updates > 0 /\ m_yState = state
      BY <1>3 DEF Update
  <2> QED
      BY <1>3, <2>1 DEF PhaseInv, EventPhase, Current
<1>4. CASE InitHttpDownLoad \/ UpdateWithoutState
  <2>1. "DOWNLOAD" \notin Kinds /\ "NONE" \notin Kinds
      BY KindsAssumption DEF OneCaller, RequestKinds
  <2> QED
      BY <1>3, <1>4, <2>1 DEF InitHttpDownLoad, UpdateWithoutState
<1> QED
    BY <1>1, <1>2, <1>4, PhaseSends, PhaseHttp
    DEF Thread, InitHttpGet, InitHttpPost, InitHttpMultiPartPost

(* The reply ends, well or not.                                                              *)
LEMMA PhaseEnds ==
    ASSUME TypeInv, PhaseInv, NEW id \in Ids, NEW s \in {ReplySlot, SslErrorsSlot},
           Ends("request", id, s),
           \/ s = ReplySlot /\ refused' = refused
           \/ s = SslErrorsSlot /\ refused' = refused \cup {<<"request", id>>}
    PROVE  PhaseInv'
<1> USE DEF flagVars, fileVars, loopVars, historyVars
<1>1. /\ replies[<<"request", id>>] > 0 /\ todo["http"] = <<>> /\ replied' = id
      /\ replies' = [replies EXCEPT ![<<"request", id>>] = @ - 1]
      /\ todo' = [todo EXCEPT !["http"] = s]
      /\ UNCHANGED <<m_bStart, m_bWork, m_yState, m_pVar, crashed, request, updates, listening,
                     count, lost, accepted, answers>>
    BY DEF Ends, Begins, AtRest, Idle
<1>2. id = count /\ replies[<<"request", id>>] = 1 /\ listening /\ Current
    BY <1>1 DEF PhaseInv, ReplyPhase
<1>3. InFlight("request")
    BY <1>1 DEF InFlight
<1>4. /\ updates' = 0 /\ \A c \in Callers : todo'[c] \notin RequestTails
  <2>1. updates = 0
      BY <1>3 DEF PhaseInv, EventPhase, TypeInv, TypeOK
  <2>2. \A c \in Callers : todo'[c] = todo[c]
      BY <1>1, CallersAssumption DEF TypeInv, TypeOK, Threads
  <2> QED
      BY <1>1, <1>3, <2>1, <2>2 DEF PhaseInv, RequestPhase
<1>5. \A i \in Ids : replies'[<<"download", i>>] = 0 /\ replies'[<<"request", i>>] = 0
  <2>1. replies \in [Waiting \X Ids -> Nat]
      BY DEF TypeInv, TypeOK
  <2>2. \A r \in Waiting \X Ids : replies'[r] = IF r = <<"request", id>> THEN 0 ELSE replies[r]
      BY <1>1, <1>2, <2>1
  <2>3. \A i \in Ids : /\ <<"download", i>> \in Waiting \X Ids
                       /\ <<"request", i>> \in Waiting \X Ids
                       /\ i # id => ~(replies[<<"request", i>>] > 0)
                       /\ replies[<<"download", i>>] = 0
      BY <1>2 DEF PhaseInv, ReplyPhase, Waiting
  <2> TAKE i \in Ids
  <2>4. replies'[<<"download", i>>] = 0
      BY <2>2, <2>3
  <2>5. CASE i = id
      BY <2>2, <2>3, <2>4, <2>5
  <2>6. CASE i # id
    <3>1. replies'[<<"request", i>>] = replies[<<"request", i>>]
        BY <2>2, <2>3, <2>6
    <3>2. replies[<<"request", i>>] \in Nat /\ ~(replies[<<"request", i>>] > 0)
        BY <2>1, <2>3, <2>6
    <3> QED
        BY <2>4, <3>1, <3>2
  <2> QED
      BY <2>5, <2>6
<1>6. /\ s = ReplySlot => s = <<"reply", "none", "unset", "work", "disconnect">>
      /\ todo'["http"] = s /\ s \in SlotTails
  <2>1. ReplySlot = <<"reply", "none", "unset", "work", "disconnect">>
      BY <1>2, Zenon DEF ReplySlot
  <2>2. todo'["http"] = s
      BY <1>1 DEF TypeInv, TypeOK, Threads
  <2> QED
      BY <2>1, <2>2 DEF SslErrorsSlot, SlotTails
<1>7. InSlot' /\ ~InFlight("request")' /\ (s = ReplySlot => Answering')
  <2>1. InSlot' /\ (s = ReplySlot => Answering')
      BY <1>6 DEF InSlot, Answering
  <2>2. ~(0 > 0)
      OBVIOUS
  <2> QED
      BY <1>5, <2>1, <2>2, Zenon DEF InFlight
<1>8. HttpShape' /\ HttpExit' /\ VarOwned'
    BY <1>1, <1>6, ExitNoSlot DEF PhaseInv, HttpShape, HttpExit, ExitShape, VarOwned, InSlot
<1>9. RequestPhase' /\ EventPhase' /\ ReplyPhase'
    BY <1>4, <1>5 DEF RequestPhase, EventPhase, ReplyPhase
<1>10. Current' /\ SlotPhase'
    BY <1>1, <1>2 DEF SlotPhase, Current
<1>11. AnswerInv'
  <2>1. CASE s = ReplySlot /\ refused' = refused
    <3>1. Open'
        BY <1>7, <2>1 DEF Open
    <3> QED
        BY <1>1, <2>1, <3>1 DEF PhaseInv, AnswerInv
  <2>2. CASE s = SslErrorsSlot /\ refused' = refused \cup {<<"request", id>>}
      BY <1>1, <1>2, <2>2 DEF PhaseInv, AnswerInv
  <2> QED
      BY <2>1, <2>2
<1> QED
    BY <1>8, <1>9, <1>10, <1>11 DEF PhaseInv

LEMMA PhaseNetwork ==
    ASSUME TypeInv, PhaseInv, Network
    PROVE  PhaseInv'
<1>1. ASSUME NEW id \in Ids, RequestFinished(id) PROVE PhaseInv'
    BY <1>1, PhaseEnds DEF RequestFinished
<1>2. ASSUME NEW id \in Ids, SslErrors("request", id) PROVE PhaseInv'
    BY <1>2, PhaseEnds DEF SslErrors
<1>3. ASSUME NEW id \in Ids, replies[<<"download", id>>] > 0 PROVE PhaseInv'
  <2>1. replies[<<"download", id>>] = 0
      BY DEF PhaseInv, ReplyPhase
  <2> QED
      BY <1>3, <2>1
<1> QED
    BY <1>1, <1>2, <1>3
    DEF Network, DownLoadFinished, DownLoadFailed, SslErrors, Ends, httpDownReadyRead, Waiting

(* While the caller assigns m_pVar, the thread has no event and no reply to read it for.     *)
LEMMA NoRace ==
    ASSUME TypeInv, PhaseInv, OneCaller
    PROVE  ~RaceOnVar
<1> SUFFICES ASSUME VarShared PROVE FALSE
    BY DEF RaceOnVar
<1>h. Callers \subseteq Threads /\ "http" \in Threads
    BY DEF Threads
<1>1. PICK c \in Callers :
        /\ At(c, "var")
        /\ \/ At("http", "unset") \/ At("http", "finished")
           \/ AtRest /\ updates > 0 /\ m_yState \in RequestKinds
           \/ \E d \in Callers \ {c} : At(d, "var")
    BY DEF VarShared
<1>2. todo[c] \in RequestTails
    BY <1>1, <1>h, AtFacts DEF CallStatements
<1>3. updates = 0 /\ ~InSlot
    BY <1>2 DEF PhaseInv, RequestPhase
<1>4. ASSUME NEW statement \in {"unset", "finished"}, At("http", statement) PROVE FALSE
  <2>1. todo["http"] # <<>> /\ Head(todo["http"]) = statement
      BY <1>4, <1>h, AtFacts
  <2>2. CASE todo["http"] \in Seq(ExitSet)
    <3>1. Head(todo["http"]) \in ExitSet
        BY <2>1, <2>2
    <3> QED
        BY <2>1, <3>1 DEF ExitSet
  <2>3. CASE todo["http"] = <<"disconnect">>
      BY <2>1, <2>3
  <2> QED
      BY <1>3, <2>2, <2>3 DEF PhaseInv, HttpShape
<1> QED
    BY <1>1, <1>3, <1>4 DEF OneCaller

LEMMA PhaseStep ==
    ASSUME TypeInv, CallersExit, PhaseInv, OneCaller, [Next]_vars
    PROVE  PhaseInv'
<1>1. CASE Terminated \/ UNCHANGED vars
    BY <1>1, PhaseFrame
    DEF Terminated, vars, flagVars, fileVars, loopVars, historyVars, PhaseInv, VarOwned
<1> QED
    BY <1>1, PhaseRequest, PhaseExit, PhaseCaller, PhaseThread, PhaseNetwork, NoRace DEF Next, Calls

LEMMA PhaseInvariant ==
    ASSUME OneCaller
    PROVE  Spec => [](AnswerCurrent /\ NoneForgotten /\ VarOwned)
<1>1. Init => TypeInv /\ CallersExit /\ PhaseInv
    BY TypeInit, CallersExitInit, PhaseInit
<1>2. TypeInv /\ CallersExit /\ PhaseInv /\ [Next]_vars
        => TypeInv' /\ CallersExit' /\ PhaseInv'
    BY TypeStep, CallersExitStep, PhaseStep
<1>3. TypeInv /\ PhaseInv => AnswerCurrent /\ NoneForgotten /\ VarOwned
    BY PhaseInvImplies
<1> QED
    BY <1>1, <1>2, <1>3, PTL DEF Spec

(* One caller that makes gets and posts: when its request is answered, the parameters and    *)
(* the flags are still those of that request, unless the object has been told to exit.       *)
THEOREM AnswerCorrect ==
    ASSUME OneCaller
    PROVE  Spec => []AnswerCurrent
<1> QED
    BY PhaseInvariant, PTL

(* No request of such a caller is forgotten: before the object takes the next one, it has    *)
(* answered it once, or the request has failed with SSL errors.                              *)
THEOREM NoneForgottenCorrect ==
    ASSUME OneCaller
    PROVE  Spec => []NoneForgotten
<1> QED
    BY PhaseInvariant, PTL

(* Such a caller never assigns the parameters while the thread reads or clears them.         *)
THEOREM VarCorrect ==
    ASSUME OneCaller
    PROVE  Spec => []VarOwned
<1> QED
    BY PhaseInvariant, PTL
=============================================================================
