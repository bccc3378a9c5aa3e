----------------------------- MODULE HttpClient -----------------------------
(***************************************************************************)
(* QCatGrayNetWorkHttp: a thread with an event loop that makes one HTTP    *)
(* request at a time for the threads that call it.  The object lives in    *)
(* its own thread (moveToThread(this)), so its slots run there.            *)
(*                                                                         *)
(* The callers and the thread, "http", share the object without a lock:    *)
(* each of them executes the statements of the function it is in one at a  *)
(* time.  The network is external: a reply finishes, well or not, or       *)
(* reports SSL errors, at any time.  With Qt 5 a download that fails emits *)
(* error() and then finished(), with no event in between.                  *)
(***************************************************************************)
EXTENDS Integers, Sequences, FiniteSets

CONSTANTS
    Callers,      \* the threads that call the object
    Kinds,        \* what they ask for
    MaxRequests   \* bound: requests that pass the test of m_bStart and m_bWork

RequestKinds == {"DOWNLOAD", "HTTPGET", "HTTPPOST", "HTTPMULTIPARTPOST"}

ASSUME CallersAssumption == "http" \notin Callers
ASSUME KindsAssumption == Kinds \subseteq RequestKinds
ASSUME RequestsAssumption == MaxRequests \in Nat

VARIABLES
    m_bStart, m_bWork, m_yState,
    m_pVar,      \* the request whose parameters it holds, or 0
    m_pFile,     \* the file it points to, or 0
    open,        \* the files that are open
    crashed,     \* undefined behaviour has ended the program, and where
    todo,        \* the statements each thread has yet to execute
    request,     \* the request each caller is making, and its kind
    pc,          \* where run() is
    replied,     \* the request of the reply whose slots run
    updates,     \* UpdateHttpState events in the thread's queue
    listening,   \* the manager's finished and sslErrors are connected
    replies,     \* replies in flight: by what waits for them and by request
    quitting,    \* quit() has been called
    count,       \* history: requests so far
    lost,        \* history: UpdateHttpState was emitted to nobody
    raced,       \* history: a request was taken while another was on its way or being ended
    accepted,    \* history: requests whose call returned NORMAL
    refused,     \* history: requests that ended in SSL errors, which are not reported
    answers      \* history: how often each request has been answered

flagVars    == <<m_bStart, m_bWork, m_yState, m_pVar>>
fileVars    == <<m_pFile, open, crashed>>
loopVars    == <<pc, replied, updates, listening, replies, quitting>>
historyVars == <<count, lost, raced, accepted, refused, answers>>
vars == <<flagVars, fileVars, todo, request, loopVars, historyVars>>

Threads == Callers \cup {"http"}
Ids == 0..MaxRequests
Files == 1..MaxRequests
Waiting == {"download", "request"}
NoRequest == [id |-> 0, kind |-> "HTTPGET"]

(* set m_bWork and check the arguments, fill m_pVar, set m_yState and emit UpdateHttpState;  *)
(* clear m_yState, m_bWork, m_pVar, m_bStart; test m_pFile, close it, write to it;           *)
(* the switch of httpError; the signals; disconnect the manager; quit and wait.              *)
Statements == {"busy", "check", "var", "state", "emit", "none", "work", "unset", "stop",
               "file", "closing", "write", "switch", "reply", "finished", "error", "posterror",
               "disconnect", "quit", "wait"}

TypeOK ==
    /\ m_bStart \in BOOLEAN /\ m_bWork \in BOOLEAN
    /\ m_pFile \in Files \cup {0} /\ open \subseteq Files
    /\ m_yState \in RequestKinds \cup {"NONE"}
    /\ m_pVar \in Ids /\ replied \in Ids /\ count \in Ids
    /\ crashed \in {"no", "file", "var"}
    /\ todo \in [Threads -> Seq(Statements)]
    /\ request \in [Callers -> [id : Ids, kind : RequestKinds]]
    /\ pc \in {"begin", "loop", "finished"}
    /\ updates \in Nat
    /\ replies \in [Waiting \X Ids -> Nat]
    /\ listening \in BOOLEAN /\ quitting \in BOOLEAN /\ lost \in BOOLEAN /\ raced \in BOOLEAN
    /\ accepted \subseteq Ids
    /\ refused \subseteq Waiting \X Ids
    /\ answers \in [Ids -> Nat]

(* The constructor, which starts the thread. *)
Init ==
    /\ m_bStart = TRUE /\ m_bWork = FALSE /\ m_yState = "NONE" /\ m_pVar = 0
    /\ m_pFile = 0 /\ open = {} /\ crashed = "no"
    /\ todo = [t \in Threads |-> <<>>]
    /\ request = [c \in Callers |-> NoRequest]
    /\ pc = "begin" /\ replied = 0 /\ updates = 0
    /\ listening = FALSE /\ quitting = FALSE
    /\ replies = [r \in Waiting \X Ids |-> 0]
    /\ count = 0 /\ lost = FALSE /\ raced = FALSE /\ accepted = {} /\ refused = {}
    /\ answers = [id \in Ids |-> 0]

-----------------------------------------------------------------------------
(* What the threads begin.                                                 *)

Idle(t) == crashed = "no" /\ todo[t] = <<>>
AtRest == pc = "loop" /\ Idle("http")
Begins(t, statements) == todo' = [todo EXCEPT ![t] = statements]
Pending(t, statements) == \E i \in DOMAIN todo[t] : todo[t][i] \in statements

(* Another call has passed the test and not yet set m_bWork or told the thread, or the      *)
(* thread has yet to clear the m_bWork of the request before.                               *)
Overlaps(c) == Pending("http", {"work"}) \/ \E d \in Callers \ {c} : Pending(d, {"emit"})

(* DownLoad, HttpGet and the two HttpPost: the same statements but for the parameters. A    *)
(* call that finds m_bStart && !m_bWork to be false does nothing.                           *)
Request(c, kind) ==
    /\ Idle(c)
    /\ m_bStart
    /\ ~m_bWork
    /\ count < MaxRequests
    /\ count' = count + 1
    /\ request' = [request EXCEPT ![c] = [id |-> count', kind |-> kind]]
    /\ Begins(c, <<"busy", "check", "var", "state", "emit">>)
    /\ raced' = (raced \/ Overlaps(c))
    /\ UNCHANGED <<flagVars, fileVars, loopVars, lost, accepted, refused, answers>>

(* Mutant: m_bStart is cleared last, as run() also does. *)
ExitStatementsStopLast == <<"work", "file", "stop", "quit">>

(* Mutant: the event loop is not told to quit. *)
ExitStatementsNoQuit == <<"stop", "work", "file", "wait">>

(* The destructor has the same statements but the signal. *)
ExitStatements == <<"stop", "work", "file", "quit">>

(* Called in another thread, or invoked as a slot in this one. *)
ExitTask(t) ==
    /\ IF t = "http" THEN AtRest ELSE Idle(t)
    /\ Begins(t, ExitStatements)
    /\ UNCHANGED <<flagVars, fileVars, request, loopVars, historyVars>>

(* run() up to exec(). *)
Connects ==
    /\ crashed = "no"
    /\ pc = "begin"
    /\ pc' = "loop"
    /\ UNCHANGED <<flagVars, fileVars, todo, request, replied, updates, listening, replies,
                   quitting, historyVars>>

(* exec() returns; the manager is deleted, and its replies with it. *)
RunEnds ==
    /\ AtRest
    /\ quitting
    /\ pc' = "finished"
    /\ m_bStart' = FALSE
    /\ listening' = FALSE
    /\ replies' = [r \in Waiting \X Ids |-> 0]
    /\ UNCHANGED <<m_bWork, m_yState, m_pVar, fileVars, todo, request, replied, updates, quitting,
                   historyVars>>

(* The next UpdateHttpState event finds m_yState to be `state'. *)
Update(state) ==
    /\ AtRest
    /\ updates > 0
    /\ m_yState = state
    /\ updates' = updates - 1
    /\ UNCHANGED <<flagVars, crashed, request, pc, replied, quitting, historyVars>>

Sends(waiting) == replies' = [replies EXCEPT ![<<waiting, m_pVar>>] = @ + 1]

(* m_pFile points to a new file, whatever it pointed to before.  The file is opened, or is   *)
(* not, which nobody is told.                                                               *)
InitHttpDownLoad ==
    /\ Update("DOWNLOAD")
    /\ m_pFile' \in Files \ open
    /\ \A f \in Files : f < m_pFile' => f \in open
    /\ \/ Sends("download") /\ open' = open \cup {m_pFile'} /\ UNCHANGED todo
       \/ Begins("http", <<"work", "closing">>) /\ UNCHANGED <<open, replies>>
    /\ UNCHANGED listening

InitHttpRequest(kind) ==
    /\ Update(kind)
    /\ listening' = TRUE
    /\ Sends("request")
    /\ UNCHANGED <<m_pFile, open, todo>>

InitHttpGet           == InitHttpRequest("HTTPGET")
InitHttpPost          == InitHttpRequest("HTTPPOST")
InitHttpMultiPartPost == InitHttpRequest("HTTPMULTIPARTPOST")

UpdateWithoutState ==
    /\ Update("NONE")
    /\ Begins("http", <<"none", "work">>)
    /\ UNCHANGED <<m_pFile, open, listening, replies>>

-----------------------------------------------------------------------------
(* The slots of the replies.                                               *)

(* Mutant: the parameters are cleared after the busy flag. *)
ReplySlotVarLast == IF listening THEN <<"reply", "none", "work", "unset", "disconnect">> ELSE <<>>

(* Mutant: m_yState is cleared after the busy flag. *)
ReplySlotStateLast == IF listening THEN <<"reply", "unset", "work", "none", "disconnect">> ELSE <<>>

(* Mutant: the answer is given after the flags have been cleared. *)
ReplySlotAnswersLast == IF listening THEN <<"none", "unset", "work", "disconnect", "reply">> ELSE <<>>

(* The manager's finished(), if it is connected. *)
ReplySlot == IF listening THEN <<"reply", "none", "unset", "work", "disconnect">> ELSE <<>>

(* Mutant: the busy flag is not cleared. *)
SslErrorsSlotKeepsWork == <<"none", "unset", "disconnect">>

(* The manager's sslErrors(): the reply is deleted before it can finish. *)
SslErrorsSlot == <<"none", "unset", "work", "disconnect">>

(* Mutant: the file is left open. *)
httpDownFinishedNoFile == <<"none", "work", "finished", "unset">>

httpDownFinished == <<"file", "none", "work", "finished", "unset">>

httpError == <<"switch", "none", "work", "unset">>

Ends(waiting, id, statements) ==
    /\ AtRest
    /\ replies[<<waiting, id>>] > 0
    /\ replies' = [replies EXCEPT ![<<waiting, id>>] = @ - 1]
    /\ replied' = id
    /\ Begins("http", statements)
    /\ UNCHANGED <<flagVars, fileVars, request, pc, updates, listening, quitting, count, lost,
                   raced, accepted, answers>>

(* A reply to a get or a post, with data or with an error. *)
RequestFinished(id) == Ends("request", id, ReplySlot) /\ UNCHANGED refused

DownLoadFinished(id) == Ends("download", id, ReplySlot \o httpDownFinished) /\ UNCHANGED refused

DownLoadFailed(id) ==
    Ends("download", id, httpError \o ReplySlot \o httpDownFinished) /\ UNCHANGED refused

SslErrors(waiting, id) ==
    /\ listening
    /\ Ends(waiting, id, SslErrorsSlot)
    /\ refused' = refused \cup {<<waiting, id>>}

httpDownReadyRead(id) ==
    /\ AtRest
    /\ replies[<<"download", id>>] > 0
    /\ m_pFile # 0
    /\ Begins("http", <<"write">>)
    /\ UNCHANGED <<flagVars, fileVars, request, loopVars, historyVars>>

-----------------------------------------------------------------------------
(* The statements.                                                         *)

At(t, statement) == ~Idle(t) /\ crashed = "no" /\ Head(todo[t]) = statement

(* It is executed, and the ones in `next' come before those that are left. *)
Then(t, statement, next) ==
    /\ At(t, statement)
    /\ todo' = [todo EXCEPT ![t] = next \o Tail(@)]

Does(t, statement) == Then(t, statement, <<>>)

(* The writes of one word that any thread makes. *)
SetsFlag(t) ==
    /\ \/ Does(t, "busy") /\ m_bWork' = TRUE /\ UNCHANGED <<m_bStart, m_yState, m_pVar>>
       \/ Does(t, "work") /\ m_bWork' = FALSE /\ UNCHANGED <<m_bStart, m_yState, m_pVar>>
       \/ Does(t, "none") /\ m_yState' = "NONE" /\ UNCHANGED <<m_bStart, m_bWork, m_pVar>>
       \/ Does(t, "unset") /\ m_pVar' = 0 /\ UNCHANGED <<m_bStart, m_bWork, m_yState>>
       \/ Does(t, "stop") /\ m_bStart' = FALSE /\ UNCHANGED <<m_bWork, m_yState, m_pVar>>
    /\ UNCHANGED <<fileVars, request, loopVars, historyVars>>

(* The directory cannot be made, or the URL is empty. *)
Refuses(c) ==
    /\ At(c, "check")
    /\ m_bWork' = FALSE
    /\ request' = [request EXCEPT ![c] = NoRequest]
    /\ Begins(c, <<>>)
    /\ UNCHANGED <<m_bStart, m_yState, m_pVar, fileVars, loopVars, historyVars>>

Proceeds(c) ==
    /\ Does(c, "check")
    /\ UNCHANGED <<flagVars, fileVars, request, loopVars, historyVars>>

SetsVar(c) ==
    /\ Does(c, "var")
    /\ m_pVar' = request[c].id
    /\ UNCHANGED <<m_bStart, m_bWork, m_yState, fileVars, request, loopVars, historyVars>>

SetHttpState(c) ==
    /\ Does(c, "state")
    /\ m_yState' = request[c].kind
    /\ UNCHANGED <<m_bStart, m_bWork, m_pVar, fileVars, request, loopVars, historyVars>>

(* emit UpdateHttpState(): an event for the thread, if run() has connected it by now. *)
UpdateHttpState(c) ==
    /\ Does(c, "emit")
    /\ updates' = IF pc = "begin" THEN updates ELSE updates + 1
    /\ lost' = (lost \/ pc = "begin")
    /\ accepted' = accepted \cup {request[c].id}
    /\ request' = [request EXCEPT ![c] = NoRequest]
    /\ UNCHANGED <<flagVars, fileVars, pc, replied, listening, replies, quitting, count, raced,
                   refused, answers>>

TestsFile(t) ==
    /\ Then(t, "file", IF m_pFile # 0 THEN <<"closing">> ELSE <<>>)
    /\ UNCHANGED <<flagVars, fileVars, request, loopVars, historyVars>>

(* m_pFile->flush() and the rest, or m_pFile->write(): another thread may have closed the   *)
(* file by now, and the pointer is null.                                                    *)
UsesFile(t) ==
    /\ \/ Does(t, "closing") /\ m_pFile' = 0 /\ open' = open \ {m_pFile}
       \/ Does(t, "write") /\ UNCHANGED <<m_pFile, open>>
    /\ crashed' = IF m_pFile = 0 THEN "file" ELSE crashed
    /\ UNCHANGED <<flagVars, request, loopVars, historyVars>>

(* httpError: for a download the file is closed and DownLoadError emitted; for a post, which *)
(* another call must have brought about by now, HttpPostError.                              *)
Switch(t) ==
    /\ Then(t, "switch", CASE m_yState = "DOWNLOAD" -> <<"file", "error">>
                           [] m_yState = "HTTPPOST" -> <<"posterror">>
                           [] OTHER -> <<>>)
    /\ UNCHANGED <<flagVars, fileVars, request, loopVars, historyVars>>

(* ReplyDataed or NetWorkError, and DownLoadError, are for the request of the reply;        *)
(* DownLoadFinished names the file of the request that m_pVar holds, and HttpPostError,     *)
(* which names nothing, is taken to be for that request.                                    *)
Answers(t) ==
    /\ \/ (Does(t, "reply") \/ Does(t, "error")) /\ answers' = [answers EXCEPT ![replied] = @ + 1]
       \/ /\ Does(t, "finished") \/ Does(t, "posterror")
          /\ answers' = [answers EXCEPT ![m_pVar] = @ + 1]
    /\ UNCHANGED <<flagVars, fileVars, request, loopVars, count, lost, raced, accepted, refused>>

Disconnects(t) ==
    /\ Does(t, "disconnect")
    /\ listening' = FALSE
    /\ UNCHANGED <<flagVars, fileVars, request, pc, replied, updates, replies, quitting,
                   historyVars>>

(* if(isRunning()) quit() and wait(): exec() remembers a quit() it has yet to be called for. *)
Quits(t) ==
    /\ Then(t, "quit", IF pc = "finished" THEN <<>> ELSE <<"wait">>)
    /\ quitting' = (quitting \/ pc # "finished")
    /\ UNCHANGED <<flagVars, fileVars, request, pc, replied, updates, listening, replies,
                   historyVars>>

(* A thread that waits for itself does not. *)
Waits(t) ==
    /\ Does(t, "wait")
    /\ t = "http" \/ pc = "finished"
    /\ UNCHANGED <<flagVars, fileVars, request, loopVars, historyVars>>

(* A caller assigns m_pVar, a QVariant, while the thread reads or clears it, or while        *)
(* another caller assigns it: besides one before the other, the program may crash.           *)
VarShared == \E c \in Callers :
    /\ At(c, "var")
    /\ \/ At("http", "unset") \/ At("http", "finished")
       \/ AtRest /\ updates > 0 /\ m_yState \in RequestKinds
       \/ \E d \in Callers \ {c} : At(d, "var")

RaceOnVar ==
    /\ VarShared
    /\ crashed' = "var"
    /\ UNCHANGED <<flagVars, m_pFile, open, todo, request, loopVars, historyVars>>

-----------------------------------------------------------------------------

Statement(t) ==
    \/ SetsFlag(t)
    \/ TestsFile(t)
    \/ UsesFile(t)
    \/ Switch(t)
    \/ Answers(t)
    \/ Disconnects(t)
    \/ Quits(t)
    \/ Waits(t)

CallerStatement(c) ==
    \/ Statement(c)
    \/ Refuses(c)
    \/ Proceeds(c)
    \/ SetsVar(c)
    \/ SetHttpState(c)
    \/ UpdateHttpState(c)

Thread ==
    \/ Connects
    \/ RunEnds
    \/ InitHttpDownLoad
    \/ InitHttpGet
    \/ InitHttpPost
    \/ InitHttpMultiPartPost
    \/ UpdateWithoutState
    \/ Statement("http")

Network == \E id \in Ids :
    \/ RequestFinished(id)
    \/ DownLoadFinished(id)
    \/ DownLoadFailed(id)
    \/ httpDownReadyRead(id)
    \/ \E waiting \in Waiting : SslErrors(waiting, id)

Calls ==
    \/ \E c \in Callers, kind \in Kinds : Request(c, kind)
    \/ \E t \in Threads : ExitTask(t)

Terminated == crashed # "no" /\ UNCHANGED vars

Next ==
    \/ Calls
    \/ \E c \in Callers : CallerStatement(c)
    \/ Thread
    \/ Network
    \/ RaceOnVar
    \/ Terminated

Spec == Init /\ [][Next]_vars

(* The thread and the callers are scheduled, and the event loop looks again and again       *)
(* whether it has been told to quit; the network owes nothing.                              *)
FairSpec ==
    /\ Spec
    /\ WF_vars(Thread)
    /\ SF_vars(RunEnds)
    /\ \A c \in Callers : WF_vars(CallerStatement(c))

-----------------------------------------------------------------------------
(* Properties.                                                             *)

InFlight(waiting) == \E id \in Ids : replies[<<waiting, id>>] > 0

(* The object says it is busy only while something is under way that will clear m_bWork: a  *)
(* call, its event, a slot, or a reply that is still listened to.  The one exception is an  *)
(* event that was emitted before run() had connected it: the object then refuses every      *)
(* request until it is told to exit.                                                        *)
BusyHasCause == m_bWork /\ ~lost /\ pc # "finished" =>
    \/ \E c \in Callers : Pending(c, {"emit"}) /\ ~Pending(c, {"busy"})
    \/ updates > 0
    \/ Pending("http", {"work"})
    \/ InFlight("download")
    \/ listening /\ InFlight("request")

(* The file of m_pFile is being written by a download that will end, or is about to be       *)
(* closed, until the object is told to exit or the SSL errors of a download end it:         *)
(* sslErrors, which is connected for gets and posts, does not close the file.  And no other *)
(* file is open, unless a request was taken while another was on its way or being ended: a  *)
(* download may then forget a file that the one before has open, which nothing closes.      *)
FileHasReader == m_bStart =>
    /\ m_pFile # 0 => \/ InFlight("download")
                      \/ Pending("http", {"closing", "file", "switch"})
                      \/ \E id \in Ids : <<"download", id>> \in refused
    /\ open \subseteq {m_pFile} \/ raced

(* The file is closed, flushed and written by one thread at a time until ExitTask is called. *)
FileUsable == crashed = "file" => ~m_bStart

(* When a get or a post is answered, the parameters and the flags are still those of the    *)
(* request the answer is for, unless the object has been told to exit.                      *)
AnswerCurrent == At("http", "reply") /\ m_bStart =>
    m_bWork /\ m_pVar = replied /\ m_yState \in RequestKinds

(* An accepted get or post is not forgotten: once the object takes requests again, it has   *)
(* been answered once, or has failed with SSL errors.                                       *)
NoneForgotten == m_bStart /\ ~m_bWork /\ ~lost =>
    \A id \in accepted : answers[id] = 1 \/ <<"request", id>> \in refused

(* One caller that makes gets and posts never touches m_pVar together with the thread. *)
VarOwned == crashed # "var"

(* A call of ExitTask returns, whatever the thread was doing and even if it had not reached *)
(* its event loop, unless the program crashes on the file that both close.                  *)
ExitCompletes == \A c \in Callers : At(c, "wait") ~> (todo[c] = <<>> \/ crashed # "no")
=============================================================================
