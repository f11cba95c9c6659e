------------------------------ MODULE ApiClient ------------------------------
(***************************************************************************)
(* The server: connections served by ApiClient (server/src/apiclient.cpp)  *)
(* over the database threads of DatabaseWorker.                            *)
(*                                                                         *)
(* Each connection has one ApiClient object on one io_service thread, so   *)
(* its completion handlers never overlap: each is one action.  They run    *)
(* against the database threads, which answer from their own threads by    *)
(* starting a write.  What the object waits for is in the state: reads and *)
(* writes under way, the timer, handlers of an expired timer not run yet,  *)
(* tasks that point back to it.  When nothing of that is left, the last    *)
(* shared_ptr is gone and the connection is closed.                        *)
(*                                                                         *)
(* HTTP framing is abstracted: a read delivers a whole request.  Writes    *)
(* complete in the order they were started.  The one buffer that all       *)
(* writes of a connection share is not modelled.                           *)
(***************************************************************************)
EXTENDS DatabaseWorker

CONSTANTS
    Requests,      \* per connection, the requests its peer may send
    NoParams,      \* RequestDetails::Params before the first request
    PingPeriod,    \* seconds without a ping (5 in the code)
    MaxRequests,   \* bound: requests read from one connection
    MaxQueue,      \* bound: tasks queued when a timer handler runs
    MaxWrites      \* bound: writes and reads under way when it runs

VARIABLES
    conn,          \* "none", "handshake", "open", "gone" (the peer has left)
    reads,         \* asyncResponse calls under way
    armed, fired,  \* m_Timer: a wait under way; expired waits not handled yet
    details,       \* m_RequestDetails: command and params
    newest,        \* m_NewestMsgTimestamp
    pingAge,       \* time(NULL) - m_LastClientPing, saturating
    asked,         \* requests read so far
    notified       \* history: messages whose write to an idle peer completed

sessionVars == <<conn, reads, armed, fired, details, newest, pingAge, asked,
                 notified>>

vars == <<storageVars, workerVars, sessionVars>>

\* A request: the command of its resource ("none": no such resource), its
\* fields, those of them parse_meta copies into m_RequestDetails, which are
\* the ones present before the first error, and whether there is no error.
Request == [cmd : Commands \cup {"none"}, params : Params,
            given : SUBSET {"uid", "ts", "count", "message", "to_user", "user",
                            "chatname", "adduser", "password"},
            valid : BOOLEAN]

\* A resource that does not exist is never a valid request; Params::ts is 0
\* before the first one.
ASSUME SessionAssumption ==
    /\ Requests \in [Clients -> SUBSET Request]
    /\ \A c \in Clients : \A q \in Requests[c] : q.cmd = "none" => ~q.valid
    /\ NoParams \in Params /\ NoParams.ts = 0
    /\ {PingPeriod, MaxRequests, MaxQueue, MaxWrites} \subseteq Nat

SessionInit ==
    /\ conn = [c \in Clients |-> "none"]
    /\ reads = [c \in Clients |-> 0]
    /\ armed = [c \in Clients |-> FALSE]
    /\ fired = [c \in Clients |-> 0]
    /\ details = [c \in Clients |-> [cmd |-> "none", params |-> NoParams]]
    /\ newest = [c \in Clients |-> 0]
    /\ pingAge = [c \in Clients |-> PingPeriod + 1]
    /\ asked = [c \in Clients |-> 0]
    /\ notified = [c \in Clients |-> {}]

Init == StorageInit /\ WorkerInit /\ SessionInit

-----------------------------------------------------------------------------
(* What keeps an ApiClient object alive.                                     *)

Tasks(c) == {k \in DOMAIN queue : queue[k].client = c}

Serving(c) == {w \in Workers : task[w] # NoTask /\ task[w].client = c}

Outstanding(c) ==
    reads[c] + Len(writes[c]) + Cardinality(Tasks(c)) + Cardinality(Serving(c))

Alive(c) == Outstanding(c) > 0 \/ armed[c] \/ fired[c] > 0

Released(c) == conn[c] \in {"open", "gone"} /\ ~Alive(c)

-----------------------------------------------------------------------------
(* Connections.                                                              *)

SetConn(c, state) == conn' = [conn EXCEPT ![c] = state]

readCmd(c) == reads' = [reads EXCEPT ![c] = @ + 1]

StartWrite(c, response) ==
    writes' = [writes EXCEPT ![c] = Append(@, response)]

serverUnchanged == UNCHANGED <<storageVars, pc, task, loc, now, g_NeedStop>>

\* Server::startAccept makes the object and starts the TLS handshake.
startAccept(c) ==
    /\ conn[c] = "none"
    /\ SetConn(c, "handshake")
    /\ serverUnchanged
    /\ UNCHANGED <<queue, writes, reads, armed, fired, details, newest,
                   pingAge, asked, notified>>

\* The handshake ends: the first read, or nothing after an error.
processClientRequest(c) ==
    /\ conn[c] = "handshake"
    /\ \/ SetConn(c, "open") /\ readCmd(c)
       \/ SetConn(c, "gone") /\ UNCHANGED reads
    /\ serverUnchanged
    /\ UNCHANGED <<queue, writes, armed, fired, details, newest, pingAge,
                   asked, notified>>

\* The peer closes the connection or the network loses it.
peerGone(c) ==
    /\ conn[c] = "open"
    /\ SetConn(c, "gone")
    /\ serverUnchanged
    /\ UNCHANGED <<queue, writes, reads, armed, fired, details, newest,
                   pingAge, asked, notified>>

-----------------------------------------------------------------------------
(* requestFromClientReadHandler.                                             *)

\* Slip: the handler runs although no read is under way.
readFailedTwice(c) ==
    /\ conn[c] = "gone"
    /\ reads' = [reads EXCEPT ![c] = @ - 1]
    /\ serverUnchanged
    /\ UNCHANGED <<queue, writes, conn, armed, fired, details, newest,
                   pingAge, asked, notified>>

\* The read fails: "close connect" is to start nothing.
readFailed(c) ==
    /\ conn[c] = "gone"
    /\ reads[c] > 0
    /\ reads' = [reads EXCEPT ![c] = @ - 1]
    /\ serverUnchanged
    /\ UNCHANGED <<queue, writes, conn, armed, fired, details, newest,
                   pingAge, asked, notified>>

\* parse_meta overwrites the fields it meets; the others keep the values that
\* an earlier request of the connection left.
parse_meta(c, q) ==
    [f \in DOMAIN q.params |-> IF f \in q.given THEN q.params[f]
                                               ELSE details[c].params[f]]

SetDetails(c, q) ==
    details' = [details EXCEPT ![c] = [cmd |-> q.cmd, params |-> parse_meta(c, q)]]

TaskOf(c, d, ping) ==
    [cmd |-> d.cmd, request |-> d.params, ping |-> ping, client |-> c]

\* No such resource, not JSON, a required field missing, a weak password.
handleBadRequest(c, q) ==
    /\ ~q.valid
    /\ IF q.cmd = "none" THEN UNCHANGED details ELSE SetDetails(c, q)
    /\ StartWrite(c, Plain("cmd", "bad request"))
    /\ UNCHANGED <<queue, armed>>

\* handler_impl: one task for the database threads.
handleCommand(c, q) ==
    /\ q.valid /\ q.cmd # "IDLE"
    /\ SetDetails(c, q)
    /\ putTask(TaskOf(c, details'[c], FALSE))
    /\ UNCHANGED <<writes, armed>>

\* sendOkResponseAndStartIdle: acknowledge, start polling, read no more.
handleIdle(c, q) ==
    /\ q.valid /\ q.cmd = "IDLE"
    /\ SetDetails(c, q)
    /\ StartWrite(c, Plain("ack", "ok"))
    /\ armed' = [armed EXCEPT ![c] = TRUE]
    /\ UNCHANGED queue

readRequest(c) ==
    /\ conn[c] = "open"
    /\ reads[c] > 0
    /\ asked[c] < MaxRequests
    /\ reads' = [reads EXCEPT ![c] = @ - 1]
    /\ asked' = [asked EXCEPT ![c] = @ + 1]
    /\ \E q \in Requests[c] :
         handleBadRequest(c, q) \/ handleCommand(c, q) \/ handleIdle(c, q)
    /\ serverUnchanged
    /\ UNCHANGED <<conn, fired, newest, pingAge, notified>>

-----------------------------------------------------------------------------
(* Completion of a write.                                                    *)

Rows(response) == {m[2] : m \in response.msgs}

max_timestamp(response) ==
    LET stamps == {0} \cup {messages[i].ts : i \in Rows(response)}
    IN  CHOOSE ts \in stamps : \A other \in stamps : other <= ts

\* Slip: the next request is not read.
commandWroteNoRead(c) ==
    /\ Head(writes[c]).handler = "cmd"
    /\ UNCHANGED <<reads, armed, newest, notified>>

\* responseToClientWroteHandler: with or without an error, read the next one.
commandWrote(c) ==
    /\ Head(writes[c]).handler = "cmd"
    /\ readCmd(c)
    /\ UNCHANGED <<armed, newest, notified>>

\* The ack of sendOkResponseAndStartIdle: its handler does nothing.
ackWrote(c) ==
    /\ Head(writes[c]).handler = "ack"
    /\ UNCHANGED <<reads, armed, newest, notified>>

\* Slips: the cursor is set to the current time, or not at all.
idleWroteNow(c) ==
    /\ Head(writes[c]).handler = "idle"
    /\ newest' = [newest EXCEPT ![c] = now]
    /\ notified' = [notified EXCEPT ![c] = @ \cup Rows(Head(writes[c]))]
    /\ UNCHANGED <<reads, armed>>

idleWroteKeepsNewest(c) ==
    /\ Head(writes[c]).handler = "idle"
    /\ notified' = [notified EXCEPT ![c] = @ \cup Rows(Head(writes[c]))]
    /\ UNCHANGED <<reads, armed, newest>>

\* The handler of sendMessagesToIdleConn.
idleWrote(c) ==
    /\ Head(writes[c]).handler = "idle"
    /\ newest' = [newest EXCEPT ![c] = max_timestamp(Head(writes[c]))]
    /\ notified' = [notified EXCEPT ![c] = @ \cup Rows(Head(writes[c]))]
    /\ UNCHANGED <<reads, armed>>

\* Slip: the timer is not cancelled.
idleWriteFailedNoCancel(c) ==
    /\ Head(writes[c]).handler = "idle"
    /\ UNCHANGED <<reads, armed, newest, notified>>

\* The same after an error: the timer's wait is cancelled, unless it has
\* expired and its handler is already on its way, and the socket's operations
\* are, which have failed or will fail with the socket anyway.
idleWriteFailed(c) ==
    /\ Head(writes[c]).handler = "idle"
    /\ armed' = [armed EXCEPT ![c] = FALSE]
    /\ UNCHANGED <<reads, newest, notified>>

WriteDone(c) ==
    /\ writes[c] # <<>>
    /\ writes' = [writes EXCEPT ![c] = Tail(@)]
    /\ serverUnchanged
    /\ UNCHANGED <<queue, conn, fired, details, pingAge, asked>>

\* The socket may still take what a peer that has left will never read.
writeSucceeded(c) ==
    /\ conn[c] \in {"open", "gone"}
    /\ WriteDone(c)
    /\ commandWrote(c) \/ ackWrote(c) \/ idleWrote(c)

writeFailed(c) ==
    /\ conn[c] = "gone"
    /\ WriteDone(c)
    /\ commandWrote(c) \/ ackWrote(c) \/ idleWriteFailed(c)

-----------------------------------------------------------------------------
(* The timer.                                                                *)

\* 200 ms pass.
timerExpires(c) ==
    /\ armed[c]
    /\ armed' = [armed EXCEPT ![c] = FALSE]
    /\ fired' = [fired EXCEPT ![c] = @ + 1]
    /\ serverUnchanged
    /\ UNCHANGED <<queue, writes, conn, reads, details, newest, pingAge, asked,
                   notified>>

\* Slips: the cursor follows m_NewestMsgTimestamp down as well; the timer is
\* started again only by the handler that asks for a ping.
timerHandlerAssigns(c) ==
    LET ping == pingAge[c] > PingPeriod
    IN  /\ fired[c] > 0
        /\ Len(queue) < MaxQueue /\ Len(writes[c]) < MaxWrites /\ reads[c] <= MaxWrites
        /\ fired' = [fired EXCEPT ![c] = @ - 1]
        /\ details' = [details EXCEPT ![c].params.ts = newest[c]]
        /\ pingAge' = [pingAge EXCEPT ![c] = IF ping THEN 0 ELSE @]
        /\ putTask(TaskOf(c, details'[c], ping))
        /\ armed' = [armed EXCEPT ![c] = TRUE]
        /\ serverUnchanged
        /\ UNCHANGED <<writes, conn, reads, newest, asked, notified>>

timerHandlerStops(c) ==
    LET ping == pingAge[c] > PingPeriod
    IN  /\ fired[c] > 0
        /\ Len(queue) < MaxQueue /\ Len(writes[c]) < MaxWrites /\ reads[c] <= MaxWrites
        /\ fired' = [fired EXCEPT ![c] = @ - 1]
        /\ details' = [details EXCEPT
                         ![c].params.ts = IF newest[c] > @ THEN newest[c] ELSE @]
        /\ pingAge' = [pingAge EXCEPT ![c] = IF ping THEN 0 ELSE @]
        /\ putTask(TaskOf(c, details'[c], ping))
        /\ armed' = [armed EXCEPT ![c] = ping]
        /\ serverUnchanged
        /\ UNCHANGED <<writes, conn, reads, newest, asked, notified>>

timerWaitTaskResultHandler(c) ==
    LET ping == pingAge[c] > PingPeriod
    IN  /\ fired[c] > 0
        /\ Len(queue) < MaxQueue
        /\ Len(writes[c]) < MaxWrites
        /\ reads[c] <= MaxWrites
        /\ fired' = [fired EXCEPT ![c] = @ - 1]
        /\ details' = [details EXCEPT
                         ![c].params.ts = IF newest[c] > @ THEN newest[c] ELSE @]
        /\ pingAge' = [pingAge EXCEPT ![c] = IF ping THEN 0 ELSE @]
        /\ putTask(TaskOf(c, details'[c], ping))
        /\ armed' = [armed EXCEPT ![c] = TRUE]
        /\ serverUnchanged
        /\ UNCHANGED <<writes, conn, reads, newest, asked, notified>>

-----------------------------------------------------------------------------

\* A second passes.  The clock stops at the last Time, the wait for a ping
\* goes on.
Second ==
    /\ now' = IF now + 1 \in Time THEN now + 1 ELSE now
    /\ pingAge' = [c \in Clients |-> IF pingAge[c] > PingPeriod
                                     THEN pingAge[c] ELSE pingAge[c] + 1]
    /\ UNCHANGED <<storageVars, queue, pc, task, loc, writes, g_NeedStop, conn,
                   reads, armed, fired, details, newest, asked, notified>>

Handler(c) ==
    \/ processClientRequest(c)
    \/ readFailed(c)
    \/ readRequest(c)
    \/ writeSucceeded(c)
    \/ writeFailed(c)
    \/ timerExpires(c)
    \/ timerWaitTaskResultHandler(c)

Work(w) == processQueue(w) /\ UNCHANGED sessionVars

Next ==
    \/ \E c \in Clients : startAccept(c) \/ peerGone(c) \/ Handler(c)
    \/ \E w \in Workers : Work(w)
    \/ Second

Spec == Init /\ [][Next]_vars

\* Writes to a peer that has left do not succeed for ever; and some fail while
\* the timer waits: the handler that puts a poll waits another 200 ms, and the
\* thread that serves the poll starts the write some 10 ms later.
SomeWriteFailsInTime(c) ==
    []<>(conn[c] = "gone" /\ writes[c] # <<>>)
      => []<><<armed[c] /\ writeFailed(c)>>_vars

\* The io_service threads and the database threads run.
Fairness ==
    /\ \A c \in Clients :
         /\ WF_vars(processClientRequest(c))
         /\ WF_vars(readFailed(c))
         /\ WF_vars(writeSucceeded(c))
         /\ SomeWriteFailsInTime(c)
         /\ WF_vars(timerExpires(c))
         /\ WF_vars(timerWaitTaskResultHandler(c))
    /\ \A w \in Workers : WF_vars(Work(w))
    /\ WF_vars(Second)

-----------------------------------------------------------------------------
(* Properties.                                                               *)

Idling(c) == armed[c] \/ fired[c] > 0

NeverIdles(c) == \A q \in Requests[c] : q.cmd # "IDLE"

\* Type invariant of the connections.
SessionTypeOK ==
    /\ conn \in [Clients -> {"none", "handshake", "open", "gone"}]
    /\ reads \in [Clients -> Nat]
    /\ armed \in [Clients -> BOOLEAN]
    /\ fired \in [Clients -> Nat]
    /\ details \in [Clients -> [cmd : Commands \cup {"none"}, params : Params]]
    /\ newest \in [Clients -> Time]
    /\ pingAge \in [Clients -> 0 .. PingPeriod + 1]
    /\ asked \in [Clients -> 0 .. MaxRequests]
    /\ notified \in [Clients -> SUBSET DOMAIN messages]

\* A connection that is not polling does one thing at a time, and while it is
\* open it does something: it reads a request, or a task is queued or worked
\* on, or an answer is being written.  Two at once would put answers out of
\* order; none would leave a connection nobody serves.  CHAT_HISTORY is the
\* one command whose task is dropped.  (Polls that are under way when a failed
\* write ends the polling are still worked on after the peer has left.)
OneThingAtATime ==
    \A c \in Clients :
        ~Idling(c) =>
            /\ conn[c] = "open" => \/ Outstanding(c) = 1
                                   \/ /\ details[c].cmd = "CHAT_HISTORY"
                                      /\ Outstanding(c) = 0
            /\ conn[c] = "gone" /\ NeverIdles(c) => Outstanding(c) <= 1

\* The cursor of an idle connection, the ts its polls start from, is the one
\* the peer asked for or the timestamp of a message whose write has completed:
\* it never runs ahead of what was sent.
CursorFollowsWrites ==
    \A c \in Clients :
        details[c].params.ts > 0 =>
            \/ \E q \in Requests[c] : q.params.ts = details[c].params.ts
            \/ \E i \in notified[c] : messages[i].ts = details[c].params.ts

\* Only a request of the peer turns the cursor back: not a ping, whose
\* completion sets m_NewestMsgTimestamp to 0, and not an older answer that is
\* completed late.
CursorMonotone ==
    [][\A c \in Clients :
         asked'[c] = asked[c] => details'[c].params.ts >= details[c].params.ts]_vars

\* Once it has begun to poll, an open connection never stops polling.
PollingGoesOn ==
    [][\A c \in Clients : Idling(c) /\ conn[c] = "open" => Idling(c)']_vars

\* The object of a connection whose peer has left is destroyed, by a failed
\* read or, when it is polling, by the failure of a message or of a ping.
PeerGoneIsNoticed ==
    \A c \in Clients : conn[c] = "gone" ~> Released(c)

\* An open idle connection catches up: of the messages in the chats of its
\* user, none stays ahead of the cursor.
CatchesUp ==
    \A c \in Clients, i \in 1 .. MaxRequests * Cardinality(Clients) :
        /\ conn[c] = "open" /\ Idling(c)
        /\ i \in DOMAIN messages
        /\ \E row \in lookupChatsForUserId(details[c].params.uid) :
             chatuser[row].chatid = messages[i].chat_to
        ~> \/ conn[c] = "gone"
           \/ i \in DOMAIN messages /\ details[c].params.ts >= messages[i].ts

-----------------------------------------------------------------------------
(* What the code says and does not do.                                       *)

\* "notify client only about new messages" (apiclient.hpp, m_NewestMsgTimestamp).
NotifyOnlyAboutNew ==
    \A c \in Clients : \A k \in DOMAIN writes[c] :
        LET before == notified[c] \cup
                        UNION {Rows(writes[c][j]) : j \in 1 .. k - 1}
        IN  writes[c][k].handler = "idle" => Rows(writes[c][k]) \cap before = {}

\* "don't close connect" (responseToClientWroteHandler): a connection is kept
\* until its peer leaves.
DontCloseConnect ==
    \A c \in Clients : conn[c] = "open" => ~Released(c)

\* "start polling storage for new messages" (sendOkResponseAndStartIdle): what
\* the timer repeats every 200 ms is IDLE.
PollsForNewMessages ==
    \A c \in Clients : Idling(c) => details[c].cmd = "IDLE"
=============================================================================
