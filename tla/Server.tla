------------------------------- MODULE Server -------------------------------
(***************************************************************************)
(* The life of the server process (server/src/server.cpp): run() on the    *)
(* main thread starts the io thread of m_MainIo, the pool of io threads,   *)
(* the database threads and the first accept, and then joins them all.     *)
(* The thread of m_MainIo handles signals and accepts connections while    *)
(* run() is still starting the rest.  Each connection belongs to one io    *)
(* thread of the pool; its one request goes through the database threads   *)
(* of WorkerPool and its answer is written by its io thread.               *)
(***************************************************************************)
EXTENDS WorkerPool

CONSTANT IoPoolSize      \* the option io_workers

\* startAccept divides by the number of io threads.
ASSUME IoPoolAssumption == IoPoolSize \in Nat \ {0}

VARIABLES
    runAt,        \* where run() stands
    m_MainIo, m_IoThreads,
    started,      \* the database threads of m_Db that run
    signals,      \* signals sent and not handled yet
    m_Signals,    \* the handler of a stop is waiting for one
    stopping,     \* how far handleStop is: the threads of the pool it still stops
    stopAt,       \* where run() stood when handleStop was called, or "none"
    m_Acceptor,   \* the io thread of the socket to accept with, or 0
    backlog,      \* connections to accept
    conn,         \* the connection of each client
    ioOf,         \* its io thread
    crashed

processVars == <<runAt, m_MainIo, m_IoThreads, started, signals, m_Signals,
                 stopping, stopAt, crashed>>
connVars == <<m_Acceptor, backlog, conn, ioOf>>
serverVars == <<poolVars, processVars, connVars>>

-----------------------------------------------------------------------------
(* common/io_thread.hpp: an io_service and the thread that runs it.          *)

IoThread == [stopped : BOOLEAN, thread : {"none", "running", "exited"}]

NewIoThread == [stopped |-> FALSE, thread |-> "none"]

\* start() resets the io_service: a stop() that came before is forgotten.
Start(io) == [stopped |-> FALSE, thread |-> "running"]

\* Slip: the io_service is not asked to stop.
StopIoNot(io) == io

StopIo(io) == [io EXCEPT !.stopped = TRUE]

Serves(io) == io.thread = "running" /\ ~io.stopped

Exits(io) == io.thread = "running" /\ io.stopped

Exited(io) == [io EXCEPT !.thread = "exited"]

-----------------------------------------------------------------------------

ServerInit ==
    /\ runAt = "main"
    /\ m_MainIo = NewIoThread
    /\ m_IoThreads = <<>>
    /\ started = {}
    /\ signals = {}
    /\ m_Signals = TRUE
    /\ stopping = [now |-> FALSE, next |-> 0, last |-> 0]
    /\ stopAt = "none"
    /\ m_Acceptor = 0
    /\ backlog = <<>>
    /\ conn = [c \in Clients |-> "away"]
    /\ ioOf = [c \in Clients |-> 0]
    /\ crashed = FALSE

-----------------------------------------------------------------------------
(* The main thread: Server::run.                                             *)

\* What run() does at one stage; the rest of the process is left as it is.
RunStep(from, to) ==
    /\ runAt = from
    /\ runAt' = to
    /\ UNCHANGED <<poolVars, signals, m_Signals, stopping, stopAt, backlog, conn,
                   ioOf, crashed>>

startMainIo ==
    /\ RunStep("main", "push")
    /\ m_MainIo' = Start(m_MainIo)
    /\ UNCHANGED <<m_IoThreads, started, m_Acceptor>>

pushIoThread ==
    /\ RunStep("push", "start")
    /\ m_IoThreads' = Append(m_IoThreads, NewIoThread)
    /\ UNCHANGED <<m_MainIo, started, m_Acceptor>>

startIoThread ==
    LET n == Len(m_IoThreads)
    IN  /\ RunStep("start", IF n = IoPoolSize THEN "db" ELSE "push")
        /\ m_IoThreads' = [m_IoThreads EXCEPT ![n] = Start(@)]
        /\ UNCHANGED <<m_MainIo, started, m_Acceptor>>

\* DatabaseWorker::run starts one thread after the other.
runDb ==
    /\ \E w \in Workers \ started :
         /\ started' = started \cup {w}
         /\ RunStep("db", IF started' = Workers THEN "accept" ELSE "db")
    /\ UNCHANGED <<m_MainIo, m_IoThreads, m_Acceptor>>

\* Slip: one beyond the end of the pool.
startAcceptBeyond == m_Acceptor' \in 1 .. Len(m_IoThreads) + 1

\* startAccept: a socket of any io thread of the pool.
startAccept == m_Acceptor' \in DOMAIN m_IoThreads

firstAccept ==
    /\ RunStep("accept", "joinDb")
    /\ startAccept
    /\ UNCHANGED <<m_MainIo, m_IoThreads, started>>

joinThreads ==
    /\ \/ RunStep("joinDb", "joinMain") /\ \A w \in Workers : At(w, "done")
       \/ RunStep("joinMain", "joinIo") /\ m_MainIo.thread = "exited"
       \/ /\ RunStep("joinIo", "returned")
          /\ \A i \in DOMAIN m_IoThreads : m_IoThreads[i].thread = "exited"
    /\ UNCHANGED <<m_MainIo, m_IoThreads, started, m_Acceptor>>

run == startMainIo \/ pushIoThread \/ startIoThread \/ runDb \/ firstAccept
         \/ joinThreads

-----------------------------------------------------------------------------
(* The thread of m_MainIo: one handler at a time.                            *)

MainIsFree == Serves(m_MainIo) /\ ~stopping.now

\* handleStop is not waiting again afterwards, a second signal is caught in vain.
handleStop ==
    /\ MainIsFree
    /\ "stop" \in signals /\ m_Signals
    /\ signals' = signals \ {"stop"}
    /\ m_Signals' = FALSE
    /\ Stop
    /\ m_MainIo' = StopIo(m_MainIo)
    /\ stopping' = [now |-> TRUE, next |-> 1, last |-> Len(m_IoThreads)]
    /\ stopAt' = runAt
    /\ UNCHANGED <<callerVars, connVars, runAt, m_IoThreads, started, crashed>>

\* Its loop over the pool, which it takes to be as long as it was.  run() may be
\* adding to the vector: then the loop's iterators may be invalid.
stopIoThread ==
    /\ stopping.now
    /\ \/ /\ stopping.next <= stopping.last
          /\ m_IoThreads' = [m_IoThreads EXCEPT ![stopping.next] = StopIo(@)]
          /\ stopping' = [stopping EXCEPT !.next = @ + 1]
          /\ UNCHANGED crashed
       \/ /\ stopping.next > stopping.last
          /\ stopping' = [stopping EXCEPT !.now = FALSE]
          /\ UNCHANGED <<m_IoThreads, crashed>>
       \/ /\ stopping.next <= stopping.last
          /\ Len(m_IoThreads) # stopping.last
          /\ crashed' = TRUE
          /\ UNCHANGED <<m_IoThreads, stopping>>
    /\ UNCHANGED <<poolVars, connVars, runAt, m_MainIo, started, signals,
                   m_Signals, stopAt>>

handleHUP ==
    /\ MainIsFree
    /\ "hup" \in signals
    /\ signals' = signals \ {"hup"}
    /\ UNCHANGED <<poolVars, connVars, runAt, m_MainIo, m_IoThreads, started,
                   m_Signals, stopping, stopAt, crashed>>

\* Slip: after a connection that could not be used, no other is accepted.
acceptedGivesUp ==
    LET c == Head(backlog)
    IN  /\ backlog # <<>>
        /\ backlog' = Tail(backlog)
        /\ IF conn[c] = "left"
           THEN m_Acceptor' = 0 /\ UNCHANGED <<conn, ioOf>>
           ELSE /\ conn' = [conn EXCEPT ![c] = "open"]
                /\ ioOf' = [ioOf EXCEPT ![c] = m_Acceptor]
                /\ startAccept

\* The handler of async_accept: makeConnected fails when the peer has left.
accepted ==
    LET c == Head(backlog)
    IN  /\ backlog # <<>>
        /\ backlog' = Tail(backlog)
        /\ \/ /\ conn[c] = "left"
              /\ UNCHANGED <<conn, ioOf>>
           \/ /\ conn[c] = "waiting"
              /\ conn' = [conn EXCEPT ![c] = "open"]
              /\ ioOf' = [ioOf EXCEPT ![c] = m_Acceptor]
        /\ startAccept

\* The handler with an error, for want of a descriptor for one.
acceptFailed == startAccept /\ UNCHANGED <<backlog, conn, ioOf>>

handleAccept ==
    /\ MainIsFree
    /\ m_Acceptor # 0
    /\ accepted \/ acceptFailed
    /\ UNCHANGED <<poolVars, processVars>>

mainExits ==
    /\ Exits(m_MainIo) /\ ~stopping.now
    /\ m_MainIo' = Exited(m_MainIo)
    /\ UNCHANGED <<poolVars, connVars, runAt, m_IoThreads, started, signals,
                   m_Signals, stopping, stopAt, crashed>>

-----------------------------------------------------------------------------
(* An io thread of the pool: the handlers of its connections.                *)

\* The handshake, the request, and the task it is turned into.
readRequest(i) ==
    \E c \in Clients :
        /\ conn[c] = "open" /\ ioOf[c] = i
        /\ Submit(c)
        /\ UNCHANGED <<processVars, connVars>>

\* The write of the answer, which a database thread has started, completes.
writeAnswer(i) ==
    \E c \in Clients :
        /\ conn[c] = "open" /\ ioOf[c] = i
        /\ writes[c] # <<>>
        /\ conn' = [conn EXCEPT ![c] = "answered"]
        /\ UNCHANGED <<poolVars, processVars, m_Acceptor, backlog, ioOf>>

ioThread(i) ==
    /\ i \in DOMAIN m_IoThreads
    /\ \/ Serves(m_IoThreads[i]) /\ (readRequest(i) \/ writeAnswer(i))
       \/ /\ Exits(m_IoThreads[i])
          /\ m_IoThreads' = [m_IoThreads EXCEPT ![i] = Exited(@)]
          /\ UNCHANGED <<poolVars, connVars, runAt, m_MainIo, started, signals,
                         m_Signals, stopping, stopAt, crashed>>

dbThread(w) ==
    /\ w \in started
    /\ processQueue(w)
    /\ UNCHANGED <<callerVars, processVars, connVars>>

-----------------------------------------------------------------------------
(* The outside.                                                              *)

\* Signals are caught from the constructor on.
Signal(s) ==
    /\ s \in {"stop", "hup"} \ signals
    /\ signals' = signals \cup {s}
    /\ UNCHANGED <<poolVars, connVars, runAt, m_MainIo, m_IoThreads, started,
                   m_Signals, stopping, stopAt, crashed>>

\* The socket listens from the constructor on.
Connect(c) ==
    /\ conn[c] = "away"
    /\ conn' = [conn EXCEPT ![c] = "waiting"]
    /\ backlog' = Append(backlog, c)
    /\ UNCHANGED <<poolVars, processVars, m_Acceptor, ioOf>>

Leave(c) ==
    /\ conn[c] = "waiting"
    /\ conn' = [conn EXCEPT ![c] = "left"]
    /\ UNCHANGED <<poolVars, processVars, m_Acceptor, backlog, ioOf>>

ServerNext ==
    /\ ~crashed
    /\ \/ run
       \/ handleStop \/ stopIoThread \/ handleHUP \/ handleAccept \/ mainExits
       \/ \E i \in 1 .. IoPoolSize : ioThread(i)
       \/ \E w \in Workers : dbThread(w)
       \/ \E s \in {"stop", "hup"} : Signal(s)
       \/ \E c \in Clients : Connect(c) \/ Leave(c)

\* Every thread is scheduled, a mutex is acquired in the end, and there is not
\* always a lack of descriptors when a connection is to be accepted.
ServerFairness ==
    /\ WF_serverVars(~crashed /\ run)
    /\ WF_serverVars(~crashed /\ (handleStop \/ stopIoThread \/ mainExits))
    /\ WF_serverVars(/\ ~crashed /\ MainIsFree /\ m_Acceptor # 0 /\ accepted
                     /\ UNCHANGED <<poolVars, processVars>>)
    /\ \A i \in 1 .. IoPoolSize : WF_serverVars(~crashed /\ ioThread(i))
    /\ \A w \in Workers : WF_serverVars(~crashed /\ dbThread(w))

-----------------------------------------------------------------------------
(* Properties.                                                               *)

ServerTypeOK ==
    /\ runAt \in {"main", "push", "start", "db", "accept", "joinDb", "joinMain",
                  "joinIo", "returned"}
    /\ m_MainIo \in IoThread
    /\ m_IoThreads \in Seq(IoThread) /\ Len(m_IoThreads) <= IoPoolSize
    /\ started \subseteq Workers
    /\ m_Acceptor \in 0 .. IoPoolSize
    /\ conn \in [Clients -> {"away", "waiting", "left", "open", "answered"}]
    /\ ioOf \in [Clients -> 0 .. IoPoolSize]
    /\ \A c \in Clients : conn[c] \in {"open", "answered"} => ioOf[c] # 0

\* Every connection is accepted and its request answered, also after others that
\* could not be used, unless the server is told to stop.
EveryConnectionIsServed ==
    \A c \in Clients :
        conn[c] = "waiting" ~> conn[c] \in {"answered", "left"} \/ g_NeedStop \/ crashed

\* DatabaseWorker::join returns after a stop, at whatever moment it comes: each
\* thread finishes the task it has and leaves, whatever is still queued.
JoinReturns == g_NeedStop ~> ((\A w \in Workers : At(w, "done")) \/ crashed)

\* A stop that finds the whole pool started ends the server: run() returns.  One
\* that comes while run() is starting the pool may crash or is lost on the io
\* threads started after it.
StopEndsServer ==
    stopAt \notin {"none", "push", "start"} ~> runAt = "returned"
=============================================================================
