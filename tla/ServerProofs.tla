---------------------------- MODULE ServerProofs ----------------------------
(***************************************************************************)
(* The life of the server process, for any number of io threads, database  *)
(* threads and clients: what its start and its stop leave behind, and that *)
(* the promises of the database threads survive both.                      *)
(***************************************************************************)
EXTENDS Server, WorkerPoolProofs, SequenceTheorems

\* The tables may be those of an earlier run.
ServerSpec ==
    StorageInv /\ PoolInit /\ ServerInit /\ [][ServerNext]_serverVars

-----------------------------------------------------------------------------
(* The inductive invariant.                                                  *)

\* Types that ServerTypeOK leaves out, and bounds that move.
ProcessTyped ==
    /\ m_Acceptor <= Len(m_IoThreads)
    /\ backlog \in Seq(Clients)
    /\ stopping \in [now : BOOLEAN, next : Nat, last : Nat]
    /\ stopAt # "main"

\* How far run() has come in making its threads.
Made ==
    /\ runAt = "main" => m_MainIo.thread = "none" /\ stopAt = "none"
    /\ runAt \in {"main", "push"} => Len(m_IoThreads) < IoPoolSize
    /\ runAt = "start" => Len(m_IoThreads) >= 1
    /\ runAt \notin {"main", "push", "start"} => Len(m_IoThreads) = IoPoolSize

\* A thread that run() has joined has left.
Joined ==
    /\ runAt \in {"joinMain", "joinIo", "returned"} => \A w \in Workers : At(w, "done")
    /\ runAt \in {"joinIo", "returned"} => m_MainIo.thread = "exited"
    /\ runAt = "returned" => \A i \in DOMAIN m_IoThreads : m_IoThreads[i].thread = "exited"

\* A thread leaves only after a stop.
LeavesAfterStop ==
    /\ g_NeedStop <=> stopAt # "none"
    /\ m_MainIo.stopped <=> stopAt # "none"
    /\ m_MainIo.thread = "exited" => stopAt # "none"
    /\ stopping.now => stopAt # "none"
    /\ \A w \in Workers : At(w, "done") => stopAt # "none"

\* A stop that finds the pool complete goes through the whole of it.
GoesThrough ==
    stopAt \notin {"none", "push", "start"} =>
        /\ ~crashed /\ runAt \notin {"main", "push", "start"}
        /\ stopping.last = Len(m_IoThreads)
        /\ stopping.next >= 1
        /\ \A i \in DOMAIN m_IoThreads : i < stopping.next => m_IoThreads[i].stopped
        /\ ~stopping.now => stopping.next > stopping.last

\* The loop over the pool stays within it.
LoopInPool ==
    stopping.now => stopping.next >= 1 /\ stopping.last <= Len(m_IoThreads)

ServerInv ==
    /\ ServerTypeOK /\ ProcessTyped /\ Made /\ Joined
    /\ LeavesAfterStop /\ GoesThrough /\ LoopInPool

-----------------------------------------------------------------------------
(* What is proved of it.                                                     *)

\* run() returns only after a stop, and then every thread of the process has left.
ReturnsStopped ==
    runAt = "returned" =>
        /\ g_NeedStop
        /\ \A w \in Workers : At(w, "done")
        /\ m_MainIo.thread = "exited"
        /\ \A i \in DOMAIN m_IoThreads : m_IoThreads[i].thread = "exited"

\* A stop that comes when the pool of io threads is complete does not crash,
\* and when its handler is through, every io thread has been told.
StopTellsAll ==
    stopAt \notin {"none", "push", "start"} =>
        /\ ~crashed
        /\ ~stopping.now =>
             m_MainIo.stopped /\ \A i \in DOMAIN m_IoThreads : m_IoThreads[i].stopped

-----------------------------------------------------------------------------
(* The threads.                                                              *)

\* A database thread leaves only when it is told to, and only the handler of a
\* signal tells it.
LEMMA ThreadLeaves ==
    ASSUME WorkerTypeOK, NEW w \in Workers, processQueue(w)
    PROVE  /\ pc[w] # "done" /\ g_NeedStop' = g_NeedStop
           /\ pc'[w] = "done" => g_NeedStop
           /\ \A v \in Workers : v # w => pc'[v] = pc[v]
<1>1. pc \in [Workers -> Stages]
  BY DEF WorkerTypeOK
<1>2. ASSUME NEW stage, stage # "done", pc' = [pc EXCEPT ![w] = stage]
      PROVE  /\ pc'[w] = "done" => g_NeedStop
             /\ \A v \in Workers : v # w => pc'[v] = pc[v]
  BY <1>1, <1>2
<1>3. CASE checkStop(w)
  BY <1>1, <1>3 DEF checkStop, Goto, At
<1>4. CASE getTask(w)
  <2>1. pc[w] # "done" /\ g_NeedStop' = g_NeedStop
    BY <1>4 DEF getTask, Goto, At
  <2>2. \A cmd : FirstStage(cmd) # "done"
    BY DEF FirstStage
  <2>3. \E stage : stage # "done" /\ pc' = [pc EXCEPT ![w] = stage]
    BY <1>4, <2>2 DEF getTask, Goto
  <2>4. QED
    BY <1>2, <2>1, <2>3
<1>5. CASE lookup_check_pass(w)
  <2>1. pc[w] # "done" /\ g_NeedStop' = g_NeedStop
    BY <1>5 DEF lookup_check_pass, Refuse, Answer, Goto, At
  <2>2. \A cmd : AfterAuth(cmd) # "done"
    BY DEF AfterAuth
  <2>3. \E stage : stage # "done" /\ pc' = [pc EXCEPT ![w] = stage]
    BY <1>5, <2>2 DEF lookup_check_pass, Refuse, Answer, Goto
  <2>4. QED
    BY <1>2, <2>1, <2>3
<1>6. ASSUME \/ lookup_check_pass_by_name(w) \/ lookupChat(w) \/ readClock(w)
             \/ doSaveMessage(w) \/ doCreateUser(w) \/ doCreateChat(w)
             \/ doAddUserToChat(w) \/ doUpdateHeartBit(w) \/ listChats(w)
             \/ pollChat(w) \/ endPoll(w) \/ selectTo(w) \/ selectFrom(w)
             \/ respond(w)
      PROVE  /\ pc[w] # "done" /\ g_NeedStop' = g_NeedStop
             /\ \/ pc' = pc
                \/ \E stage \in {"send", "selectTo", "clock", "byChat", "addUser",
                                 "heartbit", "save", "listChats", "poll", "check",
                                 "selectFrom"} : pc' = [pc EXCEPT ![w] = stage]
  BY <1>6 DEF lookup_check_pass_by_name, lookupChat, readClock, doSaveMessage,
       doCreateUser, doCreateChat, doAddUserToChat, doUpdateHeartBit, listChats,
       pollChat, endPoll, selectTo, selectFrom, respond, UseUser, Refuse, Answer,
       NextIteration, Goto, At
<1>7. CASE \/ lookup_check_pass_by_name(w) \/ lookupChat(w) \/ readClock(w)
           \/ doSaveMessage(w) \/ doCreateUser(w) \/ doCreateChat(w)
           \/ doAddUserToChat(w) \/ doUpdateHeartBit(w) \/ listChats(w)
           \/ pollChat(w) \/ endPoll(w) \/ selectTo(w) \/ selectFrom(w)
           \/ respond(w)
  BY <1>2, <1>6, <1>7
<1>8. QED
  BY <1>3, <1>4, <1>5, <1>7 DEF processQueue

\* A stop changes nothing that the promises of the threads speak of.
LEMMA StopKeepsPoolInv ==
    ASSUME PoolInv, Stop, UNCHANGED callerVars
    PROVE  PoolInv' /\ RowsKept /\ UNCHANGED storageVars
<1>1. /\ UNCHANGED <<storageVars, pc, task, loc, queue, writes, now, submitted>>
      /\ g_NeedStop' = TRUE
  BY DEF Stop, callerVars
<1>2. RowsKept
  BY <1>1, PoolTyped, NoCallKeepsRows
<1>3. WorkerInv'
  BY <1>1, PoolTyped, EnvironmentKeepsInv DEF WorkerTypeOK
<1>4. \A c \in Clients : Placed(c)'
  BY <1>1, <1>2, KeepsPlaces
<1>5. \A c \in Clients : Answers(c)' = Answers(c)
  BY <1>1, SameAnswers
<1>6. \A c, d \in Clients : NotBothCreated(c, d)'
  BY <1>1, <1>5 DEF PoolInv, NotBothCreated, Said, Creates, Asked
<1>7. QED
  BY <1>1, <1>2, <1>3, <1>4, <1>6 DEF PoolInv, Placed

\* To the database threads and their callers a step of the server is one of
\* theirs, or a stop.
LEMMA ServerStepsPool ==
    ASSUME [ServerNext]_serverVars
    PROVE  [PoolNext]_poolVars \/ (Stop /\ UNCHANGED callerVars)
<1>1. CASE UNCHANGED serverVars
  BY <1>1 DEF serverVars
<1>2. CASE run
  BY <1>2 DEF run, startMainIo, pushIoThread, startIoThread, runDb, firstAccept,
              joinThreads, RunStep
<1>3. CASE handleStop
  BY <1>3 DEF handleStop
<1>4. CASE stopIoThread \/ handleHUP \/ handleAccept \/ mainExits
  BY <1>4 DEF stopIoThread, handleHUP, handleAccept, mainExits
<1>5. CASE \E i \in 1 .. IoPoolSize : ioThread(i)
  BY <1>5 DEF ioThread, readRequest, writeAnswer, PoolNext
<1>6. CASE \E w \in Workers : dbThread(w)
  BY <1>6 DEF dbThread, PoolNext
<1>7. CASE \/ \E s \in {"stop", "hup"} : Signal(s)
           \/ \E c \in Clients : Connect(c) \/ Leave(c)
  BY <1>7 DEF Signal, Connect, Leave
<1>8. QED
  BY <1>1, <1>2, <1>3, <1>4, <1>5, <1>6, <1>7 DEF ServerNext

\* So every step of the server keeps the promises.
LEMMA ServerKeepsPoolInv ==
    ASSUME PoolInv, [ServerNext]_serverVars
    PROVE  PoolInv' /\ RowsKept /\ [StorageNext]_storageVars
BY ServerStepsPool, PoolStepKeepsInv, StopKeepsPoolInv

-----------------------------------------------------------------------------
(* Steps.                                                                    *)

\* Types of what the proofs below speak of.
LEMMA ProcessTypes ==
    ASSUME ServerInv
    PROVE  /\ IoPoolSize \in Nat \ {0}
           /\ m_IoThreads \in Seq(IoThread) /\ Len(m_IoThreads) \in Nat
           /\ DOMAIN m_IoThreads = 1 .. Len(m_IoThreads)
           /\ \A i \in DOMAIN m_IoThreads : m_IoThreads[i] \in IoThread
           /\ m_MainIo \in IoThread /\ m_Acceptor \in Nat
           /\ stopping.now \in BOOLEAN /\ stopping.next \in Nat /\ stopping.last \in Nat
<1>1. m_IoThreads \in Seq(IoThread)
  BY DEF ServerInv, ServerTypeOK
<1>2. /\ Len(m_IoThreads) \in Nat /\ DOMAIN m_IoThreads = 1 .. Len(m_IoThreads)
      /\ \A i \in DOMAIN m_IoThreads : m_IoThreads[i] \in IoThread
  BY <1>1
<1>3. stopping \in [now : BOOLEAN, next : Nat, last : Nat]
  BY DEF ServerInv, ProcessTyped
<1>4. m_MainIo \in IoThread /\ m_Acceptor \in Nat
  BY IoPoolAssumption DEF ServerInv, ServerTypeOK
<1>5. QED
  BY <1>1, <1>2, <1>3, <1>4, IoPoolAssumption

\* One thread of the pool replaced by another.
LEMMA PoolExcept ==
    ASSUME ServerInv, NEW i \in DOMAIN m_IoThreads, NEW io \in IoThread,
           m_IoThreads' = [m_IoThreads EXCEPT ![i] = io]
    PROVE  /\ m_IoThreads' \in Seq(IoThread) /\ Len(m_IoThreads)' = Len(m_IoThreads)
           /\ DOMAIN m_IoThreads' = DOMAIN m_IoThreads
           /\ m_IoThreads'[i] = io
           /\ \A j \in DOMAIN m_IoThreads : j # i => m_IoThreads'[j] = m_IoThreads[j]
<1>1. PICK s \in Seq(IoThread) : s = m_IoThreads
  BY ProcessTypes
<1>2. PICK t : t = [s EXCEPT ![i] = io]
  OBVIOUS
<1>3. i \in 1 .. Len(s) /\ DOMAIN s = 1 .. Len(s)
  BY <1>1
<1>4. t \in Seq(IoThread) /\ Len(t) = Len(s)
      /\ \A j \in 1 .. Len(s) : t[j] = IF j = i THEN io ELSE s[j]
  BY <1>2, <1>3, ExceptSeq
<1>5. DOMAIN t = 1 .. Len(t)
  BY <1>4
<1>6. t = m_IoThreads'
  BY <1>1, <1>2
<1>7. QED
  BY <1>1, <1>3, <1>4, <1>5, <1>6

\* Steps of connections and signals: no thread is made, told or joined.
LEMMA QuietKeepsInv ==
    ASSUME ServerInv,
           UNCHANGED <<runAt, m_MainIo, m_IoThreads, started, stopping, stopAt,
                       crashed, pc, g_NeedStop>>,
           m_Acceptor' = m_Acceptor \/ m_Acceptor' \in DOMAIN m_IoThreads,
           backlog' \in Seq(Clients),
           conn' \in [Clients -> {"away", "waiting", "left", "open", "answered"}],
           ioOf' \in [Clients -> 0 .. IoPoolSize],
           \A c \in Clients : conn'[c] \in {"open", "answered"} => ioOf'[c] # 0
    PROVE  ServerInv'
<1>1. m_Acceptor' \in 0 .. IoPoolSize /\ m_Acceptor' <= Len(m_IoThreads)
  <2>1. /\ m_Acceptor \in 0 .. IoPoolSize /\ m_Acceptor <= Len(m_IoThreads)
        /\ Len(m_IoThreads) <= IoPoolSize
    BY DEF ServerInv, ServerTypeOK, ProcessTyped
  <2>2. QED
    BY <2>1, ProcessTypes
<1>2. ServerTypeOK'
  BY <1>1 DEF ServerInv, ServerTypeOK
<1>3. ProcessTyped'
  BY <1>1 DEF ServerInv, ProcessTyped
<1>4. Made' /\ Joined' /\ LeavesAfterStop'
  BY DEF ServerInv, Made, Joined, LeavesAfterStop, At
<1>5. GoesThrough' /\ LoopInPool'
  BY DEF ServerInv, GoesThrough, LoopInPool
<1>6. QED
  BY <1>2, <1>3, <1>4, <1>5 DEF ServerInv

\* Connections are accepted by the thread of m_MainIo.
LEMMA AcceptKeepsInv ==
    ASSUME ServerInv, handleAccept
    PROVE  ServerInv'
<1>1. /\ conn \in [Clients -> {"away", "waiting", "left", "open", "answered"}]
      /\ ioOf \in [Clients -> 0 .. IoPoolSize] /\ m_Acceptor \in 0 .. IoPoolSize
      /\ \A c \in Clients : conn[c] \in {"open", "answered"} => ioOf[c] # 0
      /\ backlog \in Seq(Clients)
  BY DEF ServerInv, ServerTypeOK, ProcessTyped
<1>2. UNCHANGED <<runAt, m_MainIo, m_IoThreads, started, stopping, stopAt,
                  crashed, pc, g_NeedStop>> /\ m_Acceptor # 0
  BY DEF handleAccept, processVars, poolVars, workerVars
<1>3. m_Acceptor' \in DOMAIN m_IoThreads
  BY DEF handleAccept, accepted, acceptFailed, startAccept
<1>4. backlog' \in Seq(Clients)
  <2>1. backlog # <<>> => Tail(backlog) \in Seq(Clients)
    BY <1>1
  <2>2. QED
    BY <1>1, <2>1 DEF handleAccept, accepted, acceptFailed
<1>5. /\ conn' \in [Clients -> {"away", "waiting", "left", "open", "answered"}]
      /\ ioOf' \in [Clients -> 0 .. IoPoolSize]
      /\ \A c \in Clients : conn'[c] \in {"open", "answered"} => ioOf'[c] # 0
  <2>1. CASE UNCHANGED <<conn, ioOf>>
    BY <1>1, <2>1
  <2>2. ASSUME NEW c, conn' = [conn EXCEPT ![c] = "open"],
               ioOf' = [ioOf EXCEPT ![c] = m_Acceptor]
        PROVE  /\ conn' \in [Clients -> {"away", "waiting", "left", "open", "answered"}]
               /\ ioOf' \in [Clients -> 0 .. IoPoolSize]
               /\ \A d \in Clients : conn'[d] \in {"open", "answered"} => ioOf'[d] # 0
    BY <1>1, <1>2, <2>2
  <2>3. QED
    BY <2>1, <2>2 DEF handleAccept, accepted, acceptFailed
<1>6. QED
  BY <1>2, <1>3, <1>4, <1>5, QuietKeepsInv

\* Requests and answers, connections and signals that come and go.
LEMMA OutsideKeepsInv ==
    ASSUME ServerInv, NEW c \in Clients, NEW i \in 1 .. IoPoolSize, NEW s,
           \/ readRequest(i) \/ writeAnswer(i) \/ handleHUP
           \/ Signal(s) \/ Connect(c) \/ Leave(c)
    PROVE  ServerInv'
<1>1. /\ conn \in [Clients -> {"away", "waiting", "left", "open", "answered"}]
      /\ ioOf \in [Clients -> 0 .. IoPoolSize] /\ backlog \in Seq(Clients)
      /\ \A d \in Clients : conn[d] \in {"open", "answered"} => ioOf[d] # 0
  BY DEF ServerInv, ServerTypeOK, ProcessTyped
<1>2. UNCHANGED <<runAt, m_MainIo, m_IoThreads, started, stopping, stopAt,
                  crashed, pc, g_NeedStop>>
  BY DEF readRequest, Submit, writeAnswer, handleHUP, Signal, Connect, Leave,
         processVars, poolVars, workerVars
<1>3. UNCHANGED <<m_Acceptor, ioOf>>
  BY DEF readRequest, writeAnswer, handleHUP, Signal, Connect, Leave, connVars
<1>4. backlog' \in Seq(Clients)
  <2>1. Append(backlog, c) \in Seq(Clients)
    BY <1>1
  <2>2. QED
    BY <1>1, <2>1 DEF readRequest, writeAnswer, handleHUP, Signal, Connect, Leave,
                      connVars
<1>5. /\ conn' \in [Clients -> {"away", "waiting", "left", "open", "answered"}]
      /\ \A d \in Clients : conn'[d] \in {"open", "answered"} => ioOf[d] # 0
  <2>1. CASE UNCHANGED conn
    BY <1>1, <2>1
  <2>2. ASSUME NEW d \in Clients, conn[d] = "open",
               conn' = [conn EXCEPT ![d] = "answered"]
        PROVE  /\ conn' \in [Clients -> {"away", "waiting", "left", "open", "answered"}]
               /\ \A e \in Clients : conn'[e] \in {"open", "answered"} => ioOf[e] # 0
    BY <1>1, <2>2
  <2>3. ASSUME NEW state \in {"waiting", "left"},
               conn' = [conn EXCEPT ![c] = state]
        PROVE  /\ conn' \in [Clients -> {"away", "waiting", "left", "open", "answered"}]
               /\ \A e \in Clients : conn'[e] \in {"open", "answered"} => ioOf[e] # 0
    BY <1>1, <2>3
  <2>4. QED
    BY <2>1, <2>2, <2>3 DEF readRequest, writeAnswer, handleHUP, Signal, Connect,
                            Leave, connVars
<1>6. QED
  BY <1>1, <1>2, <1>3, <1>4, <1>5, QuietKeepsInv

\* What a step of run() leaves alone.
LEMMA RunFrame ==
    ASSUME NEW from, NEW to, RunStep(from, to)
    PROVE  /\ runAt = from /\ runAt' = to
           /\ UNCHANGED <<stopping, stopAt, backlog, conn, ioOf, crashed, pc, g_NeedStop>>
BY DEF RunStep, poolVars, workerVars

\* run() starts the thread of m_MainIo.
LEMMA StartMainKeepsInv ==
    ASSUME ServerInv, startMainIo
    PROVE  ServerInv'
<1>1. /\ runAt = "main" /\ runAt' = "push"
      /\ m_MainIo' = [stopped |-> FALSE, thread |-> "running"]
      /\ UNCHANGED <<m_IoThreads, started, m_Acceptor, stopping, stopAt, backlog,
                     conn, ioOf, crashed, pc, g_NeedStop>>
  BY RunFrame DEF startMainIo, Start
<1>2. ServerTypeOK'
  BY <1>1 DEF ServerInv, ServerTypeOK, IoThread
<1>3. ProcessTyped'
  BY <1>1 DEF ServerInv, ProcessTyped
<1>4. stopAt = "none"
  BY <1>1 DEF ServerInv, Made
<1>5. Made' /\ Joined' /\ LeavesAfterStop'
  BY <1>1, <1>4 DEF ServerInv, Made, Joined, LeavesAfterStop, At
<1>6. GoesThrough' /\ LoopInPool'
  BY <1>1, <1>4 DEF ServerInv, GoesThrough, LoopInPool
<1>7. QED
  BY <1>2, <1>3, <1>5, <1>6 DEF ServerInv

\* run() makes a thread of the pool.
LEMMA PushKeepsInv ==
    ASSUME ServerInv, pushIoThread
    PROVE  ServerInv'
<1>1. /\ runAt = "push" /\ runAt' = "start"
      /\ m_IoThreads' = Append(m_IoThreads, NewIoThread)
      /\ UNCHANGED <<m_MainIo, started, m_Acceptor, stopping, stopAt, backlog,
                     conn, ioOf, crashed, pc, g_NeedStop>>
  BY RunFrame DEF pushIoThread
<1>2. NewIoThread \in IoThread
  BY DEF NewIoThread, IoThread
<1>3. m_IoThreads' \in Seq(IoThread) /\ Len(m_IoThreads') = Len(m_IoThreads) + 1
  <2>1. PICK s \in Seq(IoThread), io \in IoThread : s = m_IoThreads /\ io = NewIoThread
    BY <1>2, ProcessTypes
  <2>2. Append(s, io) \in Seq(IoThread) /\ Len(Append(s, io)) = Len(s) + 1
    OBVIOUS
  <2>3. QED
    BY <1>1, <2>1, <2>2
<1>4. Len(m_IoThreads) < IoPoolSize /\ Len(m_IoThreads) \in Nat /\ IoPoolSize \in Nat
  BY <1>1, ProcessTypes DEF ServerInv, Made
<1>5. PICK n \in Nat : n = Len(m_IoThreads) /\ Len(m_IoThreads') = n + 1 /\ n < IoPoolSize
  BY <1>3, <1>4
<1>6. ServerTypeOK'
  <2>1. Len(m_IoThreads') <= IoPoolSize
    BY <1>4, <1>5
  <2>2. QED
    BY <1>1, <1>3, <2>1 DEF ServerInv, ServerTypeOK
<1>7. ProcessTyped'
  <2>1. m_Acceptor <= Len(m_IoThreads')
    BY <1>5, ProcessTypes DEF ServerInv, ProcessTyped
  <2>2. QED
    BY <1>1, <2>1 DEF ServerInv, ProcessTyped
<1>8. Made' /\ Joined'
  BY <1>1, <1>5 DEF Made, Joined
<1>9. LeavesAfterStop'
  BY <1>1 DEF ServerInv, LeavesAfterStop, At
<1>10. stopAt \in {"none", "push", "start"}
  BY <1>1 DEF ServerInv, GoesThrough
<1>11. LoopInPool'
  BY <1>1, <1>5, ProcessTypes DEF ServerInv, LoopInPool
<1>12. QED
  BY <1>1, <1>6, <1>7, <1>8, <1>9, <1>10, <1>11 DEF ServerInv, GoesThrough

\* run() starts a thread of the pool.
LEMMA StartIoKeepsInv ==
    ASSUME ServerInv, startIoThread
    PROVE  ServerInv'
<1>1. PICK n : n = Len(m_IoThreads)
  OBVIOUS
<1>2. /\ runAt = "start" /\ runAt' = (IF n = IoPoolSize THEN "db" ELSE "push")
      /\ m_IoThreads' = [m_IoThreads EXCEPT ![n] = [stopped |-> FALSE, thread |-> "running"]]
      /\ UNCHANGED <<m_MainIo, started, m_Acceptor, stopping, stopAt, backlog,
                     conn, ioOf, crashed, pc, g_NeedStop>>
  BY <1>1, RunFrame DEF startIoThread, Start
<1>3. n \in DOMAIN m_IoThreads /\ n \in Nat /\ n <= IoPoolSize /\ IoPoolSize \in Nat
  BY <1>1, <1>2, ProcessTypes DEF ServerInv, Made, ServerTypeOK
<1>4. m_IoThreads' \in Seq(IoThread) /\ Len(m_IoThreads)' = n
  <2>1. [stopped |-> FALSE, thread |-> "running"] \in IoThread
    BY DEF IoThread
  <2>2. QED
    BY <1>1, <1>2, <1>3, <2>1, PoolExcept
<1>5. ServerTypeOK'
  BY <1>2, <1>3, <1>4 DEF ServerInv, ServerTypeOK
<1>6. ProcessTyped'
  BY <1>1, <1>2, <1>4 DEF ServerInv, ProcessTyped
<1>7. Made' /\ Joined'
  BY <1>2, <1>3, <1>4 DEF Made, Joined
<1>8. LeavesAfterStop'
  BY <1>2 DEF ServerInv, LeavesAfterStop, At
<1>9. stopAt \in {"none", "push", "start"}
  BY <1>2 DEF ServerInv, GoesThrough
<1>10. LoopInPool'
  BY <1>1, <1>2, <1>4 DEF ServerInv, LoopInPool
<1>11. QED
  BY <1>2, <1>5, <1>6, <1>7, <1>8, <1>9, <1>10 DEF ServerInv, GoesThrough

\* run() starts the database threads and the first accept, and joins.
LEMMA RunOnKeepsInv ==
    ASSUME ServerInv, runDb \/ firstAccept \/ joinThreads
    PROVE  ServerInv'
<1>1. /\ runAt \in {"db", "accept", "joinDb", "joinMain", "joinIo"}
      /\ runAt' \in {"db", "accept", "joinDb", "joinMain", "joinIo", "returned"}
      /\ started' \subseteq Workers
      /\ m_Acceptor' = m_Acceptor \/ m_Acceptor' \in DOMAIN m_IoThreads
      /\ UNCHANGED <<m_MainIo, m_IoThreads, stopping, stopAt, backlog, conn, ioOf,
                     crashed, pc, g_NeedStop>>
  <2>1. started \subseteq Workers
    BY DEF ServerInv, ServerTypeOK
  <2>2. CASE runDb
    <3>1. /\ UNCHANGED <<m_MainIo, m_IoThreads, m_Acceptor>>
          /\ \E w \in Workers \ started :
               /\ started' = started \cup {w}
               /\ RunStep("db", IF started' = Workers THEN "accept" ELSE "db")
      BY <2>2 DEF runDb
    <3>2. PICK w \in Workers \ started :
            /\ started' = started \cup {w}
            /\ RunStep("db", IF started' = Workers THEN "accept" ELSE "db")
      BY <3>1
    <3>3. PICK to : to = (IF started' = Workers THEN "accept" ELSE "db")
      OBVIOUS
    <3>4. RunStep("db", to)
      BY <3>2, <3>3
    <3>5. QED
      BY <2>1, <3>1, <3>2, <3>3, <3>4, RunFrame
  <2>3. CASE firstAccept
    BY <2>1, <2>3, RunFrame DEF firstAccept, startAccept
  <2>4. CASE joinThreads
    BY <2>1, <2>4, RunFrame DEF joinThreads
  <2>5. QED
    BY <2>2, <2>3, <2>4
<1>2. m_Acceptor' \in 0 .. IoPoolSize /\ m_Acceptor' <= Len(m_IoThreads)
  <2>1. /\ m_Acceptor \in 0 .. IoPoolSize /\ m_Acceptor <= Len(m_IoThreads)
        /\ Len(m_IoThreads) <= IoPoolSize
    BY DEF ServerInv, ServerTypeOK, ProcessTyped
  <2>2. QED
    BY <1>1, <2>1, ProcessTypes
<1>3. ServerTypeOK'
  BY <1>1, <1>2 DEF ServerInv, ServerTypeOK
<1>4. ProcessTyped' /\ Made'
  BY <1>1, <1>2 DEF ServerInv, ProcessTyped, Made
<1>5. Joined'
  <2>1. CASE runDb \/ firstAccept
    <3>1. runAt' \in {"db", "accept", "joinDb"}
      BY <2>1 DEF runDb, firstAccept, RunStep
    <3>2. QED
      BY <3>1 DEF Joined
  <2>2. CASE joinThreads
    <3>1. CASE runAt = "joinDb"
      BY <1>1, <2>2, <3>1 DEF joinThreads, RunStep, Joined, At
    <3>2. CASE runAt = "joinMain"
      BY <1>1, <2>2, <3>2 DEF joinThreads, RunStep, ServerInv, Joined, At
    <3>3. CASE runAt = "joinIo"
      BY <1>1, <2>2, <3>3 DEF joinThreads, RunStep, ServerInv, Joined, At
    <3>4. QED
      BY <2>2, <3>1, <3>2, <3>3 DEF joinThreads, RunStep
  <2>3. QED
    BY <2>1, <2>2
<1>6. LeavesAfterStop' /\ GoesThrough' /\ LoopInPool'
  BY <1>1 DEF ServerInv, LeavesAfterStop, GoesThrough, LoopInPool, At
<1>7. QED
  BY <1>3, <1>4, <1>5, <1>6 DEF ServerInv

\* A signal to stop is handled.
LEMMA HandleStopKeepsInv ==
    ASSUME ServerInv, ~crashed, handleStop
    PROVE  ServerInv'
<1>1. /\ m_MainIo.thread = "running" /\ ~m_MainIo.stopped /\ g_NeedStop' = TRUE
      /\ m_MainIo' = [m_MainIo EXCEPT !.stopped = TRUE]
      /\ stopping' = [now |-> TRUE, next |-> 1, last |-> Len(m_IoThreads)]
      /\ stopAt' = runAt
      /\ UNCHANGED <<m_Acceptor, backlog, conn, ioOf, runAt, m_IoThreads, started,
                     crashed, pc>>
  BY DEF handleStop, MainIsFree, Serves, Stop, StopIo, connVars
<1>2. /\ m_MainIo' \in IoThread /\ m_MainIo'.stopped = TRUE
      /\ m_MainIo'.thread = m_MainIo.thread
  BY <1>1, ProcessTypes DEF IoThread
<1>3. /\ stopping' \in [now : BOOLEAN, next : Nat, last : Nat]
      /\ stopping'.now = TRUE /\ stopping'.next = 1
      /\ stopping'.last = Len(m_IoThreads)
  BY <1>1, ProcessTypes
<1>4. runAt # "main" /\ runAt # "none"
  BY <1>1 DEF ServerInv, Made, ServerTypeOK
<1>5. ServerTypeOK'
  BY <1>1, <1>2 DEF ServerInv, ServerTypeOK
<1>6. ProcessTyped'
  BY <1>1, <1>3, <1>4 DEF ServerInv, ProcessTyped
<1>7. Made'
  BY <1>1, <1>4 DEF ServerInv, Made
<1>8. Joined'
  BY <1>1, <1>2 DEF ServerInv, Joined, At
<1>9. LeavesAfterStop'
  BY <1>1, <1>2, <1>4 DEF LeavesAfterStop
<1>10. GoesThrough'
  <2>1. \A i \in DOMAIN m_IoThreads : ~(i < 1)
    BY ProcessTypes
  <2>2. QED
    BY <1>1, <1>3, <1>4, <2>1 DEF GoesThrough
<1>11. LoopInPool'
  BY <1>1, <1>3, ProcessTypes DEF LoopInPool
<1>12. QED
  BY <1>5, <1>6, <1>7, <1>8, <1>9, <1>10, <1>11 DEF ServerInv

\* The loop of the handler: the next thread is told, or it is through, or the
\* vector has moved under it.
LEMMA StopIoKeepsInv ==
    ASSUME ServerInv, stopIoThread
    PROVE  ServerInv'
<1>1. /\ stopping.now
      /\ UNCHANGED <<m_Acceptor, backlog, conn, ioOf, runAt, m_MainIo, started,
                     stopAt, pc, g_NeedStop>>
  BY DEF stopIoThread, connVars, poolVars, workerVars
<1>2. PICK next, last \in Nat : next = stopping.next /\ last = stopping.last
  BY ProcessTypes
<1>3. next >= 1 /\ last <= Len(m_IoThreads)
  BY <1>1, <1>2 DEF ServerInv, LoopInPool
<1>4. stopping \in [now : BOOLEAN, next : Nat, last : Nat]
  BY DEF ServerInv, ProcessTyped
<1>5. LeavesAfterStop'
  <2>1. stopAt # "none"
    BY <1>1 DEF ServerInv, LeavesAfterStop
  <2>2. QED
    BY <1>1, <2>1 DEF ServerInv, LeavesAfterStop
<1>6. CASE /\ next <= last
           /\ m_IoThreads' = [m_IoThreads EXCEPT ![next] = StopIo(@)]
           /\ stopping' = [stopping EXCEPT !.next = @ + 1]
           /\ UNCHANGED crashed
  <2>1. next \in DOMAIN m_IoThreads
    BY <1>3, <1>6, ProcessTypes
  <2>2. PICK io : io = StopIo(m_IoThreads[next])
    OBVIOUS
  <2>3. io \in IoThread /\ io.stopped = TRUE /\ io.thread = m_IoThreads[next].thread
    BY <2>1, <2>2, ProcessTypes DEF StopIo, IoThread
  <2>4. m_IoThreads' = [m_IoThreads EXCEPT ![next] = io]
    BY <1>6, <2>2
  <2>5. /\ m_IoThreads' \in Seq(IoThread) /\ Len(m_IoThreads)' = Len(m_IoThreads)
        /\ DOMAIN m_IoThreads' = DOMAIN m_IoThreads
        /\ m_IoThreads'[next] = io
        /\ \A j \in DOMAIN m_IoThreads : j # next => m_IoThreads'[j] = m_IoThreads[j]
    BY <2>1, <2>3, <2>4, PoolExcept
  <2>6. /\ stopping' \in [now : BOOLEAN, next : Nat, last : Nat]
        /\ stopping'.now /\ stopping'.next = next + 1 /\ stopping'.last = last
    BY <1>1, <1>2, <1>4, <1>6
  <2>7. ServerTypeOK' /\ ProcessTyped' /\ Made'
    BY <1>1, <2>5, <2>6 DEF ServerInv, ServerTypeOK, ProcessTyped, Made
  <2>8. Joined'
    BY <1>1, <2>1, <2>3, <2>5 DEF ServerInv, Joined, At
  <2>9. GoesThrough'
    <3>1. SUFFICES ASSUME stopAt \notin {"none", "push", "start"} PROVE GoesThrough'
      BY <1>1 DEF GoesThrough
    <3>2. /\ ~crashed /\ runAt \notin {"main", "push", "start"}
          /\ last = Len(m_IoThreads)
          /\ \A i \in DOMAIN m_IoThreads : i < next => m_IoThreads[i].stopped
      BY <1>2, <3>1 DEF ServerInv, GoesThrough
    <3>3. ASSUME NEW i \in DOMAIN m_IoThreads, i < next + 1
          PROVE  m_IoThreads'[i].stopped
      <4>1. i \in Nat
        BY ProcessTypes
      <4>2. CASE i = next
        BY <2>3, <2>5, <4>2
      <4>3. CASE i # next
        <5>1. i < next
          BY <3>3, <4>1, <4>3
        <5>2. QED
          BY <2>5, <3>2, <4>3, <5>1
      <4>4. QED
        BY <4>2, <4>3
    <3>4. next + 1 >= 1
      BY <1>2
    <3>5. QED
      BY <1>1, <1>6, <2>5, <2>6, <3>2, <3>3, <3>4 DEF GoesThrough
  <2>10. LoopInPool'
    BY <1>2, <1>3, <2>5, <2>6 DEF LoopInPool
  <2>11. QED
    BY <1>5, <2>7, <2>8, <2>9, <2>10 DEF ServerInv
<1>7. CASE /\ next > last
           /\ stopping' = [stopping EXCEPT !.now = FALSE]
           /\ UNCHANGED <<m_IoThreads, crashed>>
  <2>1. /\ stopping' \in [now : BOOLEAN, next : Nat, last : Nat]
        /\ stopping'.now = FALSE /\ stopping'.next = next /\ stopping'.last = last
    BY <1>2, <1>4, <1>7
  <2>2. ServerTypeOK' /\ ProcessTyped' /\ Made' /\ Joined'
    BY <1>1, <1>7, <2>1 DEF ServerInv, ServerTypeOK, ProcessTyped, Made, Joined, At
  <2>3. GoesThrough'
    BY <1>1, <1>2, <1>7, <2>1 DEF ServerInv, GoesThrough
  <2>4. LoopInPool'
    BY <2>1 DEF LoopInPool
  <2>5. QED
    BY <1>5, <2>2, <2>3, <2>4 DEF ServerInv
<1>8. CASE /\ Len(m_IoThreads) # last
           /\ UNCHANGED <<m_IoThreads, stopping>>
  <2>1. stopAt \in {"none", "push", "start"}
    BY <1>2, <1>8 DEF ServerInv, GoesThrough
  <2>2. ServerTypeOK' /\ ProcessTyped' /\ Made' /\ Joined'
    BY <1>1, <1>8 DEF ServerInv, ServerTypeOK, ProcessTyped, Made, Joined, At
  <2>3. GoesThrough' /\ LoopInPool'
    BY <1>1, <1>8, <2>1 DEF ServerInv, GoesThrough, LoopInPool
  <2>4. QED
    BY <1>5, <2>2, <2>3 DEF ServerInv
<1>9. QED
  BY <1>2, <1>6, <1>7, <1>8 DEF stopIoThread

\* The thread of m_MainIo leaves.
LEMMA MainExitsKeepsInv ==
    ASSUME ServerInv, mainExits
    PROVE  ServerInv'
<1>1. /\ m_MainIo.thread = "running" /\ m_MainIo.stopped
      /\ m_MainIo' = [m_MainIo EXCEPT !.thread = "exited"]
      /\ UNCHANGED <<m_Acceptor, backlog, conn, ioOf, runAt, m_IoThreads, started,
                     stopping, stopAt, crashed, pc, g_NeedStop>>
  BY DEF mainExits, Exits, Exited, connVars, poolVars, workerVars
<1>2. /\ m_MainIo' \in IoThread /\ m_MainIo'.stopped
      /\ m_MainIo'.thread = "exited"
  BY <1>1, ProcessTypes DEF IoThread
<1>3. runAt # "main" /\ stopAt # "none"
  BY <1>1 DEF ServerInv, Made, LeavesAfterStop
<1>4. ServerTypeOK' /\ ProcessTyped' /\ Made' /\ Joined'
  BY <1>1, <1>2, <1>3 DEF ServerInv, ServerTypeOK, ProcessTyped, Made, Joined, At
<1>5. LeavesAfterStop' /\ GoesThrough' /\ LoopInPool'
  BY <1>1, <1>2, <1>3 DEF ServerInv, LeavesAfterStop, GoesThrough, LoopInPool
<1>6. QED
  BY <1>4, <1>5 DEF ServerInv

\* A thread of the pool leaves.
LEMMA IoExitsKeepsInv ==
    ASSUME ServerInv, NEW i \in DOMAIN m_IoThreads,
           m_IoThreads' = [m_IoThreads EXCEPT ![i] = Exited(@)],
           UNCHANGED <<m_Acceptor, backlog, conn, ioOf, runAt, m_MainIo, started,
                       stopping, stopAt, crashed, pc, g_NeedStop>>
    PROVE  ServerInv'
<1>1. PICK io : io = Exited(m_IoThreads[i])
  OBVIOUS
<1>2. /\ io \in IoThread /\ io.stopped = m_IoThreads[i].stopped
      /\ io.thread = "exited"
  BY <1>1, ProcessTypes DEF Exited, IoThread
<1>3. m_IoThreads' = [m_IoThreads EXCEPT ![i] = io]
  BY <1>1
<1>4. /\ m_IoThreads' \in Seq(IoThread) /\ Len(m_IoThreads)' = Len(m_IoThreads)
      /\ DOMAIN m_IoThreads' = DOMAIN m_IoThreads
      /\ m_IoThreads'[i] = io
      /\ \A j \in DOMAIN m_IoThreads : j # i => m_IoThreads'[j] = m_IoThreads[j]
  BY <1>2, <1>3, PoolExcept
<1>5. ServerTypeOK' /\ ProcessTyped' /\ Made' /\ LoopInPool'
  BY <1>4 DEF ServerInv, ServerTypeOK, ProcessTyped, Made, LoopInPool
<1>6. Joined' /\ LeavesAfterStop'
  BY <1>2, <1>4 DEF ServerInv, Joined, LeavesAfterStop, At
<1>7. \A j \in DOMAIN m_IoThreads : m_IoThreads'[j].stopped = m_IoThreads[j].stopped
  BY <1>2, <1>4
<1>8. GoesThrough'
  BY <1>4, <1>7 DEF ServerInv, GoesThrough
<1>9. QED
  BY <1>5, <1>6, <1>8 DEF ServerInv

\* A database thread works on, or leaves.
LEMMA DbThreadKeepsInv ==
    ASSUME ServerInv, WorkerTypeOK, NEW w \in Workers, dbThread(w)
    PROVE  ServerInv'
<1>1. /\ pc[w] # "done" /\ g_NeedStop' = g_NeedStop
      /\ pc'[w] = "done" => g_NeedStop
      /\ \A v \in Workers : v # w => pc'[v] = pc[v]
  BY ThreadLeaves DEF dbThread
<1>2. UNCHANGED <<m_Acceptor, backlog, conn, ioOf, runAt, m_MainIo, m_IoThreads,
                  started, stopping, stopAt, crashed>>
  BY DEF dbThread, processVars, connVars
<1>3. ServerTypeOK' /\ ProcessTyped' /\ Made' /\ GoesThrough' /\ LoopInPool'
  BY <1>2 DEF ServerInv, ServerTypeOK, ProcessTyped, Made, GoesThrough, LoopInPool
<1>4. Joined'
  BY <1>1, <1>2 DEF ServerInv, Joined, At
<1>5. LeavesAfterStop'
  BY <1>1, <1>2 DEF ServerInv, LeavesAfterStop, At
<1>6. QED
  BY <1>3, <1>4, <1>5 DEF ServerInv

-----------------------------------------------------------------------------
(* Every step.                                                               *)

LEMMA ServerStepKeepsInv ==
    ASSUME ServerInv, WorkerTypeOK, [ServerNext]_serverVars
    PROVE  ServerInv'
<1>1. CASE UNCHANGED serverVars
  <2>1. UNCHANGED <<runAt, m_MainIo, m_IoThreads, started, stopping, stopAt, crashed,
                    pc, g_NeedStop, m_Acceptor, backlog, conn, ioOf>>
    BY <1>1 DEF serverVars, processVars, connVars, poolVars, workerVars
  <2>2. QED
    BY <2>1, QuietKeepsInv DEF ServerInv, ServerTypeOK, ProcessTyped
<1>2. CASE ServerNext
  <2>1. ~crashed
    BY <1>2 DEF ServerNext
  <2>2. CASE run
    BY <2>2, StartMainKeepsInv, PushKeepsInv, StartIoKeepsInv, RunOnKeepsInv DEF run
  <2>3. CASE handleStop \/ stopIoThread \/ mainExits
    BY <2>1, <2>3, HandleStopKeepsInv, StopIoKeepsInv, MainExitsKeepsInv
  <2>4. CASE handleHUP
    <3>1. /\ UNCHANGED <<runAt, m_MainIo, m_IoThreads, started, stopping, stopAt,
                         crashed, pc, g_NeedStop, m_Acceptor, backlog, conn, ioOf>>
      BY <2>4 DEF handleHUP, connVars, poolVars, workerVars
    <3>2. QED
      BY <3>1, QuietKeepsInv DEF ServerInv, ServerTypeOK, ProcessTyped
  <2>5. CASE handleAccept
    BY <2>5, AcceptKeepsInv
  <2>6. CASE \E i \in 1 .. IoPoolSize : ioThread(i)
    <3>1. PICK i \in 1 .. IoPoolSize : ioThread(i)
      BY <2>6
    <3>2. CASE readRequest(i) \/ writeAnswer(i)
      <4>1. PICK c \in Clients : TRUE
        BY <3>2 DEF readRequest, writeAnswer
      <4>2. QED
        BY <3>2, <4>1, OutsideKeepsInv
    <3>3. CASE /\ Exits(m_IoThreads[i])
               /\ m_IoThreads' = [m_IoThreads EXCEPT ![i] = Exited(@)]
               /\ UNCHANGED <<poolVars, connVars, runAt, m_MainIo, started, signals,
                              m_Signals, stopping, stopAt, crashed>>
      <4>1. UNCHANGED <<m_Acceptor, backlog, conn, ioOf, runAt, m_MainIo, started,
                        stopping, stopAt, crashed, pc, g_NeedStop>>
        BY <3>3 DEF connVars, poolVars, workerVars
      <4>2. i \in DOMAIN m_IoThreads
        BY <3>1 DEF ioThread
      <4>3. QED
        BY <3>3, <4>1, <4>2, IoExitsKeepsInv
    <3>4. QED
      BY <3>1, <3>2, <3>3 DEF ioThread
  <2>7. CASE \E w \in Workers : dbThread(w)
    BY <2>7, DbThreadKeepsInv
  <2>8. CASE \E s \in {"stop", "hup"} : Signal(s)
    <3>1. UNCHANGED <<runAt, m_MainIo, m_IoThreads, started, stopping, stopAt,
                      crashed, pc, g_NeedStop, m_Acceptor, backlog, conn, ioOf>>
      BY <2>8 DEF Signal, connVars, poolVars, workerVars
    <3>2. QED
      BY <3>1, QuietKeepsInv DEF ServerInv, ServerTypeOK, ProcessTyped
  <2>9. CASE \E c \in Clients : Connect(c) \/ Leave(c)
    <3>1. 1 \in 1 .. IoPoolSize
      BY IoPoolAssumption
    <3>2. QED
      BY <2>9, <3>1, OutsideKeepsInv
  <2>10. QED
    BY <1>2, <2>2, <2>3, <2>4, <2>5, <2>6, <2>7, <2>8, <2>9 DEF ServerNext
<1>3. QED
  BY <1>1, <1>2

LEMMA ServerInitFits == PoolInit /\ ServerInit => ServerInv
<1> SUFFICES ASSUME PoolInit, ServerInit PROVE ServerInv
  OBVIOUS
<1>1. /\ runAt = "main" /\ m_MainIo = [stopped |-> FALSE, thread |-> "none"]
      /\ m_IoThreads = <<>> /\ Len(m_IoThreads) = 0 /\ DOMAIN m_IoThreads = {}
      /\ started = {} /\ stopAt = "none" /\ m_Acceptor = 0 /\ backlog = <<>>
      /\ stopping = [now |-> FALSE, next |-> 0, last |-> 0] /\ crashed = FALSE
      /\ conn = [c \in Clients |-> "away"] /\ ioOf = [c \in Clients |-> 0]
  BY DEF ServerInit, NewIoThread
<1>2. pc = [w \in Workers |-> "check"] /\ g_NeedStop = FALSE
  BY DEF PoolInit, WorkerInit
<1>3. ServerTypeOK
  BY <1>1, IoPoolAssumption DEF ServerTypeOK, IoThread
<1>4. ProcessTyped
  BY <1>1 DEF ProcessTyped
<1>5. Made
  BY <1>1, IoPoolAssumption DEF Made
<1>6. Joined /\ LeavesAfterStop
  BY <1>1, <1>2 DEF Joined, LeavesAfterStop, At
<1>7. GoesThrough /\ LoopInPool
  BY <1>1 DEF GoesThrough, LoopInPool
<1>8. QED
  BY <1>3, <1>4, <1>5, <1>6, <1>7 DEF ServerInv

\* Start, stop, connections and threads, together.
THEOREM ServerInvariant == ServerSpec => [](PoolInv /\ ServerInv)
<1>1. StorageInv /\ PoolInit /\ ServerInit => PoolInv /\ ServerInv
  BY PoolInitFits, ServerInitFits
<1>2. PoolInv /\ ServerInv /\ [ServerNext]_serverVars => (PoolInv /\ ServerInv)'
  BY ServerKeepsPoolInv, ServerStepKeepsInv, PoolTyped
<1>3. QED
  BY <1>1, <1>2, PTL DEF ServerSpec

-----------------------------------------------------------------------------
(* What follows from it.                                                     *)

\* Types of the process and of its connections: a connection that is served has
\* an io thread of the pool.
THEOREM ServerTypes == ServerSpec => []ServerTypeOK
<1>1. ServerInv => ServerTypeOK
  BY DEF ServerInv
<1>2. QED
  BY <1>1, ServerInvariant, PTL

\* run() returns only after a stop, and nothing is left running then.
THEOREM ServerReturnsStopped == ServerSpec => []ReturnsStopped
<1>1. ServerInv => ReturnsStopped
  BY DEF ServerInv, ReturnsStopped, Joined, LeavesAfterStop
<1>2. QED
  BY <1>1, ServerInvariant, PTL

\* The loop of handleStop is right when it does not run beside that of run().
THEOREM ServerStopTellsAll == ServerSpec => []StopTellsAll
<1>1. ASSUME ServerInv PROVE StopTellsAll
  <2>1. SUFFICES ASSUME stopAt \notin {"none", "push", "start"}
                 PROVE  /\ ~crashed
                        /\ ~stopping.now => /\ m_MainIo.stopped
                                            /\ \A i \in DOMAIN m_IoThreads :
                                                 m_IoThreads[i].stopped
    BY DEF StopTellsAll
  <2>2. /\ ~crashed /\ stopping.last = Len(m_IoThreads)
        /\ \A i \in DOMAIN m_IoThreads : i < stopping.next => m_IoThreads[i].stopped
        /\ ~stopping.now => stopping.next > stopping.last
    BY <1>1, <2>1 DEF ServerInv, GoesThrough
  <2>3. m_MainIo.stopped
    BY <1>1, <2>1 DEF ServerInv, LeavesAfterStop
  <2>4. ASSUME ~stopping.now, NEW i \in DOMAIN m_IoThreads
        PROVE  m_IoThreads[i].stopped
    <3>1. PICK next, last, n \in Nat : /\ next = stopping.next
                                       /\ last = stopping.last /\ n = Len(m_IoThreads)
      BY <1>1, ProcessTypes
    <3>2. i \in 1 .. n /\ last = n /\ next > last
      BY <1>1, <2>2, <2>4, <3>1, ProcessTypes
    <3>3. i < next
      BY <3>2
    <3>4. QED
      BY <2>2, <3>1, <3>3
  <2>5. QED
    BY <2>2, <2>3, <2>4
<1>2. QED
  BY <1>1, ServerInvariant, PTL

\* What the database threads promise each caller holds in the whole server, when
\* threads start one by one, leave after a stop and leave tasks behind.
THEOREM ServerKeepsPromises ==
    ServerSpec => [](TaskConserved /\ OneCreatorWins /\ OnlyOwnMessages)
<1>1. PoolInv => TaskConserved /\ OneCreatorWins /\ OnlyOwnMessages
  BY PlacesConserve, DoneOnce, AnswersAreOwn
<1>2. QED
  BY <1>1, ServerInvariant, PTL

\* And the tables change only by whole operations of the storage, whenever the
\* process is stopped.
THEOREM ServerCallsStorage == ServerSpec => [][StorageNext]_storageVars
<1>1. PoolInv /\ [ServerNext]_serverVars => [StorageNext]_storageVars
  BY ServerKeepsPoolInv
<1>2. QED
  BY <1>1, ServerInvariant, PTL DEF ServerSpec
=============================================================================
