--------------------------- MODULE DatabaseWorker ---------------------------
(***************************************************************************)
(* The threads of DatabaseWorker (server/src/database_worker.cpp), the     *)
(* task queue they share (common/lock_queue.hpp) and the storage they      *)
(* work on.                                                                *)
(*                                                                         *)
(* processQueue takes the storage mutex several times per task.  One       *)
(* action is what a thread does up to and including its next access to     *)
(* shared state: a lock region of the storage or of the queue, a read of   *)
(* the clock, or the start of the answer.  Between two actions other       *)
(* threads run.  Rows are append-only, so the copy of a row that a lookup  *)
(* returns is represented by the row's position; a user's heartbit, the    *)
(* one field of a copy that can grow stale, is copied into the answer.     *)
(*                                                                         *)
(* Who puts tasks and who consumes the answers is left to the module that  *)
(* extends this one.                                                       *)
(***************************************************************************)
EXTENDS Storage

CONSTANTS
    Workers,      \* the threads of DatabaseWorker::run
    Clients,      \* the ApiClient objects tasks point back to
    Passwords,
    Crc32,        \* utils::crc32, not injective
    Word          \* 2^32: get_msg_opt_t::max_count is a uint32_t

\* 1 is the time at which the threads start.
ASSUME WorkerAssumption ==
    /\ Crc32 \in [Passwords -> Hashes]
    /\ Word \in Nat \ {0}
    /\ 1 \in Time

VARIABLES
    queue,        \* m_Queue
    pc,           \* where each thread stands in processQueue
    task,         \* its db::Task
    loc,          \* its other locals
    writes,       \* per client, the asyncRequest calls made, in order
    now,          \* time(NULL)
    g_NeedStop

workerVars == <<queue, pc, task, loc, writes, now, g_NeedStop>>

-----------------------------------------------------------------------------
(* Tasks and answers.                                                        *)

Commands == {"IDLE", "USER_STATUS", "USER_HISTORY", "MESSAGE_SEND",
             "USER_CREATE", "USER_LOGIN", "CHAT_CREATE", "CHAT_ADDUSER",
             "MESSAGE_SEND_CHAT", "CHAT_HISTORY"}

\* RequestDetails::Params.
Params == [uid : Nat, ts : Time, count : Nat, message : Texts,
           to_user : Names, user : Names, chatname : Names, adduser : Names,
           password : Passwords]

Task == [cmd : Commands, request : Params, ping : BOOLEAN, client : Clients]

NoTask == [cmd |-> "none"]

\* The name that lookup_check_pass_by_name, or MESSAGE_SEND, looks for.
PeerName(t) == CASE t.cmd = "MESSAGE_SEND" -> t.request.to_user
                 [] t.cmd = "CHAT_ADDUSER" -> t.request.adduser
                 [] OTHER                  -> t.request.user

Statuses == {"ok", "bad request", "user does not exist", "wrong password",
             "more than one user with that name", "user already exists",
             "chat already exists", "chat does not exist"}

\* What is written to the peer, and which lambda is the completion handler:
\* "cmd" calls responseToClientWroteHandler, "idle" is the one of
\* sendMessagesToIdleConn and "ack" the one of sendOkResponseAndStartIdle.
\* A message is a position in the message table together with the lookup that
\* returned it: a chatuser row, or 1 and 2 for the two of USER_HISTORY.
Response == [handler : {"cmd", "idle", "ack"}, status : Statuses,
             msgs : SUBSET (Nat \X Nat), heartbit : Time]

Plain(handler, status) ==
    [handler |-> handler, status |-> status, msgs |-> {}, heartbit |-> 0]

Messages(handler, msgs) ==
    [handler |-> handler, status |-> "ok", msgs |-> msgs, heartbit |-> 0]

Profile(i) ==
    [handler |-> "cmd", status |-> "ok", msgs |-> {},
     heartbit |-> users[i].heartbit]

\* user, peer: row of the user; chat: id; todo: rows of chatuser still to read
Locals == [user : Nat, peer : Nat, chat : Nat, ts : Time, todo : SUBSET Nat,
           batch : SUBSET (Nat \X Nat), reply : Response]

NoLocals == [user |-> 0, peer |-> 0, chat |-> 0, ts |-> 0, todo |-> {},
             batch |-> {}, reply |-> Plain("cmd", "ok")]

Stages == {"check", "getTask", "auth", "byName", "byChat", "clock", "save",
           "createUser", "createChat", "addUser", "heartbit", "listChats",
           "poll", "selectTo", "selectFrom", "send", "done"}

WorkerInit ==
    /\ queue = <<>>
    /\ pc = [w \in Workers |-> "check"]
    /\ task = [w \in Workers |-> NoTask]
    /\ loc = [w \in Workers |-> NoLocals]
    /\ writes = [c \in Clients |-> <<>>]
    /\ now = 1
    /\ g_NeedStop = FALSE

putTask(t) == queue' = Append(queue, t)

-----------------------------------------------------------------------------
(* Steps from one stage to another.                                          *)

At(w, stage) == pc[w] = stage

Goto(w, stage) ==
    /\ pc' = [pc EXCEPT ![w] = stage]
    /\ UNCHANGED <<queue, task, writes, now, g_NeedStop>>

Answer(w, reply) ==
    /\ Goto(w, "send")
    /\ loc' = [loc EXCEPT ![w].reply = reply]

Refuse(w, status) == Answer(w, Plain("cmd", status))

\* The end of an iteration: the locals go out of scope.
NextIteration(w) ==
    /\ pc' = [pc EXCEPT ![w] = "check"]
    /\ task' = [task EXCEPT ![w] = NoTask]
    /\ loc' = [loc EXCEPT ![w] = NoLocals]

\* while (!g_NeedStop)
checkStop(w) ==
    /\ At(w, "check")
    /\ Goto(w, IF g_NeedStop THEN "done" ELSE "getTask")
    /\ UNCHANGED <<storageVars, loc>>

FirstStage(cmd) == CASE cmd = "USER_CREATE"  -> "createUser"
                     [] cmd = "USER_LOGIN"   -> "byName"
                     [] cmd = "CHAT_HISTORY" -> "check"
                     [] OTHER                -> "auth"

\* Slips: the front is copied and not popped; an empty queue is waited on
\* without looking at g_NeedStop.
getTaskNoPop(w) ==
    /\ At(w, "getTask")
    /\ queue # <<>>
    /\ LET stage == FirstStage(Head(queue).cmd)
       IN  /\ pc' = [pc EXCEPT ![w] = stage]
           /\ task' = [task EXCEPT ![w] = IF stage = "check" THEN NoTask
                                                             ELSE Head(queue)]
    /\ UNCHANGED <<storageVars, queue, loc, writes, now, g_NeedStop>>

getTaskBlocking(w) ==
    /\ At(w, "getTask")
    /\ queue # <<>>
    /\ queue' = Tail(queue)
    /\ LET stage == FirstStage(Head(queue).cmd)
       IN  /\ pc' = [pc EXCEPT ![w] = stage]
           /\ task' = [task EXCEPT ![w] = IF stage = "check" THEN NoTask
                                                             ELSE Head(queue)]
    /\ UNCHANGED <<storageVars, loc, writes, now, g_NeedStop>>

\* An empty queue costs 10 ms of sleep.  CHAT_HISTORY has no branch in
\* processQueue: its task ends here.
getTask(w) ==
    /\ At(w, "getTask")
    /\ \/ /\ queue = <<>>
          /\ Goto(w, "check")
          /\ UNCHANGED <<storageVars, loc>>
       \/ /\ queue # <<>>
          /\ queue' = Tail(queue)
          /\ LET stage == FirstStage(Head(queue).cmd)
             IN  /\ pc' = [pc EXCEPT ![w] = stage]
                 /\ task' = [task EXCEPT
                               ![w] = IF stage = "check" THEN NoTask
                                                         ELSE Head(queue)]
          /\ UNCHANGED <<storageVars, loc, writes, now, g_NeedStop>>

-----------------------------------------------------------------------------
(* Lookups of the task's user, of the other user and of the chat.            *)

AfterAuth(cmd) == CASE cmd = "IDLE"              -> "clock"
                    [] cmd = "CHAT_CREATE"       -> "createChat"
                    [] cmd = "MESSAGE_SEND_CHAT" -> "byChat"
                    [] OTHER                     -> "byName"

PasswordMatches(w, i) == users[i].password = Crc32[task[w].request.password]

lookup_check_pass(w) ==
    LET found == lookupUserById(task[w].request.uid)
    IN  /\ At(w, "auth")
        /\ \/ found = {} /\ Refuse(w, "user does not exist")
           \/ \E i \in found : /\ ~PasswordMatches(w, i)
                               /\ Refuse(w, "wrong password")
           \/ \E i \in found : /\ PasswordMatches(w, i)
                               /\ Goto(w, AfterAuth(task[w].cmd))
                               /\ loc' = [loc EXCEPT ![w].user = i]
        /\ UNCHANGED storageVars

\* Slip: a message goes to the user's id instead of the id of its self chat.
UseUserId(w, i) ==
    /\ task[w].cmd = "MESSAGE_SEND"
    /\ Goto(w, "clock")
    /\ loc' = [loc EXCEPT ![w].chat = users[i].id]

\* What each command does with the one user of that name.
UseUser(w, i) ==
    \/ /\ task[w].cmd = "USER_LOGIN"
       /\ IF PasswordMatches(w, i) THEN Answer(w, Profile(i))
                                   ELSE Refuse(w, "wrong password")
    \/ /\ task[w].cmd = "USER_STATUS"
       /\ Answer(w, Profile(i))
    \/ /\ task[w].cmd = "USER_HISTORY"
       /\ Goto(w, "selectTo")
       /\ loc' = [loc EXCEPT ![w].peer = i]
    \/ /\ task[w].cmd = "MESSAGE_SEND"
       /\ Goto(w, "clock")
       /\ loc' = [loc EXCEPT ![w].chat = users[i].self_chat_id]
    \/ /\ task[w].cmd = "CHAT_ADDUSER"
       /\ Goto(w, "byChat")
       /\ loc' = [loc EXCEPT ![w].peer = i]

\* lookup_check_pass_by_name, and the same code inlined for MESSAGE_SEND.
lookup_check_pass_by_name(w) ==
    LET found == lookupUserByName(PeerName(task[w]))
    IN  /\ At(w, "byName")
        /\ \/ /\ Cardinality(found) # 1
              /\ Refuse(w, IF found = {} THEN "user does not exist"
                           ELSE "more than one user with that name")
           \/ \E i \in found : found = {i} /\ UseUser(w, i)
        /\ UNCHANGED storageVars

\* Slip: the first of several chats is taken.
lookupChatFirst(w) ==
    LET found == lookupChatByName(task[w].request.chatname)
    IN  /\ At(w, "byChat")
        /\ \/ found = {} /\ Refuse(w, "chat does not exist")
           \/ \E i \in found :
                /\ \A j \in found : i <= j
                /\ Goto(w, IF task[w].cmd = "CHAT_ADDUSER" THEN "addUser"
                                                           ELSE "clock")
                /\ loc' = [loc EXCEPT ![w].chat = chats[i].id]
        /\ UNCHANGED storageVars

\* lookupChatByName, and the test of the number of rows found.
lookupChat(w) ==
    LET found == lookupChatByName(task[w].request.chatname)
    IN  /\ At(w, "byChat")
        /\ \/ /\ Cardinality(found) # 1
              /\ Refuse(w, "chat does not exist")
           \/ \E i \in found :
                /\ found = {i}
                /\ Goto(w, IF task[w].cmd = "CHAT_ADDUSER" THEN "addUser"
                                                           ELSE "clock")
                /\ loc' = [loc EXCEPT ![w].chat = chats[i].id]
        /\ UNCHANGED storageVars

\* Slip: the timestamp is in milliseconds.
readClockMs(w) ==
    /\ At(w, "clock")
    /\ Goto(w, IF task[w].cmd = "IDLE" THEN "heartbit" ELSE "save")
    /\ loc' = [loc EXCEPT ![w].ts = 1000 * now]
    /\ UNCHANGED storageVars

\* time(NULL), an argument of updateUserHeartBit or the ts of a message: it is
\* read before the storage mutex is taken.
readClock(w) ==
    /\ At(w, "clock")
    /\ Goto(w, IF task[w].cmd = "IDLE" THEN "heartbit" ELSE "save")
    /\ loc' = [loc EXCEPT ![w].ts = now]
    /\ UNCHANGED storageVars

-----------------------------------------------------------------------------
(* Operations on the storage.                                                *)

\* Slip: the two ids of the Message constructor are swapped.
doSaveMessageSwapped(w) ==
    /\ At(w, "save")
    /\ saveMessage(loc[w].chat, users[loc[w].user].id, loc[w].ts,
                   task[w].request.message)
    /\ Answer(w, Plain("cmd", "ok"))

doSaveMessage(w) ==
    /\ At(w, "save")
    /\ saveMessage(users[loc[w].user].id, loc[w].chat, loc[w].ts,
                   task[w].request.message)
    /\ Answer(w, Plain("cmd", "ok"))

doCreateUser(w) ==
    LET r == task[w].request
    IN  /\ At(w, "createUser")
        /\ \/ /\ createUser(r.user, Crc32[r.password])
              /\ Answer(w, Plain("cmd", "ok"))
           \/ /\ lookupUserByName(r.user) # {}
              /\ Refuse(w, "user already exists")
              /\ UNCHANGED storageVars

doCreateChat(w) ==
    LET r == task[w].request
    IN  /\ At(w, "createChat")
        /\ \/ /\ createChat(r.chatname, r.uid)
              /\ Answer(w, Plain("cmd", "ok"))
           \/ /\ lookupChatByName(r.chatname) # {}
              /\ Refuse(w, "chat already exists")
              /\ UNCHANGED storageVars

doAddUserToChat(w) ==
    /\ At(w, "addUser")
    /\ addUserToChat(loc[w].chat, users[loc[w].peer].id)
    /\ Answer(w, Plain("cmd", "ok"))

doUpdateHeartBit(w) ==
    /\ At(w, "heartbit")
    /\ updateUserHeartBit(users[loc[w].user].id, loc[w].ts)
    /\ Goto(w, "listChats")
    /\ UNCHANGED loc

-----------------------------------------------------------------------------
(* IDLE: the new messages of each chat of the user, one lock region a chat.  *)

listChats(w) ==
    /\ At(w, "listChats")
    /\ Goto(w, "poll")
    /\ loc' = [loc EXCEPT ![w].todo =
                 lookupChatsForUserId(users[loc[w].user].id)]
    /\ UNCHANGED storageVars

\* Slip: the messages of a chat replace those of the chats before it.
pollChatLast(w) ==
    \E row \in loc[w].todo :
        LET found == {row} \X Newer(chatuser[row].chatid, task[w].request.ts,
                                    MessageLimit)
        IN  /\ At(w, "poll")
            /\ \A other \in loc[w].todo : row <= other
            /\ getMessages(chatuser[row].chatid, task[w].request.ts, MessageLimit)
            /\ loc' = [loc EXCEPT
                         ![w].todo = @ \ {row},
                         ![w].batch = IF found = {} THEN @ ELSE found]
            /\ UNCHANGED <<queue, pc, task, writes, now, g_NeedStop>>

pollChat(w) ==
    \E row \in loc[w].todo :
        LET chatid == chatuser[row].chatid
            ts == task[w].request.ts
        IN  /\ At(w, "poll")
            /\ \A other \in loc[w].todo : row <= other
            /\ getMessages(chatid, ts, MessageLimit)
            /\ loc' = [loc EXCEPT
                         ![w].todo = @ \ {row},
                         ![w].batch = @ \cup ({row} \X Newer(chatid, ts, MessageLimit))]
            /\ UNCHANGED <<queue, pc, task, writes, now, g_NeedStop>>

\* Nothing new is answered only when the task asks for a ping.
endPoll(w) ==
    /\ At(w, "poll")
    /\ loc[w].todo = {}
    /\ \/ /\ loc[w].batch # {} \/ task[w].ping
          /\ Answer(w, Messages("idle", loc[w].batch))
       \/ /\ loc[w].batch = {} /\ ~task[w].ping
          /\ NextIteration(w)
          /\ UNCHANGED <<queue, writes, now, g_NeedStop>>
    /\ UNCHANGED storageVars

-----------------------------------------------------------------------------
(* USER_HISTORY: two selections in two lock regions, then the mix.           *)

HistoryLimit(w) == (2 * task[w].request.count) % Word

selectTo(w) ==
    /\ At(w, "selectTo")
    /\ Goto(w, "selectFrom")
    /\ loc' = [loc EXCEPT ![w].batch =
                 {1} \X selectMessages(users[loc[w].user].id,
                                       users[loc[w].peer].self_chat_id,
                                       HistoryLimit(w))]
    /\ UNCHANGED storageVars

\* The results mix_from_and_to_messages can return: std::sort is not stable, so
\* any choice among equal timestamps at the cut.
Mixes(msgs, max) ==
    LET ts(m) == messages[m[2]].ts
    IN  IF Cardinality(msgs) <= max THEN {msgs}
        ELSE {kept \in SUBSET msgs :
                /\ Cardinality(kept) = max
                /\ \A m \in kept, n \in msgs \ kept : ts(m) >= ts(n)}

selectFrom(w) ==
    LET found == {2} \X selectMessages(users[loc[w].peer].id,
                                       users[loc[w].user].self_chat_id,
                                       HistoryLimit(w))
    IN  /\ At(w, "selectFrom")
        /\ \E mix \in Mixes(loc[w].batch \cup found, task[w].request.count) :
             Answer(w, Messages("cmd", mix))
        /\ UNCHANGED storageVars

-----------------------------------------------------------------------------

\* task.client->sendXXX: the answer is handed to asyncRequest.
respond(w) ==
    /\ At(w, "send")
    /\ writes' = [writes EXCEPT ![task[w].client] = Append(@, loc[w].reply)]
    /\ NextIteration(w)
    /\ UNCHANGED <<storageVars, queue, now, g_NeedStop>>

processQueue(w) ==
    \/ checkStop(w)
    \/ getTask(w)
    \/ lookup_check_pass(w)
    \/ lookup_check_pass_by_name(w)
    \/ lookupChat(w)
    \/ readClock(w)
    \/ doSaveMessage(w)
    \/ doCreateUser(w)
    \/ doCreateChat(w)
    \/ doAddUserToChat(w)
    \/ doUpdateHeartBit(w)
    \/ listChats(w)
    \/ pollChat(w)
    \/ endPoll(w)
    \/ selectTo(w)
    \/ selectFrom(w)
    \/ respond(w)

\* A second passes.
Tick ==
    /\ now + 1 \in Time
    /\ now' = now + 1
    /\ UNCHANGED <<storageVars, queue, pc, task, loc, writes, g_NeedStop>>

\* The signal handler of Server, as the workers see it.
Stop ==
    /\ g_NeedStop' = TRUE
    /\ UNCHANGED <<storageVars, queue, pc, task, loc, writes, now>>

-----------------------------------------------------------------------------
(* Properties.                                                               *)

\* Type invariant of the queue and of the threads.
WorkerTypeOK ==
    /\ queue \in Seq(Task)
    /\ pc \in [Workers -> Stages]
    /\ task \in [Workers -> Task \cup {NoTask}]
    /\ loc \in [Workers -> Locals]
    /\ writes \in [Clients -> Seq(Response)]
    /\ now \in Time
    /\ g_NeedStop \in BOOLEAN
=============================================================================
