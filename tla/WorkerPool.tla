----------------------------- MODULE WorkerPool -----------------------------
(***************************************************************************)
(* The database threads closed by the simplest callers: each client puts   *)
(* one task, as ApiClient::handler_impl does for one request, and waits.   *)
(* What the threads promise each caller, whatever the others ask at the    *)
(* same time, is stated here.                                              *)
(***************************************************************************)
EXTENDS DatabaseWorker

CONSTANT Workloads     \* what the clients may ask: per client, a set of tasks

\* Task::client is the client that puts the task.
ASSUME WorkloadsAssumption ==
    /\ Workloads \subseteq [Clients -> SUBSET Task]
    /\ \A load \in Workloads, c \in Clients : \A t \in load[c] : t.client = c

VARIABLES
    submitted,    \* per client, the task it has put
    since         \* per client, the length of the tables and the time then

callerVars == <<submitted, since>>
poolVars == <<storageVars, workerVars, callerVars>>

\* A client asks what it asks in one of the workloads that the others follow.
Submit(c) ==
    /\ submitted[c] = NoTask
    /\ \E load \in Workloads :
         /\ \A d \in Clients : submitted[d] # NoTask => submitted[d] \in load[d]
         /\ \E t \in load[c] :
              putTask(t) /\ submitted' = [submitted EXCEPT ![c] = t]
    /\ since' = [since EXCEPT ![c] =
                   [users |-> Len(users), chats |-> Len(chats),
                    rows |-> Len(chatuser), log |-> Len(messages), now |-> now]]
    /\ UNCHANGED <<storageVars, pc, task, loc, writes, now, g_NeedStop>>

PoolInit ==
    /\ WorkerInit
    /\ submitted = [c \in Clients |-> NoTask]
    /\ since = [c \in Clients |->
                  [users |-> Len(users), chats |-> Len(chats),
                   rows |-> Len(chatuser), log |-> Len(messages), now |-> now]]

PoolNext ==
    \/ \E c \in Clients : Submit(c)
    \/ \E w \in Workers : processQueue(w) /\ UNCHANGED callerVars
    \/ Tick /\ UNCHANGED callerVars

PoolSpec == StorageInit /\ PoolInit /\ [][PoolNext]_poolVars

-----------------------------------------------------------------------------
(* Where a client's task is.                                                 *)

Asked(c) == submitted[c] # NoTask

Queued(c) == {k \in DOMAIN queue : queue[k].client = c}

Serving(c) == {w \in Workers : task[w] # NoTask /\ task[w].client = c}

\* The answers given to c, those not yet written included.
Answers(c) ==
    {writes[c][k] : k \in DOMAIN writes[c]}
      \cup {loc[w].reply : w \in {v \in Serving(c) : At(v, "send")}}

Said(c, status) == \E a \in Answers(c) : a.status = status

\* The commands that processQueue always answers.
AlwaysAnswered(t) ==
    /\ t # NoTask
    /\ t.cmd # "CHAT_HISTORY"
    /\ t.cmd = "IDLE" => t.ping

-----------------------------------------------------------------------------
(* Safety.                                                                   *)

\* A task is never lost and never worked on twice: it waits in the queue, or
\* one thread has it, or its one answer has been written.
TaskConserved ==
    \A c \in Clients :
        LET places == Cardinality(Queued(c)) + Cardinality(Serving(c))
                        + Len(writes[c])
        IN  /\ places <= 1
            /\ AlwaysAnswered(submitted[c]) => places = 1

\* A message is stored once if its sender is told "ok" and not at all before or
\* otherwise; it is from the sender and for the chat that the request named.
SendIsStoredOnce ==
    \A c \in Clients :
        Asked(c) /\ submitted[c].cmd \in {"MESSAGE_SEND", "MESSAGE_SEND_CHAT"} =>
        LET r == submitted[c].request
            stored == {i \in DOMAIN messages : messages[i].message = r.message}
        IN  /\ Cardinality(stored) = IF Said(c, "ok") THEN 1 ELSE 0
            /\ \A i \in stored :
                 /\ messages[i].user_from = r.uid
                 /\ IF submitted[c].cmd = "MESSAGE_SEND"
                    THEN \E u \in lookupUserByName(r.to_user) :
                           messages[i].chat_to = users[u].self_chat_id
                    ELSE \E d \in lookupChatByName(r.chatname) :
                           messages[i].chat_to = chats[d].id

Creates(c, cmd, name) ==
    /\ Asked(c) /\ submitted[c].cmd = cmd
    /\ name = IF cmd = "USER_CREATE" THEN submitted[c].request.user
                                     ELSE submitted[c].request.chatname

\* Of the clients that create one user, or one group, at the same time, one is
\* told "ok"; the row in the table is its own, and the others are refused only
\* because the name is taken.
OneCreatorWins ==
    \A c \in Clients, name \in Names :
        /\ Creates(c, "USER_CREATE", name) =>
             /\ Said(c, "ok") =>
                  /\ \E u \in lookupUserByName(name) :
                       users[u].password = Crc32[submitted[c].request.password]
                  /\ \A d \in Clients \ {c} :
                       Creates(d, "USER_CREATE", name) => ~Said(d, "ok")
             /\ Said(c, "user already exists") => lookupUserByName(name) # {}
        /\ Creates(c, "CHAT_CREATE", name) =>
             /\ Said(c, "ok") =>
                  /\ \E d \in lookupChatByName(name), i \in DOMAIN chatuser :
                       chatuser[i] = [chatid |-> chats[d].id,
                                      uid |-> submitted[c].request.uid]
                  /\ \A d \in Clients \ {c} :
                       Creates(d, "CHAT_CREATE", name) => ~Said(d, "ok")
             /\ Said(c, "chat already exists") => lookupChatByName(name) # {}

\* A message becomes READ only when a thread has it in hand for a client, and
\* then it reaches an answer: the flag never hides a message nobody was given.
ReadIsHandedOver ==
    \A i \in DOMAIN messages :
        messages[i].flags = "READ" =>
            \/ \E w \in Workers, row \in DOMAIN chatuser :
                 task[w].cmd = "IDLE" /\ <<row, i>> \in loc[w].batch
            \/ \E c \in Clients : \E a \in Answers(c) :
                 a.handler = "idle" /\ \E row \in DOMAIN chatuser : <<row, i>> \in a.msgs

\* What a client is given was meant for it: IDLE returns newer messages of chats
\* the authenticated user is in, USER_HISTORY only what the two users sent to
\* each other, and never more than was asked for.
OnlyOwnMessages ==
    \A c \in Clients : \A a \in Answers(c) :
        LET r == submitted[c].request
            me == lookupUserById(r.uid)
        IN  a.msgs # {} =>
            \/ /\ submitted[c].cmd = "IDLE"
               /\ \A m \in a.msgs :
                    /\ chatuser[m[1]].uid = r.uid
                    /\ chatuser[m[1]].chatid = messages[m[2]].chat_to
                    /\ messages[m[2]].ts > r.ts
            \/ /\ submitted[c].cmd = "USER_HISTORY"
               /\ Cardinality(a.msgs) <= r.count
               /\ \A m \in a.msgs : \E u \in me, v \in lookupUserByName(r.user) :
                    LET msg == messages[m[2]]
                    IN  \/ /\ msg.user_from = users[u].id
                           /\ msg.chat_to = users[v].self_chat_id
                        \/ /\ msg.user_from = users[v].id
                           /\ msg.chat_to = users[u].self_chat_id

\* Every call a thread makes on the storage is one the storage is written for:
\* ids of rows that exist, although they were looked up regions earlier.
StorageCalls == [][StorageNext]_storageVars

-----------------------------------------------------------------------------
(* What the threads promise, as one service.                                 *)

\* A task that is nowhere any more and was not answered has ended in silence.
Outcome(c) ==
    IF Answers(c) # {} THEN CHOOSE a \in Answers(c) : TRUE
    ELSE [handler |-> IF Asked(c) /\ Queued(c) = {} /\ Serving(c) = {}
                      THEN "silence" ELSE "none"]

Service == INSTANCE ChatService WITH
             answer <- [c \in Clients |-> Outcome(c)],
             Tasks  <- UNION {UNION {load[c] : c \in Clients} : load \in Workloads}

\* Although a request is worked on in up to six lock regions, and other threads
\* work in between, it is as if it were served at one moment, with names looked
\* up and times read at moments since the request (ChatService).
ImplementsChatService == Service!Spec

-----------------------------------------------------------------------------
(* What the code says and does not do.                                       *)

\* "chat does not exist" (database_worker.cpp) is said of a name without chat.
ChatDoesNotExist ==
    [][\A w \in Workers :
         At(w, "byChat") /\ At(w, "send")'
           => lookupChatByName(task[w].request.chatname) = {}]_poolVars
=============================================================================
