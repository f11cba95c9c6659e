------------------------ MODULE DatabaseWorkerProofs ------------------------
(***************************************************************************)
(* What the database threads know while they work on a task, for any       *)
(* number of threads, clients, names and times.  processQueue gives up the *)
(* storage mutex between two lookups and keeps positions and ids in its    *)
(* locals; ThreadOK says what these still mean when it takes the mutex     *)
(* again, and is inductive because rows are never removed or rewritten     *)
(* (RowsKept).  From it follows that every call on the storage is one of   *)
(* StorageNext, so that the invariants of StorageProofs hold under the     *)
(* threads too.                                                            *)
(***************************************************************************)
EXTENDS DatabaseWorker, StorageProofs, FiniteSetTheorems

-----------------------------------------------------------------------------
(* What the locals of a thread mean: facts about a task and the tables that  *)
(* no later step undoes.                                                     *)

\* The one user with the id and the password of the request.
IsAuthor(t, i) ==
    /\ i \in DOMAIN users
    /\ users[i].id = t.request.uid
    /\ users[i].password = Crc32[t.request.password]

\* The user that the request names.
IsPeer(t, i) == i \in DOMAIN users /\ users[i].name = PeerName(t)

\* The chat that the request names, or the mailbox of the user it names.
IsTarget(t, chat) ==
    IF t.cmd = "MESSAGE_SEND"
    THEN \E u \in DOMAIN users :
           users[u].name = t.request.to_user /\ users[u].self_chat_id = chat
    ELSE \E d \in DOMAIN chats :
           chats[d].name = t.request.chatname /\ chats[d].id = chat

\* Rows of chatuser that are about the author.
IsTodo(t, rows) ==
    \A row \in rows : row \in DOMAIN chatuser
                      /\ chatuser[row].uid = t.request.uid

\* A new message of a chat of the author.
IsNews(t, m) ==
    /\ m[1] \in DOMAIN chatuser
    /\ m[2] \in DOMAIN messages
    /\ chatuser[m[1]].uid = t.request.uid
    /\ chatuser[m[1]].chatid = messages[m[2]].chat_to
    /\ messages[m[2]].ts > t.request.ts

\* A message that the author or the peer has sent to the other.
IsHistory(t, m) ==
    /\ m[2] \in DOMAIN messages
    /\ \E u, v \in DOMAIN users :
         /\ users[u].id = t.request.uid
         /\ users[v].name = t.request.user
         /\ \/ /\ messages[m[2]].user_from = users[u].id
               /\ messages[m[2]].chat_to = users[v].self_chat_id
            \/ /\ messages[m[2]].user_from = users[v].id
               /\ messages[m[2]].chat_to = users[u].self_chat_id

IsOwn(t, msgs) ==
    \/ t.cmd = "IDLE" /\ \A m \in msgs : IsNews(t, m)
    \/ t.cmd = "USER_HISTORY" /\ \A m \in msgs : IsHistory(t, m)

\* What is left behind by a request that was answered so.
IsDone(t, status) ==
    /\ t.cmd = "USER_CREATE" /\ status = "ok" =>
         \E u \in DOMAIN users :
           /\ users[u].name = t.request.user
           /\ users[u].password = Crc32[t.request.password]
    /\ t.cmd = "USER_CREATE" /\ status = "user already exists" =>
         \E u \in DOMAIN users : users[u].name = t.request.user
    /\ t.cmd = "CHAT_CREATE" /\ status = "ok" =>
         \E d \in DOMAIN chats, i \in DOMAIN chatuser :
           /\ chats[d].name = t.request.chatname
           /\ chatuser[i] = [chatid |-> chats[d].id, uid |-> t.request.uid]
    /\ t.cmd = "CHAT_CREATE" /\ status = "chat already exists" =>
         \E d \in DOMAIN chats : chats[d].name = t.request.chatname

\* An answer to t that says what is so and hands out nothing else.
IsAnswer(t, a) ==
    /\ a.handler = IF t.cmd = "IDLE" /\ a.status = "ok" THEN "idle" ELSE "cmd"
    /\ a.msgs # {} => IsOwn(t, a.msgs)
    /\ t.cmd = "USER_HISTORY" => Cardinality(a.msgs) <= t.request.count
    /\ IsDone(t, a.status)

-----------------------------------------------------------------------------
(* Where a thread stands and what it may rely on there.                      *)

Waiting == {"check", "getTask", "done"}

ByUid == Commands \ {"USER_CREATE", "USER_LOGIN", "CHAT_HISTORY"}

\* The stages behind lookup_check_pass.
Authenticated == {"byName", "byChat", "clock", "save", "createChat", "addUser",
                  "heartbit", "listChats", "poll", "selectTo", "selectFrom"}

\* The branches of processQueue: which command passes through which stage.
TaskFits(stage, t) ==
    /\ stage \in Waiting => t = NoTask
    /\ stage \notin Waiting => t \in Task /\ t.cmd # "CHAT_HISTORY"
    /\ stage = "auth" => t.cmd \in ByUid
    /\ stage = "byName" => t.cmd \in {"USER_LOGIN", "USER_STATUS",
                              "USER_HISTORY", "MESSAGE_SEND", "CHAT_ADDUSER"}
    /\ stage = "byChat" => t.cmd \in {"CHAT_ADDUSER", "MESSAGE_SEND_CHAT"}
    /\ stage = "clock" => t.cmd \in {"IDLE", "MESSAGE_SEND", "MESSAGE_SEND_CHAT"}
    /\ stage = "save" => t.cmd \in {"MESSAGE_SEND", "MESSAGE_SEND_CHAT"}
    /\ stage = "createUser" => t.cmd = "USER_CREATE"
    /\ stage = "createChat" => t.cmd = "CHAT_CREATE"
    /\ stage = "addUser" => t.cmd = "CHAT_ADDUSER"
    /\ stage \in {"heartbit", "listChats", "poll"} => t.cmd = "IDLE"
    /\ stage \in {"selectTo", "selectFrom"} => t.cmd = "USER_HISTORY"

\* The locals that were set on the way.
LocalsFit(stage, t, l) ==
    /\ stage \in Authenticated /\ t.cmd # "USER_LOGIN" => IsAuthor(t, l.user)
    /\ \/ stage \in {"addUser", "selectTo", "selectFrom"}
       \/ stage = "byChat" /\ t.cmd = "CHAT_ADDUSER"
       => IsPeer(t, l.peer)
    /\ \/ stage \in {"save", "addUser"}
       \/ stage = "clock" /\ t.cmd # "IDLE"
       => IsTarget(t, l.chat)
    /\ stage = "poll" => IsTodo(t, l.todo)
    /\ stage \notin {"poll", "selectFrom", "send"} => l.batch = {}
    /\ stage \in {"poll", "selectFrom"} => IsOwn(t, l.batch)
    /\ stage = "send" => IsAnswer(t, l.reply)
    /\ stage = "send" /\ t.cmd = "IDLE" /\ l.batch # {} =>
         l.reply.handler = "idle" /\ l.reply.msgs = l.batch

ThreadOK(w) ==
    /\ TaskFits(pc[w], task[w])
    /\ LocalsFit(pc[w], task[w], loc[w])

\* The inductive invariant of the threads and the storage.
WorkerInv ==
    /\ StorageInv
    /\ WorkerTypeOK
    /\ \A w \in Workers : ThreadOK(w)

-----------------------------------------------------------------------------
(* Rows do not change: what a thread knows stays true.                       *)

\* A step that leaves the tables alone keeps their rows.
LEMMA NoCallKeepsRows ==
    ASSUME StorageTypeOK, UNCHANGED storageVars
    PROVE  RowsKept
<1>1. \A i \in DOMAIN users : users[i] = [users[i] EXCEPT !.heartbit = users[i].heartbit]
  BY RowsTyped DEF User
<1>2. QED
  BY <1>1 DEF RowsKept, storageVars

\* What AppendOnly leaves alone, field by field.
LEMMA KeptRows ==
    ASSUME StorageTypeOK, RowsKept
    PROVE  /\ \A i \in DOMAIN users :
                /\ i \in DOMAIN users'
                /\ users'[i].id = users[i].id
                /\ users'[i].self_chat_id = users[i].self_chat_id
                /\ users'[i].name = users[i].name
                /\ users'[i].password = users[i].password
           /\ \A i \in DOMAIN chats : i \in DOMAIN chats' /\ chats'[i] = chats[i]
           /\ \A i \in DOMAIN chatuser :
                i \in DOMAIN chatuser' /\ chatuser'[i] = chatuser[i]
           /\ \A i \in DOMAIN messages :
                /\ i \in DOMAIN messages'
                /\ messages'[i].user_from = messages[i].user_from
                /\ messages'[i].chat_to = messages[i].chat_to
                /\ messages'[i].ts = messages[i].ts
                /\ messages'[i].message = messages[i].message
<1>1. /\ \A i \in DOMAIN users : users[i] \in User
      /\ \A i \in DOMAIN messages : messages[i] \in Message
  BY RowsTyped
<1>2. ASSUME NEW i \in DOMAIN users
      PROVE  /\ i \in DOMAIN users'
             /\ users'[i].id = users[i].id
             /\ users'[i].self_chat_id = users[i].self_chat_id
             /\ users'[i].name = users[i].name
             /\ users'[i].password = users[i].password
  BY <1>1, <1>2 DEF User, RowsKept
<1>3. ASSUME NEW i \in DOMAIN messages
      PROVE  /\ i \in DOMAIN messages'
             /\ messages'[i].user_from = messages[i].user_from
             /\ messages'[i].chat_to = messages[i].chat_to
             /\ messages'[i].ts = messages[i].ts
             /\ messages'[i].message = messages[i].message
  BY <1>1, <1>3 DEF Message, RowsKept
<1>4. QED
  BY <1>2, <1>3 DEF RowsKept

\* What a thread has found out about its task stays true.
LEMMA FactsKept ==
    ASSUME StorageTypeOK, RowsKept, NEW t, NEW x
    PROVE  /\ IsAuthor(t, x) => IsAuthor(t, x)'
           /\ IsPeer(t, x) => IsPeer(t, x)'
           /\ IsTarget(t, x) => IsTarget(t, x)'
           /\ IsTodo(t, x) => IsTodo(t, x)'
           /\ IsOwn(t, x) => IsOwn(t, x)'
           /\ IsDone(t, x) => IsDone(t, x)'
<1>1. IsAuthor(t, x) => IsAuthor(t, x)'
  BY KeptRows DEF IsAuthor
<1>2. IsPeer(t, x) => IsPeer(t, x)'
  BY KeptRows DEF IsPeer
<1>3. IsTarget(t, x) => IsTarget(t, x)'
  BY KeptRows DEF IsTarget
<1>4. IsTodo(t, x) => IsTodo(t, x)'
  BY KeptRows DEF IsTodo
<1>5. ASSUME NEW m, IsNews(t, m) PROVE IsNews(t, m)'
  BY <1>5, KeptRows DEF IsNews
<1>6. ASSUME NEW m, IsHistory(t, m) PROVE IsHistory(t, m)'
  BY <1>6, KeptRows DEF IsHistory
<1>7. IsOwn(t, x) => IsOwn(t, x)'
  BY <1>5, <1>6 DEF IsOwn
<1>8. IsDone(t, x) => IsDone(t, x)'
  <2> SUFFICES ASSUME IsDone(t, x) PROVE IsDone(t, x)'
    OBVIOUS
  <2>1. ASSUME t.cmd = "USER_CREATE", x = "ok"
        PROVE  \E u \in DOMAIN users' :
                 /\ users'[u].name = t.request.user
                 /\ users'[u].password = Crc32[t.request.password]
    BY <2>1, KeptRows DEF IsDone
  <2>2. ASSUME t.cmd = "USER_CREATE", x = "user already exists"
        PROVE  \E u \in DOMAIN users' : users'[u].name = t.request.user
    BY <2>2, KeptRows DEF IsDone
  <2>3. ASSUME t.cmd = "CHAT_CREATE", x = "ok"
        PROVE  \E d \in DOMAIN chats', i \in DOMAIN chatuser' :
                 /\ chats'[d].name = t.request.chatname
                 /\ chatuser'[i] = [chatid |-> chats'[d].id,
                                    uid |-> t.request.uid]
    <3>1. PICK d \in DOMAIN chats, i \in DOMAIN chatuser :
                 /\ chats[d].name = t.request.chatname
                 /\ chatuser[i] = [chatid |-> chats[d].id,
                                   uid |-> t.request.uid]
      BY <2>3 DEF IsDone
    <3>2. QED
      BY <3>1, KeptRows
  <2>4. ASSUME t.cmd = "CHAT_CREATE", x = "chat already exists"
        PROVE  \E d \in DOMAIN chats' : chats'[d].name = t.request.chatname
    BY <2>4, KeptRows DEF IsDone
  <2>5. QED
    BY <2>1, <2>2, <2>3, <2>4 DEF IsDone
<1>9. QED
  BY <1>1, <1>2, <1>3, <1>4, <1>7, <1>8

\* An answer stays right after it was composed.
LEMMA AnswerKept ==
    ASSUME StorageTypeOK, RowsKept, NEW t, NEW a, IsAnswer(t, a)
    PROVE  IsAnswer(t, a)'
<1>1. a.msgs # {} /\ IsOwn(t, a.msgs) => IsOwn(t, a.msgs)'
  BY FactsKept
<1>2. IsDone(t, a.status) => IsDone(t, a.status)'
  BY FactsKept
<1>3. QED
  BY <1>1, <1>2 DEF IsAnswer

\* A thread that does not move is not disturbed by the calls of the others.
LEMMA LocalsKept ==
    ASSUME StorageTypeOK, RowsKept, NEW stage, NEW t, NEW l,
           LocalsFit(stage, t, l)
    PROVE  LocalsFit(stage, t, l)'
BY FactsKept, AnswerKept DEF LocalsFit

-----------------------------------------------------------------------------
(* Steps of one thread.                                                      *)

\* The other threads stay where they are.
Others(w) ==
    \A v \in Workers \ {w} :
        pc'[v] = pc[v] /\ task'[v] = task[v] /\ loc'[v] = loc[v]

\* What one step of a thread has to do.
StepFits(w) ==
    /\ StorageNext \/ UNCHANGED storageVars
    /\ WorkerTypeOK'
    /\ ThreadOK(w)'
    /\ Others(w)

\* Types of the pieces of an answer.
LEMMA AnswersTyped ==
    /\ \A handler \in {"cmd", "idle", "ack"}, status \in Statuses :
         Plain(handler, status) \in Response
    /\ \A handler \in {"cmd", "idle", "ack"}, msgs \in SUBSET (Nat \X Nat) :
         Messages(handler, msgs) \in Response
    /\ StorageTypeOK => \A i \in DOMAIN users : Profile(i) \in Response
    /\ NoLocals \in Locals
<1>1. 0 \in Time
  BY StorageAssumption
<1>2. \A handler \in {"cmd", "idle", "ack"}, status \in Statuses :
         Plain(handler, status) \in Response
  BY <1>1 DEF Plain, Response
<1>3. \A handler \in {"cmd", "idle", "ack"}, msgs \in SUBSET (Nat \X Nat) :
         Messages(handler, msgs) \in Response
  BY <1>1 DEF Messages, Response, Statuses
<1>4. StorageTypeOK => \A i \in DOMAIN users : Profile(i) \in Response
  BY RowsTyped DEF Profile, Response, Statuses, User
<1>5. NoLocals \in Locals
  <2>1. Plain("cmd", "ok") \in Response
    BY <1>2 DEF Statuses
  <2>2. QED
    BY <1>1, <2>1 DEF NoLocals, Locals
<1>6. QED
  BY <1>2, <1>3, <1>4, <1>5

\* Goto and a new value of the locals, on the way from one stage to the next.
LEMMA MoveFits ==
    ASSUME StorageTypeOK, WorkerTypeOK, RowsKept,
           NEW w \in Workers, NEW stage \in Stages, NEW l \in Locals,
           Goto(w, stage), loc' = [loc EXCEPT ![w] = l],
           TaskFits(stage, task[w]), LocalsFit(stage, task[w], l)'
    PROVE  WorkerTypeOK' /\ ThreadOK(w)' /\ Others(w)
<1>1. /\ pc'[w] = stage /\ task' = task /\ loc'[w] = l
      /\ pc' \in [Workers -> Stages]
      /\ loc' \in [Workers -> Locals]
  BY DEF WorkerTypeOK, Goto
<1>2. WorkerTypeOK'
  BY <1>1 DEF WorkerTypeOK, Goto
<1>3. Others(w)
  BY DEF Others, WorkerTypeOK, Goto
<1>4. ThreadOK(w)'
  BY <1>1 DEF ThreadOK, TaskFits, NoTask
<1>5. QED
  BY <1>2, <1>3, <1>4

\* The same for a step that makes no call on the storage.
LEMMA QuietMoveFits ==
    ASSUME WorkerInv, UNCHANGED storageVars,
           NEW w \in Workers, NEW stage \in Stages, NEW l \in Locals,
           Goto(w, stage), loc' = [loc EXCEPT ![w] = l],
           TaskFits(stage, task[w]), LocalsFit(stage, task[w], l)
    PROVE  StepFits(w)
<1>1. StorageTypeOK /\ WorkerTypeOK /\ RowsKept
  BY NoCallKeepsRows DEF WorkerInv, StorageInv
<1>2. PICK t : t = task[w]
  OBVIOUS
<1>3. LocalsFit(stage, t, l)'
  BY <1>1, <1>2, LocalsKept
<1>4. task'[w] = t
  BY <1>2 DEF Goto
<1>5. LocalsFit(stage, task[w], l)'
  BY <1>3, <1>4
<1>6. QED
  BY <1>1, <1>5, MoveFits DEF StepFits

\* What is known of a thread before its step.
LEMMA ThreadTyped ==
    ASSUME WorkerInv, NEW w \in Workers
    PROVE  /\ StorageTypeOK /\ WorkerTypeOK
           /\ pc[w] \in Stages /\ loc[w] \in Locals
           /\ TaskFits(pc[w], task[w]) /\ LocalsFit(pc[w], task[w], loc[w])
           /\ pc[w] \notin Waiting => task[w] \in Task /\ task[w].request \in Params
<1>1. pc[w] \notin Waiting => task[w] \in Task
  BY DEF WorkerInv, ThreadOK, TaskFits
<1>2. QED
  BY <1>1 DEF WorkerInv, ThreadOK, StorageInv, WorkerTypeOK, Task

\* A refusal hands out nothing.
LEMMA RefuseFits ==
    ASSUME WorkerInv, UNCHANGED storageVars, NEW w \in Workers,
           pc[w] \in Stages \ (Waiting \cup {"poll", "selectFrom", "send"}),
           NEW status \in Statuses, Refuse(w, status),
           status # "ok", IsDone(task[w], status)
    PROVE  StepFits(w)
<1> DEFINE reply == Plain("cmd", status)
<1>1. /\ loc[w] \in Locals /\ loc[w].batch = {}
      /\ TaskFits(pc[w], task[w]) /\ task[w] \in Task
  BY ThreadTyped DEF LocalsFit
<1>2. reply \in Response /\ reply.handler = "cmd" /\ reply.msgs = {}
      /\ reply.status = status
  BY AnswersTyped DEF Plain
<1>3. PICK l : l = [loc[w] EXCEPT !.reply = reply]
  OBVIOUS
<1>4. l \in Locals /\ l.reply = reply /\ l.batch = {}
  BY <1>1, <1>2, <1>3 DEF Locals
<1>5. Goto(w, "send") /\ loc' = [loc EXCEPT ![w] = l]
  BY <1>3 DEF Refuse, Answer
<1>6. TaskFits("send", task[w])
  BY <1>1 DEF TaskFits, Waiting
<1>7. IsAnswer(task[w], reply)
  <2>1. Cardinality({}) = 0
    BY FS_EmptySet
  <2>2. task[w].request.count \in Nat
    BY <1>1 DEF Task, Params
  <2>3. QED
    BY <1>2, <2>1, <2>2 DEF IsAnswer
<1>8. LocalsFit("send", task[w], l)
  BY <1>4, <1>7 DEF LocalsFit, Authenticated
<1>9. QED
  BY <1>4, <1>5, <1>6, <1>8, QuietMoveFits DEF Stages

\* while (!g_NeedStop).
LEMMA CheckStopFits ==
    ASSUME WorkerInv, NEW w \in Workers, checkStop(w)
    PROVE  StepFits(w)
<1>1. PICK stage \in {"done", "getTask"} : Goto(w, stage)
  BY DEF checkStop
<1>2. PICK l : l = loc[w]
  OBVIOUS
<1>3. UNCHANGED storageVars /\ loc' = [loc EXCEPT ![w] = l] /\ pc[w] = "check"
  BY <1>2, ThreadTyped DEF checkStop, At, WorkerTypeOK
<1>4. TaskFits(stage, task[w]) /\ LocalsFit(stage, task[w], l)
  BY <1>2, <1>3, ThreadTyped DEF TaskFits, LocalsFit, Waiting, Authenticated
<1>5. l \in Locals /\ stage \in Stages
  BY <1>2, ThreadTyped DEF Stages
<1>6. QED
  BY <1>1, <1>3, <1>4, <1>5, QuietMoveFits

\* getTask pops the front of the queue; a CHAT_HISTORY ends at once.
LEMMA GetTaskFits ==
    ASSUME WorkerInv, NEW w \in Workers, getTask(w)
    PROVE  StepFits(w)
<1>1. pc[w] = "getTask" /\ task[w] = NoTask /\ loc[w] \in Locals
      /\ LocalsFit(pc[w], task[w], loc[w]) /\ TaskFits(pc[w], task[w])
      /\ StorageTypeOK /\ WorkerTypeOK
  BY ThreadTyped DEF getTask, At, TaskFits, Waiting
<1>2. CASE queue = <<>>
  <2>1. PICK l : l = loc[w]
    OBVIOUS
  <2>2. /\ UNCHANGED storageVars /\ loc' = [loc EXCEPT ![w] = l]
        /\ Goto(w, "check") /\ l \in Locals
    BY <1>1, <1>2, <2>1 DEF getTask, WorkerTypeOK
  <2>3. TaskFits("check", task[w]) /\ LocalsFit("check", task[w], l)
    BY <1>1, <2>1 DEF TaskFits, LocalsFit, Waiting, Authenticated
  <2>4. QED
    BY <2>2, <2>3, QuietMoveFits DEF Stages
<1>3. CASE queue # <<>>
  <2>1. PICK t : t = Head(queue)
    OBVIOUS
  <2>2. PICK stage : stage = FirstStage(t.cmd)
    OBVIOUS
  <2>3. PICK l : l = loc[w]
    OBVIOUS
  <2>4. /\ queue' = Tail(queue)
        /\ pc' = [pc EXCEPT ![w] = stage]
        /\ task' = [task EXCEPT ![w] = IF stage = "check" THEN NoTask ELSE t]
        /\ UNCHANGED <<storageVars, loc, writes, now, g_NeedStop>>
    BY <1>3, <2>1, <2>2 DEF getTask
  <2>5. t \in Task /\ queue' \in Seq(Task)
    BY <1>1, <1>3, <2>1, <2>4 DEF WorkerTypeOK
  <2>6. /\ stage \in Stages
        /\ t.cmd = "USER_CREATE" => stage = "createUser"
        /\ t.cmd = "USER_LOGIN" => stage = "byName"
        /\ t.cmd = "CHAT_HISTORY" => stage = "check"
        /\ t.cmd \in ByUid => stage = "auth"
        /\ t.cmd \in Commands
    BY <2>2, <2>5 DEF FirstStage, Stages, Task, Commands, ByUid
  <2>7. WorkerTypeOK'
    BY <1>1, <2>4, <2>5, <2>6 DEF WorkerTypeOK
  <2>8. Others(w)
    BY <1>1, <2>4 DEF Others, WorkerTypeOK
  <2>9. pc'[w] = stage /\ task'[w] = (IF stage = "check" THEN NoTask ELSE t)
        /\ loc'[w] = l /\ l.batch = {}
    BY <1>1, <2>3, <2>4 DEF WorkerTypeOK, LocalsFit
  <2>10. TaskFits(stage, IF stage = "check" THEN NoTask ELSE t)
    BY <2>5, <2>6 DEF TaskFits, Waiting, ByUid, Commands
  <2>11. LocalsFit(stage, IF stage = "check" THEN NoTask ELSE t, l)'
    BY <2>6, <2>9 DEF LocalsFit, ByUid, Commands, Authenticated
  <2>12. ThreadOK(w)'
    BY <2>9, <2>10, <2>11 DEF ThreadOK
  <2>13. QED
    BY <2>4, <2>7, <2>8, <2>12 DEF StepFits
<1>4. QED
  BY <1>2, <1>3

\* lookup_check_pass: the user of that id, and the password.
LEMMA AuthFits ==
    ASSUME WorkerInv, NEW w \in Workers, lookup_check_pass(w)
    PROVE  StepFits(w)
<1>1. /\ pc[w] = "auth" /\ task[w] \in Task /\ loc[w] \in Locals
      /\ LocalsFit(pc[w], task[w], loc[w]) /\ TaskFits(pc[w], task[w])
      /\ UNCHANGED storageVars
  BY ThreadTyped DEF lookup_check_pass, At, Waiting
<1>2. CASE \E status \in {"user does not exist", "wrong password"} : Refuse(w, status)
  <2>1. PICK status \in {"user does not exist", "wrong password"} : Refuse(w, status)
    BY <1>2
  <2>2. IsDone(task[w], status)
    BY <2>1 DEF IsDone
  <2>3. QED
    BY <1>1, <2>1, <2>2, RefuseFits DEF Statuses, Stages, Waiting
<1>3. CASE \E i \in lookupUserById(task[w].request.uid) :
             /\ PasswordMatches(w, i)
             /\ Goto(w, AfterAuth(task[w].cmd))
             /\ loc' = [loc EXCEPT ![w].user = i]
  <2>1. PICK i \in lookupUserById(task[w].request.uid) :
             /\ PasswordMatches(w, i)
             /\ Goto(w, AfterAuth(task[w].cmd))
             /\ loc' = [loc EXCEPT ![w].user = i]
    BY <1>3
  <2>2. PICK l : l = [loc[w] EXCEPT !.user = i]
    OBVIOUS
  <2>3. PICK stage : stage = AfterAuth(task[w].cmd)
    OBVIOUS
  <2>4. IsAuthor(task[w], i) /\ i \in Nat
    <3>1. i \in DOMAIN users /\ DOMAIN users \subseteq Nat
      BY <2>1, ThreadTyped DEF lookupUserById, StorageTypeOK
    <3>2. QED
      BY <2>1, <3>1 DEF IsAuthor, lookupUserById, PasswordMatches
  <2>5. l \in Locals /\ l.user = i /\ l.batch = {}
    BY <1>1, <2>2, <2>4 DEF Locals, LocalsFit
  <2>6. /\ stage \in {"clock", "createChat", "byChat", "byName"}
        /\ stage = "clock" => task[w].cmd = "IDLE"
        /\ stage = "byChat" => task[w].cmd = "MESSAGE_SEND_CHAT"
        /\ stage = "createChat" => task[w].cmd = "CHAT_CREATE"
        /\ stage = "byName" => task[w].cmd \in ByUid \ {"IDLE", "CHAT_CREATE",
                                                        "MESSAGE_SEND_CHAT"}
    BY <1>1, <2>3 DEF AfterAuth, TaskFits
  <2>7. TaskFits(stage, task[w])
    BY <1>1, <2>6 DEF TaskFits, Waiting, ByUid, Commands
  <2>8. LocalsFit(stage, task[w], l)
    BY <2>4, <2>5, <2>6 DEF LocalsFit, Authenticated
  <2>9. stage \in Stages /\ Goto(w, stage) /\ loc' = [loc EXCEPT ![w] = l]
    BY <2>1, <2>2, <2>3, <2>6 DEF Stages
  <2>10. QED
    BY <1>1, <2>5, <2>7, <2>8, <2>9, QuietMoveFits
<1>4. QED
  BY <1>2, <1>3 DEF lookup_check_pass

\* An answer that is composed without a call on the storage.
LEMMA AnswerFits ==
    ASSUME WorkerInv, UNCHANGED storageVars, NEW w \in Workers,
           pc[w] \in Stages \ (Waiting \cup {"poll", "selectFrom", "send"}),
           NEW reply \in Response, Answer(w, reply), IsAnswer(task[w], reply)
    PROVE  StepFits(w)
<1>1. /\ loc[w] \in Locals /\ loc[w].batch = {}
      /\ TaskFits(pc[w], task[w]) /\ task[w] \in Task
  BY ThreadTyped DEF LocalsFit
<1>2. PICK l : l = [loc[w] EXCEPT !.reply = reply]
  OBVIOUS
<1>3. l \in Locals /\ l.reply = reply /\ l.batch = {}
  BY <1>1, <1>2 DEF Locals
<1>4. Goto(w, "send") /\ loc' = [loc EXCEPT ![w] = l]
  BY <1>2 DEF Answer
<1>5. TaskFits("send", task[w])
  BY <1>1 DEF TaskFits, Waiting
<1>6. LocalsFit("send", task[w], l)
  BY <1>3 DEF LocalsFit, Authenticated
<1>7. QED
  BY <1>3, <1>4, <1>5, <1>6, QuietMoveFits DEF Stages

\* lookup_check_pass_by_name: the user of that name, for five commands.
LEMMA ByNameFits ==
    ASSUME WorkerInv, NEW w \in Workers, lookup_check_pass_by_name(w)
    PROVE  StepFits(w)
<1>1. /\ pc[w] = "byName" /\ task[w] \in Task /\ loc[w] \in Locals
      /\ LocalsFit(pc[w], task[w], loc[w]) /\ TaskFits(pc[w], task[w])
      /\ UNCHANGED storageVars /\ StorageTypeOK
      /\ task[w].request \in Params
  BY ThreadTyped DEF lookup_check_pass_by_name, At, Waiting
<1> DEFINE refusals == {"user does not exist", "more than one user with that name",
                        "wrong password"}
<1>2. CASE \E status \in refusals : Refuse(w, status)
  <2>1. PICK status \in refusals : Refuse(w, status)
    BY <1>2
  <2>2. IsDone(task[w], status)
    BY <2>1 DEF IsDone
  <2>3. QED
    BY <1>1, <2>1, <2>2, RefuseFits DEF Statuses, Stages, Waiting
<1>3. CASE \E i \in lookupUserByName(PeerName(task[w])) : UseUser(w, i)
  <2>1. PICK i \in lookupUserByName(PeerName(task[w])) : UseUser(w, i)
    BY <1>3
  <2>2. IsPeer(task[w], i) /\ i \in Nat
    <3>1. i \in DOMAIN users /\ DOMAIN users \subseteq Nat
      BY <1>1, <2>1 DEF lookupUserByName, StorageTypeOK
    <3>2. QED
      BY <2>1, <3>1 DEF IsPeer, lookupUserByName
  <2>3. CASE task[w].cmd \in {"USER_LOGIN", "USER_STATUS"}
    <3>1. CASE Answer(w, Profile(i))
      <4>1. PICK reply : reply = Profile(i)
        OBVIOUS
      <4>2. reply \in Response /\ reply.handler = "cmd" /\ reply.msgs = {}
        BY <1>1, <2>2, <4>1, AnswersTyped DEF Profile, IsPeer
      <4>3. IsAnswer(task[w], reply)
        BY <2>3, <4>2 DEF IsAnswer, IsDone
      <4>4. QED
        BY <1>1, <3>1, <4>1, <4>2, <4>3, AnswerFits DEF Stages, Waiting
    <3>2. CASE Refuse(w, "wrong password")
      BY <1>2, <3>2
    <3>3. QED
      BY <2>1, <2>3, <3>1, <3>2 DEF UseUser
  <2>4. CASE task[w].cmd = "USER_HISTORY"
    <3>1. PICK l : l = [loc[w] EXCEPT !.peer = i]
      OBVIOUS
    <3>2. Goto(w, "selectTo") /\ loc' = [loc EXCEPT ![w] = l]
      BY <2>1, <2>4, <3>1 DEF UseUser
    <3>3. /\ l \in Locals /\ l.peer = i /\ l.user = loc[w].user
          /\ l.batch = {}
      BY <1>1, <2>2, <3>1 DEF Locals, LocalsFit
    <3>4. TaskFits("selectTo", task[w])
      BY <1>1, <2>4 DEF TaskFits, Waiting
    <3>5. LocalsFit("selectTo", task[w], l)
      BY <1>1, <2>2, <2>4, <3>3 DEF LocalsFit, Authenticated
    <3>6. QED
      BY <1>1, <3>2, <3>3, <3>4, <3>5, QuietMoveFits DEF Stages
  <2>5. CASE task[w].cmd = "CHAT_ADDUSER"
    <3>1. PICK l : l = [loc[w] EXCEPT !.peer = i]
      OBVIOUS
    <3>2. Goto(w, "byChat") /\ loc' = [loc EXCEPT ![w] = l]
      BY <2>1, <2>5, <3>1 DEF UseUser
    <3>3. /\ l \in Locals /\ l.peer = i /\ l.user = loc[w].user
          /\ l.batch = {}
      BY <1>1, <2>2, <3>1 DEF Locals, LocalsFit
    <3>4. TaskFits("byChat", task[w])
      BY <1>1, <2>5 DEF TaskFits, Waiting
    <3>5. LocalsFit("byChat", task[w], l)
      BY <1>1, <2>2, <2>5, <3>3 DEF LocalsFit, Authenticated
    <3>6. QED
      BY <1>1, <3>2, <3>3, <3>4, <3>5, QuietMoveFits DEF Stages
  <2>6. CASE task[w].cmd = "MESSAGE_SEND"
    <3>1. PICK l : l = [loc[w] EXCEPT !.chat = users[i].self_chat_id]
      OBVIOUS
    <3>2. Goto(w, "clock") /\ loc' = [loc EXCEPT ![w] = l]
      BY <2>1, <2>6, <3>1 DEF UseUser
    <3>3. i \in DOMAIN users /\ users[i].self_chat_id \in Nat
          /\ users[i].name = task[w].request.to_user
      BY <1>1, <2>2, <2>6, RowsTyped DEF IsPeer, PeerName
    <3>4. /\ l \in Locals /\ l.chat = users[i].self_chat_id
          /\ l.user = loc[w].user /\ l.batch = {}
      BY <1>1, <3>1, <3>3 DEF Locals, LocalsFit
    <3>5. TaskFits("clock", task[w])
      BY <1>1, <2>6 DEF TaskFits, Waiting
    <3>6. IsTarget(task[w], l.chat)
      BY <2>6, <3>3, <3>4 DEF IsTarget
    <3>7. LocalsFit("clock", task[w], l)
      BY <1>1, <2>6, <3>4, <3>6 DEF LocalsFit, Authenticated
    <3>8. QED
      BY <1>1, <3>2, <3>4, <3>5, <3>7, QuietMoveFits DEF Stages
  <2>7. QED
    BY <1>1, <2>3, <2>4, <2>5, <2>6 DEF TaskFits
<1>4. \/ \E status \in refusals : Refuse(w, status)
      \/ \E i \in lookupUserByName(PeerName(task[w])) : UseUser(w, i)
  <2>1. CASE Refuse(w, IF lookupUserByName(PeerName(task[w])) = {}
                       THEN "user does not exist"
                       ELSE "more than one user with that name")
    <3>1. CASE lookupUserByName(PeerName(task[w])) = {}
      BY <2>1, <3>1
    <3>2. CASE lookupUserByName(PeerName(task[w])) # {}
      BY <2>1, <3>2
    <3>3. QED
      BY <3>1, <3>2
  <2>2. QED
    BY <2>1 DEF lookup_check_pass_by_name
<1>5. QED
  BY <1>2, <1>3, <1>4

\* The one chat of that name, for a message to it or a user to be added to it.
LEMMA LookupChatFits ==
    ASSUME WorkerInv, NEW w \in Workers, lookupChat(w)
    PROVE  StepFits(w)
<1>1. /\ pc[w] = "byChat" /\ task[w] \in Task /\ loc[w] \in Locals
      /\ LocalsFit(pc[w], task[w], loc[w]) /\ TaskFits(pc[w], task[w])
      /\ UNCHANGED storageVars /\ StorageTypeOK
  BY ThreadTyped DEF lookupChat, At, Waiting
<1>2. CASE Refuse(w, "chat does not exist")
  <2>1. IsDone(task[w], "chat does not exist")
    BY DEF IsDone
  <2>2. QED
    BY <1>1, <1>2, <2>1, RefuseFits DEF Statuses, Stages, Waiting
<1>3. ASSUME NEW d \in lookupChatByName(task[w].request.chatname),
             Goto(w, IF task[w].cmd = "CHAT_ADDUSER" THEN "addUser" ELSE "clock"),
             loc' = [loc EXCEPT ![w].chat = chats[d].id]
      PROVE  StepFits(w)
  <2>1. PICK l : l = [loc[w] EXCEPT !.chat = chats[d].id]
    OBVIOUS
  <2>2. PICK stage : stage = IF task[w].cmd = "CHAT_ADDUSER" THEN "addUser"
                                                             ELSE "clock"
    OBVIOUS
  <2>3. stage \in Stages /\ Goto(w, stage) /\ loc' = [loc EXCEPT ![w] = l]
    BY <1>3, <2>1, <2>2 DEF Stages
  <2>4. d \in DOMAIN chats /\ chats[d].id \in Nat
        /\ chats[d].name = task[w].request.chatname
    BY <1>1, RowsTyped DEF lookupChatByName
  <2>5. /\ l \in Locals /\ l.chat = chats[d].id /\ l.batch = {}
        /\ l.user = loc[w].user /\ l.peer = loc[w].peer
    BY <1>1, <2>1, <2>4 DEF Locals, LocalsFit
  <2>6. TaskFits(stage, task[w])
    BY <1>1, <2>2 DEF TaskFits, Waiting
  <2>7. IsTarget(task[w], l.chat)
    BY <1>1, <2>4, <2>5 DEF IsTarget, TaskFits
  <2>8. LocalsFit(stage, task[w], l)
    BY <1>1, <2>2, <2>5, <2>7 DEF LocalsFit, TaskFits, Authenticated
  <2>9. QED
    BY <1>1, <2>3, <2>5, <2>6, <2>8, QuietMoveFits
<1>4. QED
  BY <1>2, <1>3 DEF lookupChat

\* time(NULL) is read before the mutex is taken.
LEMMA ReadClockFits ==
    ASSUME WorkerInv, NEW w \in Workers, readClock(w)
    PROVE  StepFits(w)
<1>1. /\ pc[w] = "clock" /\ task[w] \in Task /\ loc[w] \in Locals
      /\ LocalsFit(pc[w], task[w], loc[w]) /\ TaskFits(pc[w], task[w])
      /\ UNCHANGED storageVars /\ now \in Time
  BY ThreadTyped DEF readClock, At, Waiting, WorkerTypeOK
<1>2. PICK l : l = [loc[w] EXCEPT !.ts = now]
  OBVIOUS
<1>3. PICK stage : stage = IF task[w].cmd = "IDLE" THEN "heartbit" ELSE "save"
  OBVIOUS
<1>4. stage \in Stages /\ Goto(w, stage) /\ loc' = [loc EXCEPT ![w] = l]
  BY <1>2, <1>3 DEF Stages, readClock
<1>5. /\ l \in Locals /\ l.batch = {}
      /\ l.user = loc[w].user /\ l.peer = loc[w].peer /\ l.chat = loc[w].chat
  BY <1>1, <1>2 DEF Locals, LocalsFit
<1>6. TaskFits(stage, task[w])
  BY <1>1, <1>3 DEF TaskFits, Waiting
<1>7. LocalsFit(stage, task[w], l)
  BY <1>1, <1>3, <1>5 DEF LocalsFit, TaskFits, Authenticated
<1>8. QED
  BY <1>1, <1>4, <1>5, <1>6, <1>7, QuietMoveFits

-----------------------------------------------------------------------------
(* Calls that change a table, and their answer.                              *)

\* After a call, "ok" is answered for what is there now.
LEMMA CallFits ==
    ASSUME WorkerInv, StorageNext, NEW w \in Workers,
           pc[w] \in {"save", "createUser", "createChat", "addUser"},
           Answer(w, Plain("cmd", "ok")), IsDone(task[w], "ok")'
    PROVE  StepFits(w)
<1>1. /\ loc[w] \in Locals /\ loc[w].batch = {} /\ task[w].cmd # "IDLE"
      /\ TaskFits(pc[w], task[w]) /\ task[w] \in Task
      /\ StorageTypeOK /\ WorkerTypeOK
  BY ThreadTyped DEF LocalsFit, TaskFits, Waiting
<1>2. RowsKept
  BY StepKeepsRows DEF WorkerInv
<1>3. PICK reply : reply = Plain("cmd", "ok")
  OBVIOUS
<1>4. /\ reply \in Response /\ reply.handler = "cmd" /\ reply.msgs = {}
      /\ reply.status = "ok"
  BY <1>3, AnswersTyped DEF Plain, Statuses
<1>5. PICK l : l = [loc[w] EXCEPT !.reply = reply]
  OBVIOUS
<1>6. l \in Locals /\ l.reply = reply /\ l.batch = {}
  BY <1>1, <1>4, <1>5 DEF Locals
<1>7. Goto(w, "send") /\ loc' = [loc EXCEPT ![w] = l] /\ task' = task
  BY <1>3, <1>5 DEF Answer, Goto
<1>8. TaskFits("send", task[w])
  BY <1>1 DEF TaskFits, Waiting
<1>9. IsAnswer(task[w], reply)'
  <2>1. task[w].cmd # "USER_HISTORY"
    BY <1>1 DEF TaskFits
  <2>2. QED
    BY <1>1, <1>4, <1>7, <2>1 DEF IsAnswer
<1>10. LocalsFit("send", task[w], l)'
  BY <1>6, <1>9 DEF LocalsFit, Authenticated
<1>11. WorkerTypeOK' /\ ThreadOK(w)' /\ Others(w)
  BY <1>1, <1>2, <1>6, <1>7, <1>8, <1>10, MoveFits DEF Stages
<1>12. QED
  BY <1>11 DEF StepFits

\* The chat a thread has found is there.
LEMMA TargetExists ==
    ASSUME StorageInv, NEW t, NEW chat, IsTarget(t, chat)
    PROVE  \E c \in DOMAIN chats : chats[c].id = chat
<1>1. CASE t.cmd = "MESSAGE_SEND"
  <2>1. PICK u \in DOMAIN users : users[u].self_chat_id = chat
    BY <1>1 DEF IsTarget
  <2>2. PICK c \in DOMAIN chats :
               chats[c] = [id |-> users[u].self_chat_id, name |-> users[u].name]
    BY DEF StorageInv, OwnMailbox
  <2>3. QED
    BY <2>1, <2>2
<1>2. CASE t.cmd # "MESSAGE_SEND"
  BY <1>2 DEF IsTarget
<1>3. QED
  BY <1>1, <1>2

\* MESSAGE_SEND and MESSAGE_SEND_CHAT: the ids were looked up regions earlier.
LEMMA SaveMessageFits ==
    ASSUME WorkerInv, NEW w \in Workers, doSaveMessage(w)
    PROVE  StepFits(w)
<1>1. /\ pc[w] = "save" /\ task[w] \in Task /\ loc[w] \in Locals
      /\ LocalsFit(pc[w], task[w], loc[w]) /\ TaskFits(pc[w], task[w])
      /\ task[w].request \in Params
  BY ThreadTyped DEF doSaveMessage, At, Waiting
<1>2. loc[w].user \in DOMAIN users
  BY <1>1 DEF LocalsFit, TaskFits, Authenticated, IsAuthor
<1>3. IsTarget(task[w], loc[w].chat)
  BY <1>1 DEF LocalsFit
<1>4. PICK c \in DOMAIN chats : chats[c].id = loc[w].chat
  BY <1>3, TargetExists DEF WorkerInv
<1>5. loc[w].ts \in Time /\ task[w].request.message \in Texts
  BY <1>1 DEF Locals, Params
<1>6. StorageNext
  BY <1>2, <1>4, <1>5 DEF StorageNext, doSaveMessage
<1>7. IsDone(task[w], "ok")'
  <2>1. task'[w] = task[w]
    BY DEF doSaveMessage, Answer, Goto
  <2>2. QED
    BY <1>1, <2>1 DEF IsDone, TaskFits
<1>8. QED
  BY <1>1, <1>6, <1>7, CallFits DEF doSaveMessage

\* USER_CREATE: the search and the insertion are one region.
LEMMA CreateUserFits ==
    ASSUME WorkerInv, NEW w \in Workers, doCreateUser(w)
    PROVE  StepFits(w)
<1>1. /\ pc[w] = "createUser" /\ task[w] \in Task /\ loc[w] \in Locals
      /\ TaskFits(pc[w], task[w]) /\ StorageTypeOK
      /\ task[w].request \in Params
  BY ThreadTyped DEF doCreateUser, At, Waiting
<1>2. task[w].cmd = "USER_CREATE"
  BY <1>1 DEF TaskFits
<1>3. CASE /\ createUser(task[w].request.user, Crc32[task[w].request.password])
           /\ Answer(w, Plain("cmd", "ok"))
  <2>1. /\ task[w].request.user \in Names
        /\ Crc32[task[w].request.password] \in Hashes
    BY <1>1, WorkerAssumption DEF Params
  <2>2. StorageNext
    BY <1>3, <2>1 DEF StorageNext
  <2>3. \E u \in DOMAIN users' :
          /\ users'[u].name = task[w].request.user
          /\ users'[u].password = Crc32[task[w].request.password]
    <3>1. users' = Append(users, [id |-> user_autoincrement,
                                  self_chat_id |-> chat_autoincrement,
                                  heartbit |-> 0,
                                  name |-> task[w].request.user,
                                  password |-> Crc32[task[w].request.password]])
      BY <1>3 DEF createUser
    <3>2. /\ Len(users) + 1 \in DOMAIN users'
          /\ users'[Len(users) + 1].name = task[w].request.user
          /\ users'[Len(users) + 1].password = Crc32[task[w].request.password]
      BY <1>1, <3>1 DEF StorageTypeOK
    <3>3. QED
      BY <3>2
  <2>4. task'[w] = task[w]
    BY <1>3 DEF Answer, Goto
  <2>5. IsDone(task[w], "ok")'
    BY <1>2, <2>3, <2>4 DEF IsDone
  <2>6. QED
    BY <1>1, <1>3, <2>2, <2>5, CallFits
<1>4. CASE /\ lookupUserByName(task[w].request.user) # {}
           /\ Refuse(w, "user already exists")
           /\ UNCHANGED storageVars
  <2>1. IsDone(task[w], "user already exists")
    BY <1>2, <1>4 DEF IsDone, lookupUserByName
  <2>2. QED
    BY <1>1, <1>4, <2>1, RefuseFits DEF Statuses, Stages, Waiting
<1>5. QED
  BY <1>3, <1>4 DEF doCreateUser

\* CHAT_CREATE, and the membership of its author.
LEMMA CreateChatFits ==
    ASSUME WorkerInv, NEW w \in Workers, doCreateChat(w)
    PROVE  StepFits(w)
<1>1. /\ pc[w] = "createChat" /\ task[w] \in Task /\ loc[w] \in Locals
      /\ TaskFits(pc[w], task[w]) /\ StorageTypeOK
      /\ LocalsFit(pc[w], task[w], loc[w])
      /\ task[w].request \in Params
  BY ThreadTyped DEF doCreateChat, At, Waiting
<1>2. task[w].cmd = "CHAT_CREATE"
  BY <1>1 DEF TaskFits
<1>3. /\ loc[w].user \in DOMAIN users
      /\ users[loc[w].user].id = task[w].request.uid
      /\ task[w].request.uid > 0
  <2>1. IsAuthor(task[w], loc[w].user)
    BY <1>1, <1>2 DEF LocalsFit, Authenticated
  <2>2. /\ \A i \in DOMAIN users : users[i].id \in 1 .. user_autoincrement - 1
        /\ user_autoincrement \in Nat
    BY DEF WorkerInv, StorageInv, KeysUnique, StorageTypeOK
  <2>3. QED
    BY <2>1, <2>2 DEF IsAuthor
<1>4. CASE /\ createChat(task[w].request.chatname, task[w].request.uid)
           /\ Answer(w, Plain("cmd", "ok"))
  <2>1. task[w].request.chatname \in Names
    BY <1>1 DEF Params
  <2>2. StorageNext
    BY <1>3, <1>4, <2>1 DEF StorageNext
  <2>3. \E d \in DOMAIN chats', i \in DOMAIN chatuser' :
          /\ chats'[d].name = task[w].request.chatname
          /\ chatuser'[i] = [chatid |-> chats'[d].id, uid |-> task[w].request.uid]
    <3>1. /\ chats' = Append(chats, [id |-> chat_autoincrement,
                                     name |-> task[w].request.chatname])
          /\ chatuser' = Append(chatuser, [chatid |-> chat_autoincrement,
                                           uid |-> task[w].request.uid])
      BY <1>3, <1>4 DEF createChat
    <3>2. /\ Len(chats) + 1 \in DOMAIN chats'
          /\ chats'[Len(chats) + 1] = [id |-> chat_autoincrement,
                                       name |-> task[w].request.chatname]
      BY <1>1, <3>1 DEF StorageTypeOK
    <3>3. /\ Len(chatuser) + 1 \in DOMAIN chatuser'
          /\ chatuser'[Len(chatuser) + 1] = [chatid |-> chat_autoincrement,
                                             uid |-> task[w].request.uid]
      BY <1>1, <3>1 DEF StorageTypeOK
    <3>4. QED
      BY <3>2, <3>3
  <2>4. task'[w] = task[w]
    BY <1>4 DEF Answer, Goto
  <2>5. IsDone(task[w], "ok")'
    BY <1>2, <2>3, <2>4 DEF IsDone
  <2>6. QED
    BY <1>1, <1>4, <2>2, <2>5, CallFits
<1>5. CASE /\ lookupChatByName(task[w].request.chatname) # {}
           /\ Refuse(w, "chat already exists")
           /\ UNCHANGED storageVars
  <2>1. IsDone(task[w], "chat already exists")
    BY <1>2, <1>5 DEF IsDone, lookupChatByName
  <2>2. QED
    BY <1>1, <1>5, <2>1, RefuseFits DEF Statuses, Stages, Waiting
<1>6. QED
  BY <1>4, <1>5 DEF doCreateChat

\* CHAT_ADDUSER: both the chat and the user were looked up regions earlier.
LEMMA AddUserFits ==
    ASSUME WorkerInv, NEW w \in Workers, doAddUserToChat(w)
    PROVE  StepFits(w)
<1>1. /\ pc[w] = "addUser" /\ task[w] \in Task /\ loc[w] \in Locals
      /\ LocalsFit(pc[w], task[w], loc[w]) /\ TaskFits(pc[w], task[w])
  BY ThreadTyped DEF doAddUserToChat, At, Waiting
<1>2. loc[w].peer \in DOMAIN users
  BY <1>1 DEF LocalsFit, IsPeer
<1>3. IsTarget(task[w], loc[w].chat)
  BY <1>1 DEF LocalsFit
<1>4. PICK c \in DOMAIN chats : chats[c].id = loc[w].chat
  BY <1>3, TargetExists DEF WorkerInv
<1>5. StorageNext
  BY <1>2, <1>4 DEF StorageNext, doAddUserToChat
<1>6. IsDone(task[w], "ok")'
  <2>1. task'[w] = task[w]
    BY DEF doAddUserToChat, Answer, Goto
  <2>2. QED
    BY <1>1, <2>1 DEF IsDone, TaskFits
<1>7. QED
  BY <1>1, <1>5, <1>6, CallFits DEF doAddUserToChat

-----------------------------------------------------------------------------
(* IDLE.                                                                     *)

\* updateUserHeartBit of the user that was authenticated.
LEMMA HeartBitFits ==
    ASSUME WorkerInv, NEW w \in Workers, doUpdateHeartBit(w)
    PROVE  StepFits(w)
<1>1. /\ pc[w] = "heartbit" /\ task[w] \in Task /\ loc[w] \in Locals
      /\ LocalsFit(pc[w], task[w], loc[w]) /\ TaskFits(pc[w], task[w])
      /\ StorageTypeOK /\ WorkerTypeOK
  BY ThreadTyped DEF doUpdateHeartBit, At, Waiting
<1>2. IsAuthor(task[w], loc[w].user)
  BY <1>1 DEF LocalsFit, TaskFits, Authenticated
<1>3. loc[w].user \in DOMAIN users /\ loc[w].ts \in Time
  BY <1>1, <1>2 DEF IsAuthor, Locals
<1>4. StorageNext
  BY <1>3 DEF StorageNext, doUpdateHeartBit
<1>5. RowsKept
  BY <1>4, StepKeepsRows DEF WorkerInv
<1>6. PICK t : t = task[w]
  OBVIOUS
<1>7. PICK l : l = loc[w]
  OBVIOUS
<1>8. TaskFits("listChats", t) /\ LocalsFit("listChats", t, l)
  BY <1>1, <1>2, <1>6, <1>7 DEF TaskFits, LocalsFit, Waiting, Authenticated
<1>9. LocalsFit("listChats", t, l)' /\ task'[w] = t
  BY <1>1, <1>5, <1>6, <1>8, LocalsKept DEF doUpdateHeartBit, Goto
<1>10. LocalsFit("listChats", task[w], l)'
  BY <1>9
<1>11. Goto(w, "listChats") /\ loc' = [loc EXCEPT ![w] = l] /\ l \in Locals
  BY <1>1, <1>7 DEF doUpdateHeartBit, WorkerTypeOK
<1>12. WorkerTypeOK' /\ ThreadOK(w)' /\ Others(w)
  BY <1>1, <1>5, <1>6, <1>8, <1>10, <1>11, MoveFits DEF Stages
<1>13. QED
  BY <1>4, <1>12 DEF StepFits

\* The chats of the user, as they are at that moment.
LEMMA ListChatsFits ==
    ASSUME WorkerInv, NEW w \in Workers, listChats(w)
    PROVE  StepFits(w)
<1>1. /\ pc[w] = "listChats" /\ task[w] \in Task /\ loc[w] \in Locals
      /\ LocalsFit(pc[w], task[w], loc[w]) /\ TaskFits(pc[w], task[w])
      /\ UNCHANGED storageVars /\ StorageTypeOK
  BY ThreadTyped DEF listChats, At, Waiting
<1>2. IsAuthor(task[w], loc[w].user) /\ loc[w].batch = {}
  BY <1>1 DEF LocalsFit, TaskFits, Authenticated
<1>3. PICK rows : rows = lookupChatsForUserId(users[loc[w].user].id)
  OBVIOUS
<1>4. IsTodo(task[w], rows) /\ rows \in SUBSET Nat
  BY <1>1, <1>2, <1>3 DEF IsTodo, IsAuthor, lookupChatsForUserId, StorageTypeOK
<1>5. PICK l : l = [loc[w] EXCEPT !.todo = rows]
  OBVIOUS
<1>6. l \in Locals /\ l.todo = rows /\ l.user = loc[w].user /\ l.batch = {}
  BY <1>1, <1>2, <1>4, <1>5 DEF Locals
<1>7. Goto(w, "poll") /\ loc' = [loc EXCEPT ![w] = l]
  BY <1>3, <1>5 DEF listChats
<1>8. TaskFits("poll", task[w])
  BY <1>1 DEF TaskFits, Waiting
<1>9. LocalsFit("poll", task[w], l)
  BY <1>1, <1>2, <1>4, <1>6 DEF LocalsFit, TaskFits, Authenticated, IsOwn
<1>10. QED
  BY <1>1, <1>6, <1>7, <1>8, <1>9, QuietMoveFits DEF Stages

\* What Newer returns are newer messages of the chat.
LEMMA NewerRows ==
    ASSUME StorageTypeOK, NEW chatid, NEW ts
    PROVE  \A i \in Newer(chatid, ts, MessageLimit) :
             /\ i \in DOMAIN messages /\ i \in Nat
             /\ messages[i].chat_to = chatid
             /\ messages[i].ts > ts
BY DEF Newer, Latest, StorageTypeOK

\* One chat: its new messages become READ and join the batch.
LEMMA PollChatFits ==
    ASSUME WorkerInv, NEW w \in Workers, pollChat(w)
    PROVE  StepFits(w)
<1>1. PICK row \in loc[w].todo :
        /\ At(w, "poll")
        /\ getMessages(chatuser[row].chatid, task[w].request.ts, MessageLimit)
        /\ loc' = [loc EXCEPT
                     ![w].todo = @ \ {row},
                     ![w].batch = @ \cup ({row} \X Newer(chatuser[row].chatid,
                                            task[w].request.ts, MessageLimit))]
        /\ UNCHANGED <<queue, pc, task, writes, now, g_NeedStop>>
  BY DEF pollChat
<1>2. /\ pc[w] = "poll" /\ task[w] \in Task /\ loc[w] \in Locals
      /\ LocalsFit(pc[w], task[w], loc[w]) /\ TaskFits(pc[w], task[w])
      /\ task[w].request \in Params /\ StorageTypeOK /\ WorkerTypeOK
  BY <1>1, ThreadTyped DEF At, Waiting
<1>3. /\ task[w].cmd = "IDLE" /\ IsAuthor(task[w], loc[w].user)
      /\ IsTodo(task[w], loc[w].todo) /\ IsOwn(task[w], loc[w].batch)
  BY <1>2 DEF LocalsFit, TaskFits, Authenticated
<1>4. row \in DOMAIN chatuser /\ row \in Nat
      /\ chatuser[row].uid = task[w].request.uid
  BY <1>2, <1>3 DEF IsTodo, StorageTypeOK
<1>5. StorageNext
  <2>1. PICK c \in DOMAIN chats : chats[c].id = chatuser[row].chatid
    BY <1>4 DEF WorkerInv, StorageInv, ForeignKeys
  <2>2. task[w].request.ts \in Time
    BY <1>2 DEF Params
  <2>3. getMessages(chats[c].id, task[w].request.ts, MessageLimit)
    BY <1>1, <2>1
  <2>4. QED
    BY <2>2, <2>3 DEF StorageNext
<1>6. RowsKept
  BY <1>5, StepKeepsRows DEF WorkerInv
<1>7. PICK found : found = {row} \X Newer(chatuser[row].chatid,
                                          task[w].request.ts, MessageLimit)
  OBVIOUS
<1>8. \A m \in found : IsNews(task[w], m) /\ m \in Nat \X Nat
  BY <1>2, <1>4, <1>7, NewerRows DEF IsNews
<1>9. PICK l : l = [loc[w] EXCEPT !.todo = @ \ {row}, !.batch = @ \cup found]
  OBVIOUS
<1>10. /\ l \in Locals /\ l.todo = loc[w].todo \ {row}
       /\ l.batch = loc[w].batch \cup found
       /\ l.user = loc[w].user
  BY <1>2, <1>8, <1>9 DEF Locals
<1>11. loc' = [loc EXCEPT ![w] = l]
  BY <1>1, <1>7, <1>9
<1>12. Goto(w, "poll")
  BY <1>1, <1>2 DEF Goto, WorkerTypeOK
<1>13. IsOwn(task[w], l.batch) /\ IsTodo(task[w], l.todo)
  BY <1>3, <1>8, <1>10 DEF IsOwn, IsTodo
<1>14. PICK t : t = task[w]
  OBVIOUS
<1>15. LocalsFit("poll", t, l)
  BY <1>3, <1>10, <1>13, <1>14 DEF LocalsFit, Authenticated
<1>16. LocalsFit("poll", t, l)' /\ task'[w] = t
  BY <1>1, <1>2, <1>6, <1>14, <1>15, LocalsKept
<1>17. LocalsFit("poll", task[w], l)'
  BY <1>16
<1>18. WorkerTypeOK' /\ ThreadOK(w)' /\ Others(w)
  BY <1>2, <1>6, <1>10, <1>11, <1>12, <1>17, MoveFits DEF Stages
<1>19. QED
  BY <1>5, <1>18 DEF StepFits

\* The end of an iteration forgets the task.
LEMMA NextIterationFits ==
    ASSUME WorkerInv, NEW w \in Workers, NextIteration(w),
           UNCHANGED <<storageVars, queue, now, g_NeedStop>>,
           writes' \in [Clients -> Seq(Response)]
    PROVE  StepFits(w)
<1>1. WorkerTypeOK /\ NoLocals \in Locals
  BY ThreadTyped, AnswersTyped
<1>2. /\ pc' = [pc EXCEPT ![w] = "check"]
      /\ task' = [task EXCEPT ![w] = NoTask]
      /\ loc' = [loc EXCEPT ![w] = NoLocals]
  BY DEF NextIteration
<1>3. WorkerTypeOK'
  BY <1>1, <1>2 DEF WorkerTypeOK, Stages
<1>4. Others(w)
  BY <1>1, <1>2 DEF Others, WorkerTypeOK
<1>5. pc'[w] = "check" /\ task'[w] = NoTask /\ loc'[w] = NoLocals
  BY <1>1, <1>2 DEF WorkerTypeOK
<1>6. TaskFits("check", NoTask)
  BY DEF TaskFits, Waiting
<1>7. LocalsFit("check", NoTask, NoLocals)'
  BY DEF LocalsFit, NoLocals, Authenticated
<1>8. ThreadOK(w)'
  BY <1>5, <1>6, <1>7 DEF ThreadOK
<1>9. QED
  BY <1>3, <1>4, <1>8 DEF StepFits

\* sendMessagesToIdleConn gets the batch, or there is nothing to say.
LEMMA EndPollFits ==
    ASSUME WorkerInv, NEW w \in Workers, endPoll(w)
    PROVE  StepFits(w)
<1>1. /\ pc[w] = "poll" /\ task[w] \in Task /\ loc[w] \in Locals
      /\ LocalsFit(pc[w], task[w], loc[w]) /\ TaskFits(pc[w], task[w])
      /\ UNCHANGED storageVars /\ WorkerTypeOK
  BY ThreadTyped DEF endPoll, At, Waiting
<1>2. task[w].cmd = "IDLE" /\ IsOwn(task[w], loc[w].batch)
  BY <1>1 DEF LocalsFit, TaskFits
<1>3. CASE Answer(w, Messages("idle", loc[w].batch))
  <2>1. PICK reply : reply = Messages("idle", loc[w].batch)
    OBVIOUS
  <2>2. loc[w].batch \in SUBSET (Nat \X Nat)
    BY <1>1 DEF Locals
  <2>3. /\ reply \in Response /\ reply.handler = "idle" /\ reply.status = "ok"
        /\ reply.msgs = loc[w].batch
    BY <2>1, <2>2, AnswersTyped DEF Messages
  <2>4. PICK l : l = [loc[w] EXCEPT !.reply = reply]
    OBVIOUS
  <2>5. l \in Locals /\ l.reply = reply /\ l.batch = loc[w].batch
    BY <1>1, <2>3, <2>4 DEF Locals
  <2>6. Goto(w, "send") /\ loc' = [loc EXCEPT ![w] = l]
    BY <1>3, <2>1, <2>4 DEF Answer
  <2>7. TaskFits("send", task[w])
    BY <1>1, <1>2 DEF TaskFits, Waiting
  <2>8. IsAnswer(task[w], reply)
    BY <1>2, <2>3 DEF IsAnswer, IsDone
  <2>9. LocalsFit("send", task[w], l)
    BY <2>3, <2>5, <2>8 DEF LocalsFit, Authenticated
  <2>10. QED
    BY <1>1, <2>5, <2>6, <2>7, <2>9, QuietMoveFits DEF Stages
<1>4. CASE NextIteration(w) /\ UNCHANGED <<queue, writes, now, g_NeedStop>>
  <2>1. writes' \in [Clients -> Seq(Response)]
    BY <1>1, <1>4 DEF WorkerTypeOK
  <2>2. QED
    BY <1>1, <1>4, <2>1, NextIterationFits
<1>5. QED
  BY <1>3, <1>4 DEF endPoll

-----------------------------------------------------------------------------
(* USER_HISTORY.                                                             *)

\* What selectMessages returns was sent by that user to that chat.
LEMMA SelectedRows ==
    ASSUME StorageTypeOK, NEW from, NEW chatid, NEW max
    PROVE  \A i \in selectMessages(from, chatid, max) :
             /\ i \in DOMAIN messages /\ i \in Nat
             /\ messages[i].user_from = from
             /\ messages[i].chat_to = chatid
BY DEF selectMessages, Latest, StorageTypeOK

\* What the author has sent to the peer.
LEMMA SelectToFits ==
    ASSUME WorkerInv, NEW w \in Workers, selectTo(w)
    PROVE  StepFits(w)
<1>1. /\ pc[w] = "selectTo" /\ task[w] \in Task /\ loc[w] \in Locals
      /\ LocalsFit(pc[w], task[w], loc[w]) /\ TaskFits(pc[w], task[w])
      /\ UNCHANGED storageVars /\ StorageTypeOK
  BY ThreadTyped DEF selectTo, At, Waiting
<1>2. /\ task[w].cmd = "USER_HISTORY"
      /\ IsAuthor(task[w], loc[w].user) /\ IsPeer(task[w], loc[w].peer)
  BY <1>1 DEF LocalsFit, TaskFits, Authenticated
<1>3. PICK found : found = {1} \X selectMessages(users[loc[w].user].id,
                                                 users[loc[w].peer].self_chat_id,
                                                 HistoryLimit(w))
  OBVIOUS
<1>4. \A m \in found : IsHistory(task[w], m) /\ m \in Nat \X Nat
  <2>1. TAKE m \in found
  <2>2. /\ m[2] \in selectMessages(users[loc[w].user].id,
                                   users[loc[w].peer].self_chat_id, HistoryLimit(w))
        /\ m = <<1, m[2]>>
    BY <1>3
  <2>3. /\ m[2] \in DOMAIN messages /\ m[2] \in Nat
        /\ messages[m[2]].user_from = users[loc[w].user].id
        /\ messages[m[2]].chat_to = users[loc[w].peer].self_chat_id
    BY <1>1, <2>2, SelectedRows
  <2>4. IsHistory(task[w], m)
    BY <1>2, <2>3 DEF IsHistory, IsAuthor, IsPeer, PeerName
  <2>5. m \in Nat \X Nat
    BY <2>2, <2>3
  <2>6. QED
    BY <2>4, <2>5
<1>5. PICK l : l = [loc[w] EXCEPT !.batch = found]
  OBVIOUS
<1>6. /\ l \in Locals /\ l.batch = found /\ l.user = loc[w].user
      /\ l.peer = loc[w].peer
  BY <1>1, <1>4, <1>5 DEF Locals
<1>7. Goto(w, "selectFrom") /\ loc' = [loc EXCEPT ![w] = l]
  BY <1>3, <1>5 DEF selectTo
<1>8. TaskFits("selectFrom", task[w])
  BY <1>1, <1>2 DEF TaskFits, Waiting
<1>9. LocalsFit("selectFrom", task[w], l)
  BY <1>2, <1>4, <1>6 DEF LocalsFit, Authenticated, IsOwn
<1>10. QED
  BY <1>1, <1>6, <1>7, <1>8, <1>9, QuietMoveFits DEF Stages

\* mix_from_and_to_messages keeps some of both, max_count at most.
LEMMA MixesAreCut ==
    ASSUME NEW msgs, NEW max \in Nat, NEW mix \in Mixes(msgs, max)
    PROVE  mix \subseteq msgs /\ Cardinality(mix) <= max
BY DEF Mixes

\* The other direction, the mix, and the answer.
LEMMA SelectFromFits ==
    ASSUME WorkerInv, NEW w \in Workers, selectFrom(w)
    PROVE  StepFits(w)
<1>1. /\ pc[w] = "selectFrom" /\ task[w] \in Task /\ loc[w] \in Locals
      /\ LocalsFit(pc[w], task[w], loc[w]) /\ TaskFits(pc[w], task[w])
      /\ UNCHANGED storageVars /\ StorageTypeOK
      /\ task[w].request \in Params
  BY ThreadTyped DEF selectFrom, At, Waiting
<1>2. /\ task[w].cmd = "USER_HISTORY" /\ IsOwn(task[w], loc[w].batch)
      /\ IsAuthor(task[w], loc[w].user) /\ IsPeer(task[w], loc[w].peer)
  BY <1>1 DEF LocalsFit, TaskFits, Authenticated
<1>3. PICK found : found = {2} \X selectMessages(users[loc[w].peer].id,
                                                 users[loc[w].user].self_chat_id,
                                                 HistoryLimit(w))
  OBVIOUS
<1>4. PICK mix \in Mixes(loc[w].batch \cup found, task[w].request.count) :
             Answer(w, Messages("cmd", mix))
  BY <1>3 DEF selectFrom
<1>5. \A m \in found : IsHistory(task[w], m) /\ m \in Nat \X Nat
  <2>1. TAKE m \in found
  <2>2. /\ m[2] \in selectMessages(users[loc[w].peer].id,
                                   users[loc[w].user].self_chat_id, HistoryLimit(w))
        /\ m = <<2, m[2]>>
    BY <1>3
  <2>3. /\ m[2] \in DOMAIN messages /\ m[2] \in Nat
        /\ messages[m[2]].user_from = users[loc[w].peer].id
        /\ messages[m[2]].chat_to = users[loc[w].user].self_chat_id
    BY <1>1, <2>2, SelectedRows
  <2>4. IsHistory(task[w], m)
    BY <1>2, <2>3 DEF IsHistory, IsAuthor, IsPeer, PeerName
  <2>5. m \in Nat \X Nat
    BY <2>2, <2>3
  <2>6. QED
    BY <2>4, <2>5
<1>6. \A m \in loc[w].batch : IsHistory(task[w], m) /\ m \in Nat \X Nat
  BY <1>1, <1>2 DEF IsOwn, Locals
<1>7. task[w].request.count \in Nat
  BY <1>1 DEF Params
<1>8. mix \subseteq loc[w].batch \cup found
      /\ Cardinality(mix) <= task[w].request.count
  BY <1>4, <1>7, MixesAreCut
<1>9. IsOwn(task[w], mix) /\ mix \in SUBSET (Nat \X Nat)
  BY <1>2, <1>5, <1>6, <1>8 DEF IsOwn
<1>10. PICK reply : reply = Messages("cmd", mix)
  OBVIOUS
<1>11. /\ reply \in Response /\ reply.handler = "cmd" /\ reply.status = "ok"
       /\ reply.msgs = mix
  BY <1>9, <1>10, AnswersTyped DEF Messages
<1>12. IsAnswer(task[w], reply)
  BY <1>2, <1>8, <1>9, <1>11 DEF IsAnswer, IsDone
<1>13. PICK l : l = [loc[w] EXCEPT !.reply = reply]
  OBVIOUS
<1>14. l \in Locals /\ l.reply = reply /\ l.batch = loc[w].batch
  BY <1>1, <1>11, <1>13 DEF Locals
<1>15. Goto(w, "send") /\ loc' = [loc EXCEPT ![w] = l]
  BY <1>4, <1>10, <1>13 DEF Answer
<1>16. TaskFits("send", task[w])
  BY <1>1, <1>2 DEF TaskFits, Waiting
<1>17. LocalsFit("send", task[w], l)
  BY <1>2, <1>12, <1>14 DEF LocalsFit, Authenticated
<1>18. QED
  BY <1>1, <1>14, <1>15, <1>16, <1>17, QuietMoveFits DEF Stages

-----------------------------------------------------------------------------
(* All of them.                                                              *)

\* task.client->sendXXX starts the write.
LEMMA RespondFits ==
    ASSUME WorkerInv, NEW w \in Workers, respond(w)
    PROVE  StepFits(w)
<1>1. pc[w] = "send" /\ task[w] \in Task /\ loc[w] \in Locals /\ WorkerTypeOK
  BY ThreadTyped DEF respond, At, Waiting
<1>2. task[w].client \in Clients /\ loc[w].reply \in Response
  BY <1>1 DEF Task, Locals
<1>3. writes' \in [Clients -> Seq(Response)]
  BY <1>1, <1>2 DEF respond, WorkerTypeOK
<1>4. QED
  BY <1>3, NextIterationFits DEF respond

\* One step of one thread, whichever it is.
LEMMA WorkerStepFits ==
    ASSUME WorkerInv, NEW w \in Workers, processQueue(w)
    PROVE  StepFits(w)
BY CheckStopFits, GetTaskFits, AuthFits, ByNameFits, LookupChatFits,
   ReadClockFits, SaveMessageFits, CreateUserFits, CreateChatFits, AddUserFits,
   HeartBitFits, ListChatsFits, PollChatFits, EndPollFits, SelectToFits,
   SelectFromFits, RespondFits DEF processQueue

\* A step of a thread keeps the invariant, rows included.
LEMMA WorkerStepKeepsInv ==
    ASSUME WorkerInv, NEW w \in Workers, processQueue(w)
    PROVE  WorkerInv' /\ RowsKept /\ [StorageNext]_storageVars
<1>1. StepFits(w)
  BY WorkerStepFits
<1>2. [StorageNext]_storageVars
  BY <1>1 DEF StepFits
<1>3. RowsKept
  BY <1>2, StepKeepsRows, NoCallKeepsRows DEF WorkerInv, StorageInv
<1>4. StorageInv'
  BY <1>2, NextKeepsInv DEF WorkerInv
<1>5. ASSUME NEW v \in Workers, v # w PROVE ThreadOK(v)'
  <2>1. pc'[v] = pc[v] /\ task'[v] = task[v] /\ loc'[v] = loc[v]
    BY <1>1, <1>5 DEF StepFits, Others
  <2>2. PICK stage, t, l : stage = pc[v] /\ t = task[v] /\ l = loc[v]
    OBVIOUS
  <2>3. TaskFits(stage, t) /\ LocalsFit(stage, t, l)
    BY <2>2 DEF WorkerInv, ThreadOK
  <2>4. LocalsFit(stage, t, l)'
    BY <1>3, <2>3, LocalsKept DEF WorkerInv, StorageInv
  <2>5. QED
    BY <2>1, <2>2, <2>3, <2>4 DEF ThreadOK, TaskFits, NoTask
<1>6. \A v \in Workers : ThreadOK(v)'
  BY <1>1, <1>5 DEF StepFits
<1>7. QED
  BY <1>1, <1>2, <1>3, <1>4, <1>6 DEF WorkerInv, StepFits

\* What the others do to the queue, the answers, the clock and g_NeedStop is no
\* business of a thread that works.
LEMMA EnvironmentKeepsInv ==
    ASSUME WorkerInv, UNCHANGED <<storageVars, pc, task, loc>>,
           queue' \in Seq(Task), writes' \in [Clients -> Seq(Response)],
           now' \in Time, g_NeedStop' \in BOOLEAN
    PROVE  WorkerInv'
<1>1. StorageInv' /\ RowsKept
  BY StutterKeepsInv, NoCallKeepsRows DEF WorkerInv, StorageInv
<1>2. WorkerTypeOK'
  BY DEF WorkerInv, WorkerTypeOK
<1>3. ASSUME NEW v \in Workers PROVE ThreadOK(v)'
  <2>1. PICK stage, t, l : stage = pc[v] /\ t = task[v] /\ l = loc[v]
    OBVIOUS
  <2>2. TaskFits(stage, t) /\ LocalsFit(stage, t, l)
    BY <2>1 DEF WorkerInv, ThreadOK
  <2>3. LocalsFit(stage, t, l)'
    BY <1>1, <2>2, LocalsKept DEF WorkerInv, StorageInv
  <2>4. QED
    BY <2>1, <2>2, <2>3 DEF ThreadOK, TaskFits, NoTask
<1>4. QED
  BY <1>1, <1>2, <1>3 DEF WorkerInv

\* The threads start with nothing in hand, whatever is in the tables.
LEMMA WorkerInitFits == StorageInv /\ WorkerInit => WorkerInv
<1> SUFFICES ASSUME StorageInv, WorkerInit PROVE WorkerInv
  OBVIOUS
<1>1. WorkerTypeOK
  <2>1. "check" \in Stages /\ NoLocals \in Locals /\ 1 \in Time
    BY WorkerAssumption, AnswersTyped DEF Stages
  <2>2. <<>> \in Seq(Task) /\ <<>> \in Seq(Response)
    OBVIOUS
  <2>3. /\ pc \in [Workers -> Stages]
        /\ task \in [Workers -> Task \cup {NoTask}]
        /\ loc \in [Workers -> Locals]
        /\ writes \in [Clients -> Seq(Response)]
    BY <2>1, <2>2 DEF WorkerInit
  <2>4. QED
    BY <2>1, <2>2, <2>3 DEF WorkerInit, WorkerTypeOK
<1>2. ASSUME NEW w \in Workers PROVE ThreadOK(w)
  <2>1. pc[w] = "check" /\ task[w] = NoTask /\ loc[w].batch = {}
    BY DEF WorkerInit, NoLocals
  <2>2. QED
    BY <2>1 DEF ThreadOK, TaskFits, LocalsFit, Waiting, Authenticated
<1>3. QED
  BY <1>1, <1>2 DEF WorkerInv

-----------------------------------------------------------------------------
(* A task's way through the threads: it is taken from the queue, worked on   *)
(* by the thread that took it, and answered or dropped.                      *)

KeepsTask(w) == UNCHANGED <<queue, task, writes>> /\ pc[w] # "send"

TakesTask(w) ==
    /\ queue # <<>> /\ queue' = Tail(queue) /\ task[w] = NoTask
    /\ task' = [task EXCEPT ![w] = IF Head(queue).cmd = "CHAT_HISTORY"
                                   THEN NoTask ELSE Head(queue)]
    /\ UNCHANGED <<writes, loc>> /\ pc'[w] # "send"

DropsTask(w) ==
    /\ task[w] \in Task /\ task[w].cmd = "IDLE" /\ ~task[w].ping
    /\ loc[w].batch = {} /\ pc[w] = "poll"
    /\ task' = [task EXCEPT ![w] = NoTask]
    /\ UNCHANGED <<queue, writes, storageVars>> /\ pc'[w] # "send"

AnswersTask(w) ==
    /\ task[w] \in Task /\ pc[w] = "send"
    /\ writes' = [writes EXCEPT ![task[w].client] = Append(@, loc[w].reply)]
    /\ task' = [task EXCEPT ![w] = NoTask]
    /\ UNCHANGED <<queue, storageVars>> /\ pc'[w] # "send"

\* Every step of a thread is one of the four.
LEMMA TaskMoves ==
    ASSUME WorkerInv, NEW w \in Workers, processQueue(w)
    PROVE  KeepsTask(w) \/ TakesTask(w) \/ DropsTask(w) \/ AnswersTask(w)
<1>1. WorkerTypeOK /\ TaskFits(pc[w], task[w])
  BY ThreadTyped
<1>2. CASE getTask(w)
  <2>1. task[w] = NoTask
    BY <1>1, <1>2 DEF getTask, At, TaskFits, Waiting
  <2>2. CASE queue = <<>>
    BY <1>2, <2>2 DEF getTask, Goto, KeepsTask, At
  <2>3. CASE queue # <<>>
    <3>1. PICK stage : stage = FirstStage(Head(queue).cmd)
      OBVIOUS
    <3>2. Head(queue).cmd \in Commands
      <4>1. Head(queue) \in Task
        BY <1>1, <2>3 DEF WorkerTypeOK
      <4>2. QED
        BY <4>1 DEF Task
    <3>3. /\ stage = "check" <=> Head(queue).cmd = "CHAT_HISTORY"
          /\ stage # "send"
      BY <3>1, <3>2 DEF FirstStage, Commands
    <3>4. pc' = [pc EXCEPT ![w] = stage] /\ queue' = Tail(queue)
          /\ UNCHANGED <<writes, loc>>
          /\ task' = [task EXCEPT ![w] = IF stage = "check" THEN NoTask
                                                            ELSE Head(queue)]
      BY <1>2, <2>3, <3>1 DEF getTask
    <3>5. QED
      BY <1>1, <2>1, <2>3, <3>3, <3>4 DEF TakesTask, WorkerTypeOK
  <2>4. QED
    BY <2>2, <2>3
<1>3. CASE endPoll(w)
  <2>1. CASE NextIteration(w) /\ UNCHANGED <<queue, writes>>
             /\ loc[w].batch = {} /\ ~task[w].ping
    BY <1>1, <1>3, <2>1
       DEF endPoll, NextIteration, DropsTask, At, TaskFits, Waiting, WorkerTypeOK
  <2>2. CASE Answer(w, Messages("idle", loc[w].batch))
    BY <1>3, <2>2 DEF endPoll, At, Answer, Goto, KeepsTask
  <2>3. QED
    BY <1>3, <2>1, <2>2 DEF endPoll
<1>4. CASE respond(w)
  BY <1>1, <1>4 DEF respond, NextIteration, AnswersTask, At, TaskFits, Waiting,
                    WorkerTypeOK
<1>5. CASE pollChat(w)
  BY <1>5 DEF pollChat, KeepsTask, At
<1>6. CASE checkStop(w) \/ readClock(w) \/ listChats(w) \/ selectTo(w)
           \/ doSaveMessage(w) \/ doAddUserToChat(w) \/ doUpdateHeartBit(w)
  BY <1>6 DEF checkStop, readClock, listChats, selectTo, doSaveMessage,
              doAddUserToChat, doUpdateHeartBit, Answer, Goto, KeepsTask, At
<1>7. CASE lookup_check_pass(w) \/ lookupChat(w)
  BY <1>7 DEF lookup_check_pass, lookupChat, Refuse, Answer, Goto, KeepsTask, At
<1>8. CASE lookup_check_pass_by_name(w)
  BY <1>8 DEF lookup_check_pass_by_name, UseUser, Refuse, Answer, Goto,
              KeepsTask, At
<1>9. CASE doCreateUser(w) \/ doCreateChat(w)
  BY <1>9 DEF doCreateUser, doCreateChat, Refuse, Answer, Goto, KeepsTask, At
<1>10. CASE selectFrom(w)
  BY <1>10 DEF selectFrom, Answer, Goto, KeepsTask, At
<1>11. QED
  BY <1>2, <1>3, <1>4, <1>5, <1>6, <1>7, <1>8, <1>9, <1>10 DEF processQueue
=============================================================================
