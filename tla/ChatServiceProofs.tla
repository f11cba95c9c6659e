------------------------- MODULE ChatServiceProofs -------------------------
(***************************************************************************)
(* The database threads implement the service of ChatService, for any      *)
(* number of threads and clients and from any tables they may find: every  *)
(* step of a thread is the one moment of a request, or none.               *)
(***************************************************************************)
EXTENDS WorkerPoolProofs

-----------------------------------------------------------------------------
(* What a thread has found since the task it has was put.                   *)

\* A moment that has passed.
Then(m) ==
    /\ m.users \in 0 .. Len(users)
    /\ m.chats \in 0 .. Len(chats)
    /\ m.rows \in 0 .. Len(chatuser)
    /\ m.log \in 0 .. Len(messages)
    /\ m.now \in 0 .. now

\* The first chat of its name, and the only one that is older than the task.
IsOnly(t, m, chat) ==
    LET named == lookupChatByName(t.request.chatname)
    IN  \E d \in named :
          /\ chats[d].id = chat
          /\ \A e \in named : e = d \/ (e > d /\ e > m.chats)

\* The news of a chat, and the messages from one to another, as of a moment when
\* n messages were there.
NewsAt(t, row, n) ==
    Latest({i \in 1 .. n : /\ messages[i].chat_to = chatuser[row].chatid
                           /\ messages[i].ts > t.request.ts}, MessageLimit)

SentAt(t, from, chatid, n) ==
    Latest({i \in 1 .. n : /\ messages[i].user_from = from
                           /\ messages[i].chat_to = chatid},
           (2 * t.request.count) % Word)

\* The chats that the author was in when k memberships were there.
MineAt(t, k) == {row \in lookupChatsForUserId(t.request.uid) : row <= k}

OfRow(batch, row) == {b \in batch : b[1] = row}

\* The batch has the news of all of them but those still to be read.
IsPolled(t, m, l) ==
    \E k \in m.rows .. Len(chatuser) :
       /\ l.todo \subseteq MineAt(t, k)
       /\ \A b \in l.batch : b[1] \in MineAt(t, k) \ l.todo
       /\ \A row \in MineAt(t, k) \ l.todo :
             \E n \in m.log .. Len(messages) :
                OfRow(l.batch, row) = {row} \X NewsAt(t, row, n)

\* The batch has what the author has sent to the peer.
IsSent(t, m, l) ==
    \E n \in m.log .. Len(messages) :
       l.batch = {1} \X SentAt(t, users[l.user].id, users[l.peer].self_chat_id, n)

\* What the locals mean, by the moment the task was put.
SinceFits(stage, t, l, m) ==
    /\ stage \in {"clock", "save", "addUser"}
         /\ t.cmd \in {"CHAT_ADDUSER", "MESSAGE_SEND_CHAT"} => IsOnly(t, m, l.chat)
    /\ stage \in {"save", "heartbit"} => l.ts \in m.now .. now
    /\ stage = "poll" => IsPolled(t, m, l)
    /\ stage = "selectFrom" => IsSent(t, m, l)

\* The moment the task of a thread was put.
Put(w) == since[task[w].client]

SinceInv ==
    /\ since = [c \in Clients |-> since[c]]
    /\ \A c \in Clients : Then(since[c])
    /\ \A w \in Workers :
          pc[w] \notin Waiting => SinceFits(pc[w], task[w], loc[w], Put(w))

\* The inductive invariant.
ServiceInv == PoolInv /\ SinceInv

-----------------------------------------------------------------------------
(* Rows are only added, behind those that are there.                        *)

\* A sequence on a larger domain is longer.
LEMMA LongerIs ==
    ASSUME NEW S, NEW T, NEW s \in Seq(S), NEW t \in Seq(T), DOMAIN s \subseteq DOMAIN t
    PROVE  /\ Len(s) \in Nat /\ Len(t) \in Nat /\ Len(s) <= Len(t)
           /\ DOMAIN s = 1 .. Len(s) /\ DOMAIN t = 1 .. Len(t)
  OBVIOUS

\* The tables grow.
LEMMA TablesGrow ==
    ASSUME StorageTypeOK, StorageTypeOK', RowsKept
    PROVE  /\ Len(users) \in Nat /\ Len(users') \in Nat /\ Len(users) <= Len(users')
           /\ Len(chats) \in Nat /\ Len(chats') \in Nat /\ Len(chats) <= Len(chats')
           /\ Len(chatuser) \in Nat /\ Len(chatuser') \in Nat
           /\ Len(chatuser) <= Len(chatuser')
           /\ Len(messages) \in Nat /\ Len(messages') \in Nat
           /\ Len(messages) <= Len(messages')
           /\ DOMAIN chats = 1 .. Len(chats) /\ DOMAIN chats' = 1 .. Len(chats')
           /\ DOMAIN chatuser = 1 .. Len(chatuser)
           /\ DOMAIN chatuser' = 1 .. Len(chatuser')
           /\ DOMAIN messages = 1 .. Len(messages)
           /\ DOMAIN messages' = 1 .. Len(messages')
<1>1. /\ DOMAIN users \subseteq DOMAIN users' /\ DOMAIN chats \subseteq DOMAIN chats'
      /\ DOMAIN chatuser \subseteq DOMAIN chatuser'
      /\ DOMAIN messages \subseteq DOMAIN messages'
  BY KeptRows
<1>2. /\ users \in Seq(User) /\ users' \in Seq(User')
      /\ chats \in Seq(Chat) /\ chats' \in Seq(Chat')
      /\ chatuser \in Seq(Chatuser) /\ chatuser' \in Seq(Chatuser')
      /\ messages \in Seq(Message) /\ messages' \in Seq(Message')
  BY DEF StorageTypeOK
<1>3. QED
  BY <1>1, <1>2, LongerIs

\* A moment that has passed stays passed.
LEMMA ThenKept ==
    ASSUME StorageTypeOK, StorageTypeOK', RowsKept, now \in Nat, now' \in Nat,
           now <= now', NEW m, Then(m)
    PROVE  Then(m)'
<1>1. /\ Len(users) <= Len(users') /\ Len(chats) <= Len(chats')
      /\ Len(chatuser) <= Len(chatuser') /\ Len(messages) <= Len(messages')
      /\ Len(users) \in Nat /\ Len(chats) \in Nat /\ Len(chatuser) \in Nat
      /\ Len(messages) \in Nat /\ Len(users') \in Nat /\ Len(chats') \in Nat
      /\ Len(chatuser') \in Nat /\ Len(messages') \in Nat
  BY TablesGrow
<1>2. \A x : \A a, b \in Nat : x \in 0 .. a /\ a <= b => x \in 0 .. b
  OBVIOUS
<1>3. QED
  BY <1>1, <1>2 DEF Then

\* The only older chat of a name stays the only older one.
LEMMA OnlyKept ==
    ASSUME StorageTypeOK, StorageTypeOK', RowsKept, NEW t, NEW m, Then(m), NEW chat,
           IsOnly(t, m, chat)
    PROVE  IsOnly(t, m, chat)'
<1> DEFINE named == lookupChatByName(t.request.chatname)
<1>1. PICK d \in named : /\ chats[d].id = chat
                         /\ \A e \in named : e = d \/ (e > d /\ e > m.chats)
  BY DEF IsOnly
<1>2. /\ \A i \in DOMAIN chats : i \in DOMAIN chats' /\ chats'[i] = chats[i]
      /\ DOMAIN chats = 1 .. Len(chats) /\ DOMAIN chats' = 1 .. Len(chats')
      /\ Len(chats) \in Nat /\ Len(chats') \in Nat
  BY KeptRows, TablesGrow
<1>3. d \in named' /\ chats'[d].id = chat /\ d \in 1 .. Len(chats)
  BY <1>1, <1>2 DEF lookupChatByName
<1>4. ASSUME NEW e \in named'
      PROVE  e = d \/ (e > d /\ e > m.chats)
  <2>1. CASE e \in DOMAIN chats
    <3>1. e \in named
      BY <1>2, <1>4, <2>1 DEF lookupChatByName
    <3>2. QED
      BY <1>1, <3>1
  <2>2. CASE e \notin DOMAIN chats
    <3>1. e \in 1 .. Len(chats') /\ m.chats \in 0 .. Len(chats)
      BY <1>2, <1>4 DEF lookupChatByName, Then
    <3>2. QED
      BY <1>2, <1>3, <2>2, <3>1
  <2>3. QED
    BY <2>1, <2>2
<1>5. QED
  BY <1>3, <1>4 DEF IsOnly

\* What there was at a moment stays so.
LEMMA AtKept ==
    ASSUME StorageTypeOK, StorageTypeOK', RowsKept, NEW t
    PROVE  /\ \A row \in DOMAIN chatuser, n \in 0 .. Len(messages) :
                NewsAt(t, row, n)' = NewsAt(t, row, n)
           /\ \A from, chatid : \A n \in 0 .. Len(messages) :
                SentAt(t, from, chatid, n)' = SentAt(t, from, chatid, n)
           /\ \A k \in 0 .. Len(chatuser) : MineAt(t, k)' = MineAt(t, k)
<1>1. /\ DOMAIN chatuser = 1 .. Len(chatuser) /\ DOMAIN messages = 1 .. Len(messages)
      /\ DOMAIN chatuser' = 1 .. Len(chatuser')
      /\ Len(chatuser) \in Nat /\ Len(messages) \in Nat
      /\ \A i \in DOMAIN chatuser :
           i \in DOMAIN chatuser' /\ chatuser'[i] = chatuser[i]
      /\ \A i \in DOMAIN messages :
           /\ messages'[i].user_from = messages[i].user_from
           /\ messages'[i].chat_to = messages[i].chat_to
           /\ messages'[i].ts = messages[i].ts
  BY KeptRows, TablesGrow
<1>2. ASSUME NEW row \in DOMAIN chatuser, NEW n \in 0 .. Len(messages)
      PROVE  NewsAt(t, row, n)' = NewsAt(t, row, n)
  <2>1. {i \in 1 .. n : /\ messages'[i].chat_to = chatuser'[row].chatid
                        /\ messages'[i].ts > t.request.ts}
          = {i \in 1 .. n : /\ messages[i].chat_to = chatuser[row].chatid
                            /\ messages[i].ts > t.request.ts}
    BY <1>1
  <2>2. QED
    BY <2>1 DEF NewsAt, Latest
<1>3. ASSUME NEW from, NEW chatid, NEW n \in 0 .. Len(messages)
      PROVE  SentAt(t, from, chatid, n)' = SentAt(t, from, chatid, n)
  <2>1. {i \in 1 .. n : /\ messages'[i].user_from = from
                        /\ messages'[i].chat_to = chatid}
          = {i \in 1 .. n : /\ messages[i].user_from = from
                            /\ messages[i].chat_to = chatid}
    BY <1>1
  <2>2. QED
    BY <2>1 DEF SentAt, Latest
<1>4. ASSUME NEW k \in 0 .. Len(chatuser)
      PROVE  MineAt(t, k)' = MineAt(t, k)
  BY <1>1 DEF MineAt, lookupChatsForUserId
<1>5. QED
  BY <1>2, <1>3, <1>4

\* What a thread has found stays so.
LEMMA SinceKept ==
    ASSUME StorageTypeOK, StorageTypeOK', RowsKept, now \in Nat, now' \in Nat,
           now <= now', NEW stage, NEW t, NEW l, NEW m, Then(m),
           stage = "selectFrom" => l.user \in DOMAIN users /\ l.peer \in DOMAIN users,
           SinceFits(stage, t, l, m)
    PROVE  SinceFits(stage, t, l, m)'
<1>1. /\ Len(chatuser) \in Nat /\ Len(chatuser') \in Nat
      /\ Len(chatuser) <= Len(chatuser')
      /\ Len(messages) \in Nat /\ Len(messages') \in Nat
      /\ Len(messages) <= Len(messages')
      /\ DOMAIN chatuser = 1 .. Len(chatuser)
  BY TablesGrow
<1>2. m.rows \in Nat /\ m.log \in Nat /\ m.now \in Nat
  BY <1>1 DEF Then
<1>3. stage \in {"save", "heartbit"} => l.ts \in m.now .. now'
  BY <1>2 DEF SinceFits
<1>4. IsOnly(t, m, l.chat) => IsOnly(t, m, l.chat)'
  BY OnlyKept
<1>5. ASSUME IsPolled(t, m, l)
      PROVE  IsPolled(t, m, l)'
  <2>1. PICK k \in m.rows .. Len(chatuser) :
           /\ l.todo \subseteq MineAt(t, k)
           /\ \A b \in l.batch : b[1] \in MineAt(t, k) \ l.todo
           /\ \A row \in MineAt(t, k) \ l.todo :
                 \E n \in m.log .. Len(messages) :
                    OfRow(l.batch, row) = {row} \X NewsAt(t, row, n)
    BY <1>5 DEF IsPolled
  <2>2. k \in m.rows .. Len(chatuser') /\ MineAt(t, k)' = MineAt(t, k)
    <3>1. k \in 0 .. Len(chatuser) /\ k \in m.rows .. Len(chatuser')
      BY <1>1, <1>2, <2>1
    <3>2. QED
      BY <3>1, AtKept
  <2>3. ASSUME NEW row \in MineAt(t, k) \ l.todo
        PROVE  \E n \in m.log .. Len(messages') :
                  OfRow(l.batch, row) = {row} \X NewsAt(t, row, n)'
    <3>1. PICK n \in m.log .. Len(messages) :
                  OfRow(l.batch, row) = {row} \X NewsAt(t, row, n)
      BY <2>1
    <3>2. row \in DOMAIN chatuser
      BY DEF MineAt, lookupChatsForUserId
    <3>3. n \in 0 .. Len(messages) /\ n \in m.log .. Len(messages')
      BY <1>1, <1>2
    <3>4. NewsAt(t, row, n)' = NewsAt(t, row, n)
      BY <3>2, <3>3, AtKept
    <3>5. QED
      BY <3>1, <3>3, <3>4
  <2>4. QED
    BY <2>1, <2>2, <2>3 DEF IsPolled, OfRow
<1>6. ASSUME IsSent(t, m, l), stage = "selectFrom"
      PROVE  IsSent(t, m, l)'
  <2>1. PICK from, chatid :
           from = users[l.user].id /\ chatid = users[l.peer].self_chat_id
    OBVIOUS
  <2>2. PICK n \in m.log .. Len(messages) : l.batch = {1} \X SentAt(t, from, chatid, n)
    BY <1>6, <2>1 DEF IsSent
  <2>3. l.user \in DOMAIN users /\ l.peer \in DOMAIN users
    BY <1>6
  <2>4. from = users'[l.user].id /\ chatid = users'[l.peer].self_chat_id
    BY <2>1, <2>3, KeptRows
  <2>5. n \in m.log .. Len(messages') /\ n \in 0 .. Len(messages)
    BY <1>1, <1>2
  <2>6. SentAt(t, from, chatid, n)' = SentAt(t, from, chatid, n)
    BY <2>5, AtKept
  <2>7. QED
    BY <2>2, <2>4, <2>5, <2>6 DEF IsSent
<1>7. QED
  BY <1>3, <1>4, <1>5, <1>6 DEF SinceFits

-----------------------------------------------------------------------------
(* The outcome of a client's task, and what a step of a thread does to it.  *)

NoOutcome == [handler |-> "none"]
InSilence == [handler |-> "silence"]

\* The outcome by the answers, of which there is one at most.
LEMMA OutcomeIs ==
    ASSUME NEW c
    PROVE  /\ \A a : Answers(c) = {a} => Outcome(c) = a
           /\ Answers(c) = {} =>
                Outcome(c) = IF Asked(c) /\ Queued(c) = {} /\ Serving(c) = {}
                             THEN InSilence ELSE NoOutcome
<1>1. ASSUME NEW a, Answers(c) = {a}
      PROVE  Outcome(c) = a
  BY <1>1 DEF Outcome
<1>2. ASSUME Answers(c) = {}
      PROVE  Outcome(c) = IF Asked(c) /\ Queued(c) = {} /\ Serving(c) = {}
                          THEN InSilence ELSE NoOutcome
  <2>1. CASE Asked(c) /\ Queued(c) = {} /\ Serving(c) = {}
    BY <1>2, <2>1 DEF Outcome, InSilence
  <2>2. CASE ~(Asked(c) /\ Queued(c) = {} /\ Serving(c) = {})
    BY <1>2, <2>2 DEF Outcome, NoOutcome
  <2>3. QED
    BY <2>1, <2>2
<1>3. QED
  BY <1>1, <1>2

\* ... and so it is in the next state.
LEMMA OutcomeIsNext ==
    ASSUME NEW c
    PROVE  /\ \A a : Answers(c)' = {a} => Outcome(c)' = a
           /\ Answers(c)' = {} =>
                Outcome(c)' = IF Asked(c)' /\ Queued(c)' = {} /\ Serving(c)' = {}
                              THEN InSilence ELSE NoOutcome
<1>1. ASSUME NEW a, Answers(c)' = {a}
      PROVE  Outcome(c)' = a
  BY <1>1 DEF Outcome
<1>2. ASSUME Answers(c)' = {}
      PROVE  Outcome(c)' = IF Asked(c)' /\ Queued(c)' = {} /\ Serving(c)' = {}
                           THEN InSilence ELSE NoOutcome
  <2>1. CASE Asked(c)' /\ Queued(c)' = {} /\ Serving(c)' = {}
    BY <1>2, <2>1 DEF Outcome, InSilence
  <2>2. CASE ~(Asked(c)' /\ Queued(c)' = {} /\ Serving(c)' = {})
    BY <1>2, <2>2 DEF Outcome, NoOutcome
  <2>3. QED
    BY <2>1, <2>2
<1>3. QED
  BY <1>1, <1>2

\* The task of a thread and its client.
LEMMA HasTask ==
    ASSUME PoolInv, NEW w \in Workers, task[w] # NoTask
    PROVE  /\ task[w] \in Task /\ task[w].client \in Clients
           /\ w \in Serving(task[w].client)
           /\ submitted[task[w].client] = task[w]
<1>1. task[w] \in Task
  BY PoolTyped
<1>2. task[w].client \in Clients
  BY <1>1 DEF Task
<1>3. w \in Serving(task[w].client)
  BY DEF Serving
<1>4. QED
  BY <1>1, <1>2, <1>3, PoolTyped DEF Placed, OwnTask

\* A task in the hands of a thread has no outcome but the answer it has ready.
LEMMA InHand ==
    ASSUME PoolInv, NEW c \in Clients, NEW w \in Serving(c)
    PROVE  /\ Serving(c) = {w} /\ writes[c] = <<>> /\ Queued(c) = {}
           /\ submitted[c] = task[w] /\ Asked(c) /\ task[w].client = c
           /\ Outcome(c) = IF pc[w] = "send" THEN loc[w].reply ELSE NoOutcome
<1>1. /\ Serving(c) = {w} /\ writes[c] = <<>> /\ Queued(c) = {}
      /\ submitted[c] = task[w]
  BY PoolTyped DEF Placed, OnePlace, OwnTask
<1>2. task[w] # NoTask /\ task[w].client = c
  BY DEF Serving
<1>3. DOMAIN writes[c] = {}
  BY <1>1
<1>4. CASE pc[w] = "send"
  <2>1. Answers(c) = {loc[w].reply}
    BY <1>1, <1>3, <1>4 DEF Answers, At
  <2>2. QED
    BY <1>1, <1>2, <1>4, <2>1, OutcomeIs DEF Asked
<1>5. CASE pc[w] # "send"
  <2>1. Answers(c) = {}
    BY <1>1, <1>3, <1>5 DEF Answers, At
  <2>2. QED
    BY <1>1, <1>2, <1>5, <2>1, OutcomeIs DEF Asked
<1>6. QED
  BY <1>4, <1>5

\* The outcome is a matter of where the client's task is, and of its answers.
LEMMA SameOutcome ==
    ASSUME NEW c, Answers(c)' = Answers(c), Asked(c)' = Asked(c),
           (Queued(c)' = {} /\ Serving(c)' = {}) <=> (Queued(c) = {} /\ Serving(c) = {})
    PROVE  Outcome(c)' = Outcome(c)
<1>1. CASE Answers(c) # {}
  BY <1>1 DEF Outcome
<1>2. CASE Answers(c) = {}
  BY <1>2, OutcomeIs, OutcomeIsNext
<1>3. QED
  BY <1>1, <1>2

\* A step that works on a task: it may have the answer ready.
LEMMA KeepsOutcome ==
    ASSUME PoolInv, PoolInv', NEW w \in Workers, KeepsTask(w), Others(w),
           UNCHANGED submitted, NEW c \in Clients
    PROVE  Outcome(c)' = IF w \in Serving(c) /\ pc'[w] = "send"
                         THEN loc'[w].reply ELSE Outcome(c)
<1>1. /\ Serving(c)' = Serving(c) /\ Queued(c)' = Queued(c) /\ Asked(c)' = Asked(c)
      /\ writes' = writes /\ pc[w] # "send"
  BY DEF KeepsTask, Serving, Queued, Asked
<1>2. CASE w \in Serving(c)
  <2>1. Outcome(c) = NoOutcome
    BY <1>1, <1>2, InHand
  <2>2. Serving(c)' = {w} /\ DOMAIN writes'[c] = {} /\ Serving(c) # {}
    BY <1>1, <1>2, InHand
  <2>3. CASE pc'[w] = "send"
    <3>1. Answers(c)' = {loc'[w].reply}
      BY <2>2, <2>3 DEF Answers, At
    <3>2. QED
      BY <1>2, <2>3, <3>1, OutcomeIsNext
  <2>4. CASE pc'[w] # "send"
    <3>1. Answers(c)' = {}
      BY <2>2, <2>4 DEF Answers, At
    <3>2. QED
      BY <1>1, <2>1, <2>2, <2>4, <3>1, OutcomeIsNext
  <2>5. QED
    BY <2>3, <2>4
<1>3. CASE w \notin Serving(c)
  <2>1. \A v \in Serving(c) : pc'[v] = pc[v] /\ loc'[v] = loc[v]
    BY <1>3 DEF Others, Serving
  <2>2. Answers(c)' = Answers(c)
    BY <1>1, <2>1 DEF Answers, At
  <2>3. QED
    BY <1>1, <1>3, <2>2, SameOutcome
<1>4. QED
  BY <1>2, <1>3

\* The first task of the queue is the one of its client.
LEMMA FirstIsQueued ==
    ASSUME PoolInv, queue # <<>>
    PROVE  /\ Head(queue) \in Task /\ Head(queue).client \in Clients
           /\ Queued(Head(queue).client) = {1}
           /\ submitted[Head(queue).client] = Head(queue)
           /\ Tail(queue) \in Seq(Task)
           /\ \A k \in DOMAIN Tail(queue) :
                k + 1 \in DOMAIN queue /\ Tail(queue)[k] = queue[k + 1] /\ k + 1 # 1
           /\ \A k \in DOMAIN queue \ {1} :
                k - 1 \in DOMAIN Tail(queue) /\ Tail(queue)[k - 1] = queue[k]
<1>1. queue \in Seq(Task)
  BY PoolTyped
<1>2. /\ 1 \in DOMAIN queue /\ queue[1] = Head(queue) /\ Head(queue) \in Task
      /\ Tail(queue) \in Seq(Task)
      /\ \A k \in DOMAIN Tail(queue) :
           k + 1 \in DOMAIN queue /\ Tail(queue)[k] = queue[k + 1] /\ k + 1 # 1
      /\ \A k \in DOMAIN queue \ {1} :
           k - 1 \in DOMAIN Tail(queue) /\ Tail(queue)[k - 1] = queue[k]
  BY <1>1
<1>3. Head(queue).client \in Clients
  BY <1>2 DEF Task
<1>4. 1 \in Queued(Head(queue).client)
  BY <1>2 DEF Queued
<1>5. QED
  BY <1>2, <1>3, <1>4, PoolTyped DEF Placed, OnePlace, OwnTask

\* A step that takes a task: a history of a group ends here, in silence.
LEMMA TakesOutcome ==
    ASSUME PoolInv, PoolInv', NEW w \in Workers, TakesTask(w), Others(w),
           UNCHANGED submitted, NEW c \in Clients
    PROVE  IF c = Head(queue).client
           THEN /\ Outcome(c) = NoOutcome /\ submitted[c] = Head(queue)
                /\ Outcome(c)' = IF Head(queue).cmd = "CHAT_HISTORY"
                                 THEN InSilence ELSE NoOutcome
           ELSE Outcome(c)' = Outcome(c)
<1> DEFINE t == Head(queue)
<1>1. /\ queue # <<>> /\ queue' = Tail(queue) /\ task[w] = NoTask
      /\ task' = [task EXCEPT ![w] = IF t.cmd = "CHAT_HISTORY" THEN NoTask ELSE t]
      /\ writes' = writes /\ loc' = loc /\ pc'[w] # "send" /\ Asked(c)' = Asked(c)
      /\ task \in [Workers -> Task \cup {NoTask}]
  BY PoolTyped DEF TakesTask, Asked
<1>2. /\ t \in Task /\ t.client \in Clients /\ t # NoTask
      /\ Queued(t.client) = {1} /\ submitted[t.client] = t
      /\ \A k \in DOMAIN Tail(queue) :
           k + 1 \in DOMAIN queue /\ Tail(queue)[k] = queue[k + 1] /\ k + 1 # 1
      /\ \A k \in DOMAIN queue \ {1} :
           k - 1 \in DOMAIN Tail(queue) /\ Tail(queue)[k - 1] = queue[k]
  BY <1>1, FirstIsQueued, NoTaskIsNone
<1>3. \A v \in Workers \ {w} : task'[v] = task[v] /\ pc'[v] = pc[v]
  BY DEF Others
<1>4. task'[w] = IF t.cmd = "CHAT_HISTORY" THEN NoTask ELSE t
  BY <1>1
<1>5. CASE c = t.client
  <2>1. Serving(c) = {} /\ writes[c] = <<>>
    BY <1>2, <1>5, PoolTyped DEF Placed, OnePlace
  <2>2. Answers(c) = {} /\ Asked(c)
    BY <1>2, <1>5, <2>1 DEF Answers, Asked
  <2>3. Outcome(c) = NoOutcome
    BY <1>2, <1>5, <2>2, OutcomeIs
  <2>4. Queued(c)' = {}
    BY <1>1, <1>2, <1>5 DEF Queued
  <2>5. Serving(c)' = IF t.cmd = "CHAT_HISTORY" THEN {} ELSE {w}
    BY <1>2, <1>3, <1>4, <1>5, <2>1 DEF Serving
  <2>6. Answers(c)' = {}
    BY <1>1, <2>1, <2>5 DEF Answers, At
  <2>7. QED
    BY <1>1, <1>2, <1>5, <2>2, <2>3, <2>4, <2>5, <2>6, OutcomeIsNext
<1>6. CASE c # t.client
  <2>1. Serving(c)' = Serving(c) /\ w \notin Serving(c)
    BY <1>1, <1>3, <1>4, <1>6 DEF Serving
  <2>2. Queued(c)' = {} <=> Queued(c) = {}
    <3>1. ASSUME NEW k \in Queued(c)
          PROVE  k - 1 \in Queued(c)'
      <4>1. k \in DOMAIN queue \ {1}
        BY <1>1, <1>2, <1>6, <3>1 DEF Queued
      <4>2. QED
        BY <1>1, <1>2, <3>1, <4>1 DEF Queued
    <3>2. ASSUME NEW k \in Queued(c)'
          PROVE  k + 1 \in Queued(c)
      BY <1>1, <1>2, <3>2 DEF Queued
    <3>3. QED
      BY <3>1, <3>2
  <2>3. Answers(c)' = Answers(c)
    BY <1>1, <1>3, <2>1 DEF Answers, At, Serving
  <2>4. QED
    BY <1>1, <1>6, <2>1, <2>2, <2>3, SameOutcome
<1>7. QED
  BY <1>5, <1>6

\* A step that drops a task: silence.
LEMMA DropsOutcome ==
    ASSUME PoolInv, PoolInv', NEW w \in Workers, DropsTask(w), Others(w),
           UNCHANGED submitted, NEW c \in Clients
    PROVE  Outcome(c)' = IF c = task[w].client THEN InSilence ELSE Outcome(c)
<1>1. /\ task[w] \in Task /\ task' = [task EXCEPT ![w] = NoTask] /\ task[w] # NoTask
      /\ queue' = queue /\ writes' = writes /\ pc'[w] # "send" /\ pc[w] = "poll"
      /\ task \in [Workers -> Task \cup {NoTask}] /\ Asked(c)' = Asked(c)
      /\ Queued(c)' = Queued(c)
  BY PoolTyped, NoTaskIsNone DEF DropsTask, Asked, Queued
<1>2. \A v \in Workers \ {w} : task'[v] = task[v] /\ pc'[v] = pc[v] /\ loc'[v] = loc[v]
  BY DEF Others
<1>3. CASE c = task[w].client
  <2>1. w \in Serving(c)
    BY <1>1, <1>3 DEF Serving
  <2>2. Serving(c) = {w} /\ writes[c] = <<>> /\ Queued(c) = {} /\ Asked(c)
    BY <2>1, InHand
  <2>3. Serving(c)' = {}
    BY <1>1, <1>2, <2>2 DEF Serving
  <2>4. Answers(c)' = {}
    BY <1>1, <2>2, <2>3 DEF Answers
  <2>5. QED
    BY <1>1, <1>3, <2>2, <2>3, <2>4, OutcomeIsNext
<1>4. CASE c # task[w].client
  <2>1. Serving(c)' = Serving(c) /\ w \notin Serving(c)
    BY <1>1, <1>2, <1>4 DEF Serving
  <2>2. Answers(c)' = Answers(c)
    BY <1>1, <1>2, <2>1 DEF Answers, At, Serving
  <2>3. QED
    BY <1>1, <1>4, <2>1, <2>2, SameOutcome
<1>5. QED
  BY <1>3, <1>4

\* A step that writes the answer that was ready.
LEMMA AnswersOutcome ==
    ASSUME PoolInv, PoolInv', NEW w \in Workers, AnswersTask(w), Others(w),
           UNCHANGED submitted, NEW c \in Clients
    PROVE  Outcome(c)' = Outcome(c)
<1>1. /\ task[w] \in Task /\ task' = [task EXCEPT ![w] = NoTask] /\ task[w] # NoTask
      /\ queue' = queue /\ pc'[w] # "send" /\ pc[w] = "send"
      /\ writes' = [writes EXCEPT ![task[w].client] = Append(@, loc[w].reply)]
      /\ writes \in [Clients -> Seq(Response)]
      /\ task \in [Workers -> Task \cup {NoTask}] /\ Asked(c)' = Asked(c)
      /\ Queued(c)' = Queued(c)
  BY PoolTyped, NoTaskIsNone DEF AnswersTask, Asked, Queued
<1>2. \A v \in Workers \ {w} : task'[v] = task[v] /\ pc'[v] = pc[v] /\ loc'[v] = loc[v]
  BY DEF Others
<1>3. CASE c = task[w].client
  <2>1. w \in Serving(c)
    BY <1>1, <1>3 DEF Serving
  <2>2. /\ Serving(c) = {w} /\ writes[c] = <<>>
        /\ Outcome(c) = loc[w].reply
    BY <1>1, <2>1, InHand
  <2>3. Serving(c)' = {}
    BY <1>1, <1>2, <2>2 DEF Serving
  <2>4. writes'[c] = <<loc[w].reply>>
    BY <1>1, <1>3, <2>2
  <2>5. Answers(c)' = {loc[w].reply}
    BY <2>3, <2>4 DEF Answers
  <2>6. QED
    BY <2>2, <2>5, OutcomeIsNext
<1>4. CASE c # task[w].client
  <2>1. Serving(c)' = Serving(c) /\ w \notin Serving(c)
    BY <1>1, <1>2, <1>4 DEF Serving
  <2>2. writes'[c] = writes[c]
    BY <1>1, <1>4
  <2>3. Answers(c)' = Answers(c)
    BY <1>2, <2>1, <2>2 DEF Answers, At, Serving
  <2>4. QED
    BY <1>1, <2>1, <2>3, SameOutcome
<1>5. QED
  BY <1>3, <1>4

-----------------------------------------------------------------------------
(* What a step of a thread finds.                                           *)

\* Where a thread is and has, after a step, in the words of the state before it.
Finds(w) ==
    /\ SinceFits(pc'[w], task'[w], loc'[w], since[task'[w].client])
    /\ pc'[w] = "selectFrom" =>
         loc'[w].user \in DOMAIN users /\ loc'[w].peer \in DOMAIN users

\* The stages that SinceFits says nothing of.
LEMMA QuietFits ==
    ASSUME NEW t, NEW l, NEW m,
           NEW stage \in Stages \ {"clock", "save", "addUser", "heartbit", "poll",
                                   "selectFrom"}
    PROVE  SinceFits(stage, t, l, m)
  BY DEF SinceFits

\* A thread in a stage with a task, and what it knows.
LEMMA AtStage ==
    ASSUME ServiceInv, NEW w \in Workers, pc[w] \notin Waiting
    PROVE  /\ task[w] \in Task /\ task[w] # NoTask /\ task[w].client \in Clients
           /\ Then(since[task[w].client])
           /\ TaskFits(pc[w], task[w]) /\ LocalsFit(pc[w], task[w], loc[w])
           /\ SinceFits(pc[w], task[w], loc[w], since[task[w].client])
           /\ pc \in [Workers -> Stages] /\ loc \in [Workers -> Locals]
           /\ task \in [Workers -> Task \cup {NoTask}]
           /\ now \in Nat /\ StorageTypeOK
<1>1. WorkerInv /\ StorageTypeOK
  BY PoolTyped DEF ServiceInv
<1>2. TaskFits(pc[w], task[w]) /\ LocalsFit(pc[w], task[w], loc[w])
  BY <1>1 DEF WorkerInv, ThreadOK
<1>3. task[w] \in Task /\ task[w] # NoTask
  BY <1>2, NoTaskIsNone DEF TaskFits
<1>4. task[w].client \in Clients
  BY <1>3 DEF Task
<1>5. /\ pc \in [Workers -> Stages] /\ loc \in [Workers -> Locals]
      /\ task \in [Workers -> Task \cup {NoTask}] /\ now \in Nat
  BY <1>1, StorageAssumption DEF WorkerInv, WorkerTypeOK
<1>6. QED
  BY <1>1, <1>2, <1>3, <1>4, <1>5 DEF ServiceInv, SinceInv, Put

\* An answer, or a step to a stage that SinceFits says nothing of.
LEMMA QuietFinds ==
    ASSUME NEW w, pc'[w] \in Stages \ {"clock", "save", "addUser", "heartbit", "poll",
                                       "selectFrom"}
    PROVE  Finds(w)
  BY QuietFits DEF Finds

\* A stage that is entered with locals l.
LEMMA MoveFinds ==
    ASSUME ServiceInv, NEW w \in Workers, pc[w] \notin Waiting,
           NEW stage \in Stages, NEW l \in Locals, Goto(w, stage),
           loc' = [loc EXCEPT ![w] = l],
           SinceFits(stage, task[w], l, since[task[w].client]),
           stage = "selectFrom" => l.user \in DOMAIN users /\ l.peer \in DOMAIN users
    PROVE  Finds(w)
<1>1. pc'[w] = stage /\ loc'[w] = l /\ task'[w] = task[w]
  BY AtStage DEF Goto
<1>2. QED
  BY <1>1 DEF Finds

\* An answer is a step to "send".
LEMMA AnswerFinds ==
    ASSUME ServiceInv, NEW w \in Workers, pc[w] \notin Waiting, NEW reply,
           Answer(w, reply)
    PROVE  Finds(w)
<1>1. pc'[w] = "send"
  BY AtStage DEF Answer, Goto
<1>2. QED
  BY <1>1, QuietFinds DEF Stages

\* The stages of the waiting thread.
LEMMA NextFinds ==
    ASSUME NEW w \in Workers, WorkerTypeOK, NextIteration(w)
    PROVE  Finds(w)
<1>1. pc'[w] = "check"
  BY DEF NextIteration, WorkerTypeOK
<1>2. QED
  BY <1>1, QuietFinds DEF Stages

\* A thread that has no task finds nothing.
LEMMA GetTaskFinds ==
    ASSUME ServiceInv, NEW w \in Workers, checkStop(w) \/ getTask(w)
    PROVE  Finds(w)
<1>1. pc \in [Workers -> Stages]
  BY PoolTyped DEF ServiceInv, WorkerTypeOK
<1>2. pc'[w] \in {"done", "getTask", "check", "createUser", "byName", "auth"}
  BY <1>1 DEF checkStop, getTask, Goto, FirstStage
<1>3. QED
  BY <1>2, QuietFinds DEF Stages

\* The author: nothing that depends on the moment yet.
LEMMA AuthFinds ==
    ASSUME ServiceInv, NEW w \in Workers, lookup_check_pass(w)
    PROVE  Finds(w)
<1>1. At(w, "auth") /\ pc[w] \notin Waiting
  BY DEF lookup_check_pass, At, Waiting
<1>2. CASE \E status : Refuse(w, status)
  BY <1>1, <1>2, AnswerFinds DEF Refuse
<1>3. ASSUME NEW i \in lookupUserById(task[w].request.uid),
             Goto(w, AfterAuth(task[w].cmd)), loc' = [loc EXCEPT ![w].user = i]
      PROVE  Finds(w)
  <2>1. /\ pc'[w] = AfterAuth(task[w].cmd) /\ task'[w] = task[w]
        /\ task[w].cmd \in ByUid
    BY <1>1, <1>3, AtStage DEF Goto, TaskFits, At
  <2>2. pc'[w] \in {"clock", "createChat", "byChat", "byName"}
    BY <2>1 DEF AfterAuth
  <2>3. pc'[w] = "clock" => task'[w].cmd = "IDLE"
    BY <2>1 DEF AfterAuth
  <2>4. QED
    BY <2>2, <2>3 DEF Finds, SinceFits
<1>4. QED
  BY <1>2, <1>3 DEF lookup_check_pass

\* The user named: nothing that depends on the moment either.
LEMMA ByNameFinds ==
    ASSUME ServiceInv, NEW w \in Workers, lookup_check_pass_by_name(w)
    PROVE  Finds(w)
<1>1. At(w, "byName") /\ pc[w] \notin Waiting
  BY DEF lookup_check_pass_by_name, At, Waiting
<1>2. CASE \E reply : Answer(w, reply)
  BY <1>1, <1>2, AnswerFinds
<1>3. CASE \/ task[w].cmd = "MESSAGE_SEND" /\ Goto(w, "clock")
           \/ Goto(w, "selectTo") \/ Goto(w, "byChat")
  <2>1. /\ pc'[w] \in {"clock", "selectTo", "byChat"} /\ task'[w] = task[w]
        /\ pc'[w] = "clock" => task[w].cmd = "MESSAGE_SEND"
    BY <1>1, <1>3, AtStage DEF Goto
  <2>2. QED
    BY <2>1 DEF Finds, SinceFits
<1>4. QED
  BY <1>2, <1>3 DEF lookup_check_pass_by_name, UseUser, Refuse

\* The one chat of the name was the only one since.
LEMMA LookupChatFinds ==
    ASSUME ServiceInv, NEW w \in Workers, lookupChat(w)
    PROVE  Finds(w)
<1> DEFINE t == task[w]
           m == since[t.client]
           found == lookupChatByName(t.request.chatname)
<1>1. At(w, "byChat") /\ pc[w] \notin Waiting
  BY DEF lookupChat, At, Waiting
<1>2. CASE \E status : Refuse(w, status)
  BY <1>1, <1>2, AnswerFinds DEF Refuse
<1>3. ASSUME NEW i \in found, found = {i},
             Goto(w, IF t.cmd = "CHAT_ADDUSER" THEN "addUser" ELSE "clock"),
             loc' = [loc EXCEPT ![w].chat = chats[i].id]
      PROVE  Finds(w)
  <2>1. /\ pc'[w] = IF t.cmd = "CHAT_ADDUSER" THEN "addUser" ELSE "clock"
        /\ task'[w] = t /\ loc'[w].chat = chats[i].id
    BY <1>1, <1>3, AtStage DEF Goto, Locals
  <2>2. PICK chat : chat = chats[i].id
    OBVIOUS
  <2>3. IsOnly(t, m, chat)
    BY <1>3, <2>2 DEF IsOnly
  <2>4. IsOnly(t, m, loc'[w].chat)
    BY <2>1, <2>2, <2>3
  <2>5. pc'[w] \in {"addUser", "clock"}
    BY <2>1
  <2>6. QED
    BY <2>1, <2>4, <2>5 DEF Finds, SinceFits
<1>4. QED
  BY <1>2, <1>3 DEF lookupChat

\* The time is one since the task was put.
LEMMA ReadClockFinds ==
    ASSUME ServiceInv, NEW w \in Workers, readClock(w)
    PROVE  Finds(w)
<1> DEFINE t == task[w]
           m == since[t.client]
<1>1. At(w, "clock") /\ pc[w] \notin Waiting
  BY DEF readClock, At, Waiting
<1>2. /\ pc'[w] = IF t.cmd = "IDLE" THEN "heartbit" ELSE "save"
      /\ task'[w] = t /\ loc'[w] = [loc[w] EXCEPT !.ts = now]
  BY <1>1, AtStage DEF readClock, Goto
<1>3. loc'[w].ts = now /\ loc'[w].chat = loc[w].chat
  BY <1>1, <1>2, AtStage DEF Locals
<1>4. loc'[w].ts \in m.now .. now
  BY <1>1, <1>3, AtStage DEF Then
<1>5. t.cmd \in {"CHAT_ADDUSER", "MESSAGE_SEND_CHAT"} => IsOnly(t, m, loc[w].chat)
  BY <1>1, AtStage DEF SinceFits, At
<1>6. t.cmd \in {"CHAT_ADDUSER", "MESSAGE_SEND_CHAT"} => IsOnly(t, m, loc'[w].chat)
  BY <1>3, <1>5
<1>7. pc'[w] \in {"heartbit", "save"}
  BY <1>2
<1>8. QED
  BY <1>2, <1>4, <1>6, <1>7 DEF Finds, SinceFits

\* After the heartbit the chats are listed.
LEMMA HeartBitFinds ==
    ASSUME ServiceInv, NEW w \in Workers, doUpdateHeartBit(w)
    PROVE  Finds(w)
<1>1. pc'[w] = "listChats"
  BY AtStage DEF doUpdateHeartBit, Goto, At, Waiting
<1>2. QED
  BY <1>1, QuietFinds DEF Stages

\* At first all the chats that there are now are to be read.
LEMMA ListChatsFinds ==
    ASSUME ServiceInv, NEW w \in Workers, listChats(w)
    PROVE  Finds(w)
<1> DEFINE t == task[w]
           m == since[t.client]
<1>1. At(w, "listChats") /\ pc[w] \notin Waiting
  BY DEF listChats, At, Waiting
<1>2. loc[w] \in Locals /\ StorageTypeOK /\ Then(m)
  BY <1>1, AtStage
<1>3. PICK l : l = [loc[w] EXCEPT !.todo = lookupChatsForUserId(users[loc[w].user].id)]
  OBVIOUS
<1>4. pc'[w] = "poll" /\ task'[w] = t /\ loc'[w] = l
  BY <1>1, <1>3, AtStage DEF listChats, Goto
<1>5. users[loc[w].user].id = t.request.uid /\ loc[w].batch = {}
  BY <1>1, AtStage DEF TaskFits, LocalsFit, Authenticated, IsAuthor, At
<1>6. l.todo = lookupChatsForUserId(t.request.uid) /\ l.batch = {}
  BY <1>2, <1>3, <1>5 DEF Locals
<1>7. DOMAIN chatuser = 1 .. Len(chatuser) /\ Len(chatuser) \in Nat
  BY <1>2 DEF StorageTypeOK
<1>8. Len(chatuser) \in m.rows .. Len(chatuser)
  BY <1>2, <1>7 DEF Then
<1>9. MineAt(t, Len(chatuser)) = l.todo
  BY <1>6, <1>7 DEF MineAt, lookupChatsForUserId
<1>10. IsPolled(t, m, l)
  BY <1>6, <1>8, <1>9 DEF IsPolled
<1>11. QED
  BY <1>4, <1>10 DEF Finds, SinceFits

\* One chat more is read, as of now.
LEMMA PollChatFinds ==
    ASSUME ServiceInv, NEW w \in Workers, pollChat(w)
    PROVE  Finds(w)
<1> DEFINE t == task[w]
           m == since[t.client]
<1>1. At(w, "poll") /\ pc[w] \notin Waiting
  BY DEF pollChat, At, Waiting
<1>2. PICK row \in loc[w].todo :
         /\ loc' = [loc EXCEPT ![w].todo = @ \ {row},
                      ![w].batch = @ \cup ({row} \X Newer(chatuser[row].chatid,
                                                          t.request.ts, MessageLimit))]
         /\ pc' = pc /\ task' = task
  BY DEF pollChat
<1>3. loc[w] \in Locals /\ StorageTypeOK /\ Then(m) /\ loc \in [Workers -> Locals]
  BY <1>1, AtStage
<1>4. PICK news : news = Newer(chatuser[row].chatid, t.request.ts, MessageLimit)
  OBVIOUS
<1>5. PICK old, l : /\ old = loc[w]
                    /\ l = [old EXCEPT !.todo = @ \ {row},
                                       !.batch = @ \cup ({row} \X news)]
  OBVIOUS
<1>6. pc'[w] = "poll" /\ task'[w] = t /\ loc'[w] = l
  BY <1>1, <1>2, <1>3, <1>4, <1>5 DEF At
<1>7. l.todo = old.todo \ {row} /\ l.batch = old.batch \cup ({row} \X news)
  BY <1>3, <1>5 DEF Locals
<1>8. IsPolled(t, m, old)
  BY <1>1, <1>5, AtStage DEF SinceFits, At
<1>9. PICK k \in m.rows .. Len(chatuser) :
         /\ old.todo \subseteq MineAt(t, k)
         /\ \A b \in old.batch : b[1] \in MineAt(t, k) \ old.todo
         /\ \A r \in MineAt(t, k) \ old.todo :
               \E n \in m.log .. Len(messages) :
                  OfRow(old.batch, r) = {r} \X NewsAt(t, r, n)
  BY <1>8 DEF IsPolled
<1>10. row \in MineAt(t, k) /\ row \in old.todo
  BY <1>2, <1>5, <1>9
<1>11. /\ DOMAIN messages = 1 .. Len(messages) /\ Len(messages) \in Nat
       /\ Len(messages) \in m.log .. Len(messages)
  BY <1>3 DEF StorageTypeOK, Then
<1>12. NewsAt(t, row, Len(messages)) = news
  BY <1>4, <1>11 DEF NewsAt, Newer
<1>13. ASSUME NEW b \in l.batch
       PROVE  b[1] \in MineAt(t, k) \ l.todo
  BY <1>7, <1>9, <1>10
<1>14. ASSUME NEW r \in MineAt(t, k) \ l.todo
       PROVE  \E n \in m.log .. Len(messages) :
                 OfRow(l.batch, r) = {r} \X NewsAt(t, r, n)
  <2>1. CASE r = row
    <3>1. OfRow(old.batch, row) = {}
      BY <1>9, <1>10 DEF OfRow
    <3>2. OfRow(l.batch, row) = {row} \X news
      BY <1>7, <3>1 DEF OfRow
    <3>3. QED
      BY <1>11, <1>12, <2>1, <3>2
  <2>2. CASE r # row
    <3>1. r \in MineAt(t, k) \ old.todo
      BY <1>7, <2>2
    <3>2. OfRow(l.batch, r) = OfRow(old.batch, r)
      BY <1>7, <2>2 DEF OfRow
    <3>3. QED
      BY <1>9, <3>1, <3>2
  <2>3. QED
    BY <2>1, <2>2
<1>15. l.todo \subseteq MineAt(t, k)
  BY <1>7, <1>9
<1>16. IsPolled(t, m, l)
  BY <1>13, <1>14, <1>15 DEF IsPolled
<1>17. QED
  BY <1>6, <1>16 DEF Finds, SinceFits

\* A poll ends in an answer, or in nothing.
LEMMA EndPollFinds ==
    ASSUME ServiceInv, NEW w \in Workers, endPoll(w)
    PROVE  Finds(w)
<1>1. pc[w] \notin Waiting /\ WorkerTypeOK
  BY PoolTyped DEF endPoll, At, Waiting, ServiceInv
<1>2. QED
  BY <1>1, AnswerFinds, NextFinds DEF endPoll

\* The messages to the peer, as of now.
LEMMA SelectToFinds ==
    ASSUME ServiceInv, NEW w \in Workers, selectTo(w)
    PROVE  Finds(w)
<1> DEFINE t == task[w]
           m == since[t.client]
<1>1. At(w, "selectTo") /\ pc[w] \notin Waiting
  BY DEF selectTo, At, Waiting
<1>2. loc[w] \in Locals /\ StorageTypeOK /\ Then(m) /\ loc \in [Workers -> Locals]
  BY <1>1, AtStage
<1>3. PICK old, l : /\ old = loc[w]
                    /\ l = [old EXCEPT !.batch =
                              {1} \X selectMessages(users[old.user].id,
                                                    users[old.peer].self_chat_id,
                                                    HistoryLimit(w))]
  OBVIOUS
<1>4. pc'[w] = "selectFrom" /\ task'[w] = t /\ loc'[w] = l
  BY <1>1, <1>2, <1>3, AtStage DEF selectTo, Goto
<1>5. /\ l.user = old.user /\ l.peer = old.peer
      /\ l.batch = {1} \X selectMessages(users[l.user].id, users[l.peer].self_chat_id,
                                         HistoryLimit(w))
  BY <1>2, <1>3 DEF Locals
<1>6. /\ DOMAIN messages = 1 .. Len(messages) /\ Len(messages) \in Nat
      /\ Len(messages) \in m.log .. Len(messages)
  BY <1>2 DEF StorageTypeOK, Then
<1>7. selectMessages(users[l.user].id, users[l.peer].self_chat_id, HistoryLimit(w))
        = SentAt(t, users[l.user].id, users[l.peer].self_chat_id, Len(messages))
  BY <1>6 DEF selectMessages, SentAt, HistoryLimit
<1>8. IsSent(t, m, l)
  BY <1>5, <1>6, <1>7 DEF IsSent
<1>9. l.user \in DOMAIN users /\ l.peer \in DOMAIN users
  BY <1>1, <1>3, <1>5, AtStage
     DEF TaskFits, LocalsFit, Authenticated, IsAuthor, IsPeer, At
<1>10. QED
  BY <1>4, <1>8, <1>9 DEF Finds, SinceFits

\* Every step of a thread.
LEMMA StepFinds ==
    ASSUME ServiceInv, NEW w \in Workers, processQueue(w)
    PROVE  Finds(w)
<1>1. WorkerTypeOK
  BY PoolTyped DEF ServiceInv
<1>2. CASE doSaveMessage(w) \/ doCreateUser(w) \/ doCreateChat(w) \/ doAddUserToChat(w)
           \/ selectFrom(w)
  <2>1. (\E reply : Answer(w, reply)) /\ pc[w] \notin Waiting
    BY <1>2 DEF doSaveMessage, doCreateUser, doCreateChat, doAddUserToChat, selectFrom,
                Refuse, At, Waiting
  <2>2. QED
    BY <2>1, AnswerFinds
<1>3. CASE respond(w)
  BY <1>1, <1>3, NextFinds DEF respond
<1>4. QED
  BY <1>2, <1>3, GetTaskFinds, AuthFinds, ByNameFinds, LookupChatFinds, ReadClockFinds,
     HeartBitFinds, ListChatsFinds, PollChatFinds, EndPollFinds, SelectToFinds
     DEF processQueue

-----------------------------------------------------------------------------
(* The invariant is kept.                                                   *)

\* What a thread that does nothing has found stays so.
LEMMA OtherStays ==
    ASSUME ServiceInv, StorageTypeOK', RowsKept, now' \in Nat, now <= now',
           NEW w \in Workers, pc[w] \notin Waiting,
           pc'[w] = pc[w], task'[w] = task[w], loc'[w] = loc[w],
           since'[task[w].client] = since[task[w].client]
    PROVE  SinceFits(pc[w], task[w], loc[w], Put(w))'
<1>1. PICK stage, t, l, m :
         /\ stage = pc[w] /\ t = task[w] /\ l = loc[w] /\ m = since[t.client]
  OBVIOUS
<1>2. /\ Then(m) /\ SinceFits(stage, t, l, m) /\ StorageTypeOK /\ now \in Nat
      /\ TaskFits(stage, t) /\ LocalsFit(stage, t, l)
  BY <1>1, AtStage
<1>3. stage = "selectFrom" => l.user \in DOMAIN users /\ l.peer \in DOMAIN users
  BY <1>2 DEF TaskFits, LocalsFit, Authenticated, IsAuthor, IsPeer
<1>4. SinceFits(stage, t, l, m)'
  BY <1>2, <1>3, SinceKept
<1>5. stage = pc'[w] /\ t = task'[w] /\ l = loc'[w] /\ m = since'[task'[w].client]
  BY <1>1
<1>6. QED
  BY <1>4, <1>5 DEF Put

\* A step of a thread, for itself and for the other threads.
LEMMA WorkKeepsSince ==
    ASSUME ServiceInv, PoolInv', RowsKept, NEW w \in Workers, processQueue(w),
           UNCHANGED callerVars
    PROVE  SinceInv'
<1>1. StorageTypeOK /\ StorageTypeOK' /\ WorkerTypeOK /\ WorkerTypeOK' /\ WorkerInv
  BY PoolTyped DEF ServiceInv, PoolInv, WorkerInv, StorageInv
<1>2. now' = now /\ now \in Nat
  <2>1. now' = now
    BY DEF processQueue, checkStop, getTask, lookup_check_pass,
       lookup_check_pass_by_name, UseUser, lookupChat, readClock, doSaveMessage,
       doCreateUser, doCreateChat, doAddUserToChat, doUpdateHeartBit, listChats,
       pollChat, endPoll, selectTo, selectFrom, respond, Goto, Answer, Refuse
  <2>2. QED
    BY <1>1, <2>1, StorageAssumption DEF WorkerTypeOK
<1>3. since' = since
  BY DEF callerVars
<1>4. ASSUME NEW c \in Clients
      PROVE  Then(since[c])'
  <2>1. PICK m : m = since[c]
    OBVIOUS
  <2>2. Then(m)
    BY <2>1 DEF ServiceInv, SinceInv
  <2>3. Then(m)'
    BY <1>1, <1>2, <2>2, ThenKept
  <2>4. QED
    BY <1>3, <2>1, <2>3 DEF Then
<1>5. ASSUME NEW v \in Workers, pc'[v] \notin Waiting
      PROVE  SinceFits(pc[v], task[v], loc[v], Put(v))'
  <2>1. CASE v # w
    <3>1. pc'[v] = pc[v] /\ task'[v] = task[v] /\ loc'[v] = loc[v]
      BY <1>1, <2>1, WorkerStepFits DEF StepFits, Others
    <3>2. QED
      BY <1>1, <1>2, <1>3, <1>5, <3>1, OtherStays
  <2>2. CASE v = w
    <3>1. PICK stage, t, l, m :
             stage = pc'[w] /\ t = task'[w] /\ l = loc'[w] /\ m = since[t.client]
      OBVIOUS
    <3>2. /\ SinceFits(stage, t, l, m)
          /\ stage = "selectFrom" => l.user \in DOMAIN users /\ l.peer \in DOMAIN users
      BY <3>1, StepFinds DEF Finds
    <3>3. t \in Task
      BY <1>5, <2>2, <3>1 DEF PoolInv, WorkerInv, ThreadOK, TaskFits
    <3>4. Then(m)
      BY <3>1, <3>3 DEF ServiceInv, SinceInv, Task
    <3>5. SinceFits(stage, t, l, m)'
      BY <1>1, <1>2, <3>2, <3>4, SinceKept
    <3>6. m = since'[task'[w].client]
      BY <1>3, <3>1
    <3>7. QED
      BY <2>2, <3>1, <3>5, <3>6 DEF Put
  <2>3. QED
    BY <2>1, <2>2
<1>6. since' = [c \in Clients |-> since'[c]]
  BY <1>3 DEF ServiceInv, SinceInv
<1>7. QED
  BY <1>4, <1>5, <1>6 DEF SinceInv

\* A client that asks: the moment is now.
LEMMA SubmitKeepsSince ==
    ASSUME ServiceInv, PoolInv', RowsKept, NEW c \in Clients, Submit(c)
    PROVE  SinceInv'
<1> DEFINE here == [users |-> Len(users), chats |-> Len(chats), rows |-> Len(chatuser),
                    log |-> Len(messages), now |-> now]
<1>1. /\ StorageTypeOK /\ now \in Nat
      /\ UNCHANGED <<storageVars, pc, task, loc, now>>
      /\ since' = [since EXCEPT ![c] = here] /\ since = [d \in Clients |-> since[d]]
      /\ submitted[c] = NoTask
  BY PoolTyped, StorageAssumption DEF Submit, ServiceInv, SinceInv, WorkerTypeOK
<1>2. StorageTypeOK'
  BY <1>1 DEF storageVars, StorageTypeOK
<1>3. \A m : Then(m) => Then(m)'
  BY <1>1 DEF storageVars, Then
<1>4. /\ since' = [d \in Clients |-> since'[d]]
      /\ \A d \in Clients : since'[d] = IF d = c THEN here ELSE since[d]
  BY <1>1
<1>5. Then(here)'
  <2>1. /\ Len(users) \in 0 .. Len(users) /\ Len(chats) \in 0 .. Len(chats)
        /\ Len(chatuser) \in 0 .. Len(chatuser) /\ Len(messages) \in 0 .. Len(messages)
        /\ now \in 0 .. now
    BY <1>1 DEF StorageTypeOK
  <2>2. QED
    BY <1>1, <2>1 DEF Then, storageVars
<1>6. ASSUME NEW d \in Clients
      PROVE  Then(since[d])'
  <2>1. PICK m : m = since'[d]
    OBVIOUS
  <2>2. Then(m)'
    BY <1>1, <1>3, <1>4, <1>5, <2>1 DEF SinceInv, ServiceInv, Then, storageVars
  <2>3. QED
    BY <2>1, <2>2 DEF Then
<1>7. ASSUME NEW w \in Workers, pc'[w] \notin Waiting
      PROVE  SinceFits(pc[w], task[w], loc[w], Put(w))'
  <2>1. pc'[w] = pc[w] /\ task'[w] = task[w] /\ loc'[w] = loc[w]
    BY <1>1
  <2>2. /\ task[w] # NoTask /\ task[w].client \in Clients
    BY <1>7, <2>1, AtStage
  <2>3. submitted[task[w].client] = task[w]
    BY <2>2, HasTask DEF ServiceInv
  <2>4. since'[task[w].client] = since[task[w].client]
    BY <1>1, <1>4, <2>2, <2>3
  <2>5. now' \in Nat /\ now <= now' /\ pc[w] \notin Waiting
    BY <1>1, <1>7, <2>1
  <2>6. QED
    BY <1>2, <2>1, <2>4, <2>5, OtherStays
<1>8. QED
  BY <1>4, <1>6, <1>7 DEF SinceInv

\* Time goes on, and the threads do nothing.
LEMMA WaitKeepsSince ==
    ASSUME ServiceInv, StorageTypeOK', RowsKept, now' \in Nat, now <= now',
           UNCHANGED <<pc, task, loc, since>>
    PROVE  SinceInv'
<1>1. StorageTypeOK /\ now \in Nat
  BY PoolTyped, StorageAssumption DEF ServiceInv, WorkerTypeOK
<1>2. ASSUME NEW c \in Clients
      PROVE  Then(since[c])'
  <2>1. PICK m : m = since[c]
    OBVIOUS
  <2>2. Then(m)
    BY <2>1 DEF ServiceInv, SinceInv
  <2>3. Then(m)'
    BY <1>1, <2>2, ThenKept
  <2>4. QED
    BY <2>1, <2>3 DEF Then
<1>3. ASSUME NEW w \in Workers, pc'[w] \notin Waiting
      PROVE  SinceFits(pc[w], task[w], loc[w], Put(w))'
  BY <1>3, OtherStays
<1>4. since' = [c \in Clients |-> since'[c]]
  BY DEF ServiceInv, SinceInv
<1>5. QED
  BY <1>2, <1>3, <1>4 DEF SinceInv

\* A second later everything found is as it was.
LEMMA TickKeepsSince ==
    ASSUME ServiceInv, PoolInv', RowsKept, Tick, UNCHANGED callerVars
    PROVE  SinceInv'
<1>1. /\ StorageTypeOK' /\ now \in Nat /\ now' = now + 1
      /\ pc' = pc /\ task' = task /\ loc' = loc /\ since' = since
  BY PoolTyped, StorageAssumption
     DEF Tick, ServiceInv, WorkerTypeOK, callerVars, PoolInv, WorkerInv, StorageInv
<1>2. now' \in Nat /\ now <= now'
  BY <1>1
<1>3. QED
  BY <1>1, <1>2, WaitKeepsSince

\* Every step of the pool.
LEMMA StepKeepsService ==
    ASSUME ServiceInv, PoolNext
    PROVE  ServiceInv' /\ RowsKept
<1>1. PoolInv' /\ RowsKept
  BY PoolStepKeepsInv DEF ServiceInv
<1>2. SinceInv'
  BY <1>1, WorkKeepsSince, SubmitKeepsSince, TickKeepsSince DEF PoolNext
<1>3. QED
  BY <1>1, <1>2 DEF ServiceInv

\* A stutter.
LEMMA QuietKeepsService ==
    ASSUME ServiceInv, UNCHANGED poolVars
    PROVE  ServiceInv'
<1>1. PoolInv'
  BY PoolStepKeepsInv DEF ServiceInv
<1>2. StorageTypeOK /\ StorageTypeOK' /\ now \in Nat
  BY <1>1, PoolTyped, StorageAssumption
     DEF ServiceInv, PoolInv, WorkerInv, StorageInv, WorkerTypeOK
<1>3. UNCHANGED storageVars /\ UNCHANGED <<pc, task, loc, now, since>>
  BY DEF poolVars, workerVars, callerVars
<1>4. RowsKept
  BY <1>2, <1>3, NoCallKeepsRows
<1>5. now' \in Nat /\ now <= now'
  BY <1>2, <1>3
<1>6. SinceInv'
  BY <1>2, <1>3, <1>4, <1>5, WaitKeepsSince
<1>7. QED
  BY <1>1, <1>6 DEF ServiceInv

\* The first state: no thread has a task, and every moment is now.
LEMMA InitFitsService ==
    ASSUME StorageInv, PoolInit
    PROVE  ServiceInv
<1> DEFINE here == [users |-> Len(users), chats |-> Len(chats), rows |-> Len(chatuser),
                    log |-> Len(messages), now |-> now]
<1>1. PoolInv
  BY PoolInitFits
<1>2. StorageTypeOK /\ now = 1 /\ since = [c \in Clients |-> here]
  BY DEF StorageInv, PoolInit, WorkerInit
<1>3. since = [c \in Clients |-> since[c]] /\ \A c \in Clients : since[c] = here
  BY <1>2
<1>4. Then(here)
  BY <1>2 DEF Then, StorageTypeOK
<1>5. \A w \in Workers : pc[w] \in Waiting
  BY DEF PoolInit, WorkerInit, Waiting
<1>6. QED
  BY <1>1, <1>3, <1>4, <1>5 DEF ServiceInv, SinceInv

\* What a thread has found, while it works through the lock regions of processQueue,
\* refers to a moment since its task was put: the inductive invariant.
THEOREM ServiceInvariant == RunningSpec => []ServiceInv
<1>1. ServiceInv /\ [PoolNext]_poolVars => ServiceInv'
  BY StepKeepsService, QuietKeepsService
<1>2. QED
  BY <1>1, InitFitsService, PTL DEF RunningSpec

-----------------------------------------------------------------------------
(* The service looks things up as the threads do.                           *)

\* Its cardinality is the one of the threads.
LEMMA ServiceCounts ==
    ASSUME NEW S
    PROVE  Service!Cardinality(S) = Cardinality(S)
  BY DEF Service!Cardinality, Cardinality

\* Its lookups are the ones of the storage.
LEMMA ServiceLooksUp ==
    /\ \A id : Service!lookupUserById(id) = lookupUserById(id)
    /\ \A name : Service!lookupUserByName(name) = lookupUserByName(name)
    /\ \A name : Service!lookupChatByName(name) = lookupChatByName(name)
    /\ \A uid : Service!lookupChatsForUserId(uid) = lookupChatsForUserId(uid)
    /\ \A S, max : Service!Latest(S, max) = Latest(S, max)
    /\ \A chatid, ts, max : Service!Newer(chatid, ts, max) = Newer(chatid, ts, max)
    /\ Service!MessageLimit = MessageLimit
  BY ServiceCounts
     DEF Service!lookupUserById, lookupUserById, Service!lookupUserByName,
         lookupUserByName, Service!lookupChatByName, lookupChatByName,
         Service!lookupChatsForUserId, lookupChatsForUserId, Service!Latest, Latest,
         Service!Newer, Newer, Service!MessageLimit, MessageLimit

\* What a thread works on is a request under way.
LEMMA AsksIs ==
    ASSUME ServiceInv, NEW w \in Workers, pc[w] \notin Waiting, pc[w] # "send"
    PROVE  LET c == task[w].client
           IN  /\ c \in Clients /\ submitted[c] = task[w]
               /\ Service!Req(c) = task[w].request
               /\ \A cmds : task[w].cmd \in cmds => Service!Asks(c, cmds)
<1>1. task[w] # NoTask
  BY AtStage
<1>2. /\ task[w].client \in Clients /\ w \in Serving(task[w].client)
      /\ submitted[task[w].client] = task[w]
  BY <1>1, HasTask DEF ServiceInv
<1>3. Outcome(task[w].client) = NoOutcome
  BY <1>2, InHand DEF ServiceInv
<1>4. QED
  BY <1>2, <1>3 DEF Service!Asks, Service!Req, Service!None, NoOutcome

\* The author of a request is the user that the service authorizes.
LEMMA AuthorIs ==
    ASSUME StorageInv, NEW c, NEW t, submitted[c] = t, NEW i, IsAuthor(t, i)
    PROVE  Service!Me(c) = {i} /\ Service!HasPassword(c, i) /\ Service!Authorized(c)
<1>1. i \in DOMAIN users /\ users[i].id = t.request.uid
  BY DEF IsAuthor
<1>2. i \in lookupUserById(t.request.uid)
  BY <1>1, ById
<1>3. \A j \in lookupUserById(t.request.uid) : j = i
  BY <1>1 DEF lookupUserById, StorageInv, KeysUnique
<1>4. Service!Me(c) = {i}
  BY <1>2, <1>3, ServiceLooksUp DEF Service!Me, Service!Req
<1>5. Service!HasPassword(c, i)
  BY DEF IsAuthor, Service!HasPassword, Service!Req
<1>6. QED
  BY <1>4, <1>5 DEF Service!Authorized

\* The user that the service finds by the name in a request.
LEMMA PeersAre ==
    ASSUME NEW c, NEW t, submitted[c] = t
    PROVE  Service!Peer(c) = lookupUserByName(PeerName(t))
<1>1. Service!PeerName(c) = PeerName(t)
  BY DEF Service!PeerName, PeerName, Service!Req
<1>2. QED
  BY <1>1, ServiceLooksUp DEF Service!Peer

\* The user that a thread has found by that name is the only one of the name.
LEMMA PeerIs ==
    ASSUME StorageInv, NEW c, NEW t, submitted[c] = t, NEW j, IsPeer(t, j)
    PROVE  Service!Peer(c) = {j}
<1>1. j \in lookupUserByName(PeerName(t))
  BY DEF IsPeer, lookupUserByName
<1>2. \A i \in lookupUserByName(PeerName(t)) : i = j
  BY DEF IsPeer, lookupUserByName, StorageInv, UniqueUserNames
<1>3. QED
  BY <1>1, <1>2, PeersAre

-----------------------------------------------------------------------------
(* Steps of the service.                                                    *)

ServiceStep == Service!Next \/ UNCHANGED Service!serviceVars

\* One by one the outcomes are the answers.
LEMMA OutcomesAre ==
    ASSUME \A c \in Clients : Outcome(c)' = Outcome(c)
    PROVE  [c \in Clients |-> Outcome(c)]' = [c \in Clients |-> Outcome(c)]
  OBVIOUS

\* Nothing of what the service has changes.
LEMMA Stutters ==
    ASSUME UNCHANGED <<storageVars, now, submitted, since>>,
           \A c \in Clients : Outcome(c)' = Outcome(c)
    PROVE  ServiceStep
<1>1. [c \in Clients |-> Outcome(c)]' = [c \in Clients |-> Outcome(c)]
  BY OutcomesAre
<1>2. UNCHANGED Service!storageVars
  BY DEF storageVars, Service!storageVars
<1>3. QED
  BY <1>1, <1>2 DEF ServiceStep, Service!serviceVars

\* A step of a thread from one stage to another that is not an answer.
LEMMA MoveStutters ==
    ASSUME ServiceInv, ServiceInv', NEW w \in Workers, processQueue(w),
           UNCHANGED callerVars, KeepsTask(w), pc'[w] # "send",
           UNCHANGED <<storageVars, now>>
    PROVE  ServiceStep
<1>1. Others(w) /\ submitted' = submitted /\ since' = since
  BY WorkerStepFits DEF StepFits, ServiceInv, PoolInv, callerVars
<1>2. \A c \in Clients : Outcome(c)' = Outcome(c)
  BY <1>1, KeepsOutcome DEF ServiceInv
<1>3. QED
  BY <1>1, <1>2, Stutters

\* The answer of a thread is the reply of the service.
LEMMA ReplyIs ==
    ASSUME ServiceInv, ServiceInv', NEW w \in Workers, processQueue(w),
           UNCHANGED callerVars, pc[w] \notin Waiting, pc[w] # "send",
           NEW reply, Answer(w, reply)
    PROVE  Service!Reply(task[w].client, reply)
<1>1. Others(w) /\ submitted' = submitted /\ since' = since
  BY WorkerStepFits DEF StepFits, ServiceInv, PoolInv, callerVars
<1>2. KeepsTask(w) /\ now' = now /\ pc'[w] = "send" /\ loc'[w].reply = reply
  BY AtStage DEF Answer, Goto, KeepsTask, Locals
<1>3. task[w] # NoTask
  BY AtStage
<1>4. PICK c : c = task[w].client
  OBVIOUS
<1>5. c \in Clients /\ w \in Serving(c)
  BY <1>3, <1>4, HasTask DEF ServiceInv
<1>6. Outcome(c)' = reply
  BY <1>1, <1>2, <1>5, KeepsOutcome DEF ServiceInv
<1>7. ASSUME NEW d \in Clients, d # c
      PROVE  Outcome(d)' = Outcome(d)
  <2>1. w \notin Serving(d)
    BY <1>4, <1>7 DEF Serving
  <2>2. QED
    BY <1>1, <1>2, <2>1, KeepsOutcome DEF ServiceInv
<1>8. [d \in Clients |-> Outcome(d)]' =
        [[d \in Clients |-> Outcome(d)] EXCEPT ![c] = reply]
  BY <1>5, <1>6, <1>7
<1>9. QED
  BY <1>1, <1>2, <1>4, <1>8 DEF Service!Reply

\* The tables are left alone.
LEMMA TablesStay ==
    ASSUME UNCHANGED storageVars
    PROVE  UNCHANGED Service!storageVars
  BY DEF storageVars, Service!storageVars

\* A reply with a status.
LEMMA StatusIs ==
    ASSUME NEW s
    PROVE  Plain("cmd", s) = Service!Status(s)
  BY DEF Plain, Service!Status

\* Who is not authorized.
LEMMA AuthServes ==
    ASSUME ServiceInv, ServiceInv', NEW w \in Workers, lookup_check_pass(w),
           UNCHANGED callerVars
    PROVE  ServiceStep
<1> DEFINE t == task[w]
           c == t.client
<1>1. /\ pc[w] = "auth" /\ pc[w] \notin Waiting /\ pc[w] # "send" /\ processQueue(w)
      /\ UNCHANGED storageVars
  BY DEF lookup_check_pass, At, Waiting, processQueue
<1>2. /\ c \in Clients /\ submitted[c] = t /\ Service!Req(c) = t.request
      /\ \A cmds : t.cmd \in cmds => Service!Asks(c, cmds)
  BY <1>1, AsksIs
<1>3. Service!Me(c) = lookupUserById(t.request.uid)
  BY <1>2, ServiceLooksUp DEF Service!Me
<1>4. t.cmd \in Service!WithUid
  BY <1>1, AtStage DEF TaskFits, ByUid, Commands, Service!WithUid
<1>5. Service!Asks(c, Service!WithUid)
  BY <1>2, <1>4
<1>6. UNCHANGED Service!storageVars
  BY <1>1, TablesStay
<1>7. ASSUME lookupUserById(t.request.uid) = {}, Refuse(w, "user does not exist")
      PROVE  ServiceStep
  <2>1. Service!Reply(c, Service!Status("user does not exist"))
    BY <1>1, <1>7, ReplyIs, StatusIs DEF Refuse
  <2>2. Service!Before(Service!Me(c), since[c].users) = {}
    BY <1>3, <1>7 DEF Service!Before
  <2>3. Service!NotAuthorized(c)
    BY <1>5, <1>6, <2>1, <2>2 DEF Service!NotAuthorized
  <2>4. QED
    BY <1>2, <2>3 DEF ServiceStep, Service!Next, Service!Serve
<1>8. ASSUME NEW i \in lookupUserById(t.request.uid), ~PasswordMatches(w, i),
             Refuse(w, "wrong password")
      PROVE  ServiceStep
  <2>1. Service!Reply(c, Service!Status("wrong password"))
    BY <1>1, <1>8, ReplyIs, StatusIs DEF Refuse
  <2>2. i \in Service!Me(c) /\ ~Service!HasPassword(c, i)
    BY <1>2, <1>3, <1>8 DEF Service!HasPassword, PasswordMatches
  <2>3. Service!NotAuthorized(c)
    BY <1>5, <1>6, <2>1, <2>2 DEF Service!NotAuthorized
  <2>4. QED
    BY <1>2, <2>3 DEF ServiceStep, Service!Next, Service!Serve
<1>9. ASSUME Goto(w, AfterAuth(t.cmd))
      PROVE  ServiceStep
  <2>1. KeepsTask(w) /\ now' = now /\ pc'[w] = AfterAuth(t.cmd)
    BY <1>1, <1>9, AtStage DEF Goto, KeepsTask
  <2>2. pc'[w] # "send"
    BY <2>1 DEF AfterAuth
  <2>3. QED
    BY <1>1, <2>1, <2>2, MoveStutters
<1>10. QED
  BY <1>7, <1>8, <1>9 DEF lookup_check_pass

\* The user that is named is found, once, or not at all.
LEMMA ByNameServes ==
    ASSUME ServiceInv, ServiceInv', NEW w \in Workers, lookup_check_pass_by_name(w),
           UNCHANGED callerVars
    PROVE  ServiceStep
<1> DEFINE t == task[w]
           c == t.client
           found == lookupUserByName(PeerName(t))
<1>1. /\ pc[w] = "byName" /\ pc[w] \notin Waiting /\ pc[w] # "send" /\ processQueue(w)
      /\ UNCHANGED storageVars /\ StorageInv
  BY PoolTyped DEF lookup_check_pass_by_name, At, Waiting, processQueue, ServiceInv
<1>2. /\ c \in Clients /\ submitted[c] = t /\ Service!Req(c) = t.request
      /\ \A cmds : t.cmd \in cmds => Service!Asks(c, cmds)
  BY <1>1, AsksIs
<1>3. /\ t.cmd \in Service!NamesPeer
      /\ t.cmd # "USER_LOGIN" => IsAuthor(t, loc[w].user)
  BY <1>1, AtStage DEF TaskFits, LocalsFit, Authenticated, Service!NamesPeer
<1>4. t.cmd # "USER_LOGIN" => Service!Authorized(c)
  BY <1>1, <1>2, <1>3, AuthorIs
<1>5. Service!Peer(c) = found
  BY <1>2, PeersAre
<1>6. UNCHANGED Service!storageVars
  BY <1>1, TablesStay
<1>7. \A i, j \in found : i = j
  BY <1>1 DEF lookupUserByName, StorageInv, UniqueUserNames
<1>8. ASSUME Cardinality(found) # 1,
             Refuse(w, IF found = {} THEN "user does not exist"
                       ELSE "more than one user with that name")
      PROVE  ServiceStep
  <2>1. found = {}
    <3>1. SUFFICES ASSUME NEW i \in found PROVE FALSE
      OBVIOUS
    <3>2. found = {i}
      BY <1>7
    <3>3. QED
      BY <1>8, <3>2, FS_Singleton
  <2>2. Service!Reply(c, Service!Status("user does not exist"))
    BY <1>1, <1>8, <2>1, ReplyIs, StatusIs DEF Refuse
  <2>3. Service!Before(Service!Peer(c), since[c].users) = {}
    BY <1>5, <2>1 DEF Service!Before
  <2>4. submitted[c].cmd \in Service!WithUid => Service!Authorized(c)
    BY <1>2, <1>4 DEF Service!WithUid
  <2>5. Service!NoSuchUser(c)
    BY <1>2, <1>3, <1>6, <2>2, <2>3, <2>4 DEF Service!NoSuchUser
  <2>6. QED
    BY <1>2, <2>5 DEF ServiceStep, Service!Next, Service!Serve
<1>9. ASSUME NEW i \in found,
             \/ t.cmd = "USER_STATUS" /\ Answer(w, Profile(i))
             \/ /\ t.cmd = "USER_LOGIN"
                /\ IF PasswordMatches(w, i) THEN Answer(w, Profile(i))
                                            ELSE Refuse(w, "wrong password")
      PROVE  ServiceStep
  <2>1. Profile(i) = [Service!Status("ok") EXCEPT !.heartbit = users[i].heartbit]
    BY DEF Profile, Service!Status
  <2>2. PasswordMatches(w, i) <=> Service!HasPassword(c, i)
    BY <1>2 DEF Service!HasPassword, PasswordMatches
  <2>3. IF submitted[c].cmd = "USER_STATUS" \/ Service!HasPassword(c, i)
        THEN Service!Reply(c, [Service!Status("ok") EXCEPT
                                  !.heartbit = users[i].heartbit])
        ELSE Service!Reply(c, Service!Status("wrong password"))
    <3>1. \A reply : Answer(w, reply) => Service!Reply(c, reply)
      BY <1>1, ReplyIs
    <3>2. Refuse(w, "wrong password")
            => Service!Reply(c, Service!Status("wrong password"))
      BY <3>1, StatusIs DEF Refuse
    <3>3. QED
      BY <1>2, <1>9, <2>1, <2>2, <3>1, <3>2
  <2>4. /\ Service!Asks(c, {"USER_LOGIN", "USER_STATUS"})
        /\ submitted[c].cmd = "USER_STATUS" => Service!Authorized(c)
    BY <1>2, <1>4, <1>9
  <2>5. Service!Tell(c)
    BY <1>5, <1>6, <1>9, <2>3, <2>4 DEF Service!Tell
  <2>6. QED
    BY <1>2, <2>5 DEF ServiceStep, Service!Next, Service!Serve
<1>10. CASE Goto(w, "selectTo") \/ Goto(w, "clock") \/ Goto(w, "byChat")
  <2>1. KeepsTask(w) /\ now' = now /\ pc'[w] # "send"
    BY <1>1, <1>10, AtStage DEF Goto, KeepsTask
  <2>2. QED
    BY <1>1, <2>1, MoveStutters
<1>11. QED
  BY <1>8, <1>9, <1>10 DEF lookup_check_pass_by_name, UseUser

\* A chat of the name is found only if it is the one.
LEMMA LookupChatServes ==
    ASSUME ServiceInv, ServiceInv', NEW w \in Workers, lookupChat(w),
           UNCHANGED callerVars
    PROVE  ServiceStep
<1> DEFINE t == task[w]
           c == t.client
           found == lookupChatByName(t.request.chatname)
<1>1. /\ pc[w] = "byChat" /\ pc[w] \notin Waiting /\ pc[w] # "send" /\ processQueue(w)
      /\ UNCHANGED storageVars /\ StorageInv
  BY PoolTyped DEF lookupChat, At, Waiting, processQueue, ServiceInv
<1>2. /\ c \in Clients /\ submitted[c] = t /\ Service!Req(c) = t.request
      /\ \A cmds : t.cmd \in cmds => Service!Asks(c, cmds)
  BY <1>1, AsksIs
<1>3. /\ t.cmd \in {"CHAT_ADDUSER", "MESSAGE_SEND_CHAT"}
      /\ IsAuthor(t, loc[w].user)
      /\ t.cmd = "CHAT_ADDUSER" => IsPeer(t, loc[w].peer)
  BY <1>1, AtStage DEF TaskFits, LocalsFit, Authenticated
<1>4. /\ Service!Authorized(c)
      /\ submitted[c].cmd = "CHAT_ADDUSER" => Service!Peer(c) # {}
  BY <1>1, <1>2, <1>3, AuthorIs, PeerIs
<1>5. Service!lookupChatByName(Service!Req(c).chatname) = found
  BY <1>2, ServiceLooksUp
<1>6. UNCHANGED Service!storageVars
  BY <1>1, TablesStay
<1>7. ASSUME Cardinality(found) # 1, Refuse(w, "chat does not exist")
      PROVE  ServiceStep
  <2>1. Service!Reply(c, Service!Status("chat does not exist"))
    BY <1>1, <1>7, ReplyIs, StatusIs DEF Refuse
  <2>2. Service!Cardinality(found) # 1
    BY <1>7, ServiceCounts
  <2>3. Service!NoSuchChat(c)
    BY <1>2, <1>3, <1>4, <1>5, <1>6, <2>1, <2>2 DEF Service!NoSuchChat
  <2>4. QED
    BY <1>2, <2>3 DEF ServiceStep, Service!Next, Service!Serve
<1>8. CASE Goto(w, IF t.cmd = "CHAT_ADDUSER" THEN "addUser" ELSE "clock")
  <2>1. KeepsTask(w) /\ now' = now /\ pc'[w] # "send"
    BY <1>1, <1>8, AtStage DEF Goto, KeepsTask
  <2>2. QED
    BY <1>1, <2>1, MoveStutters
<1>9. QED
  BY <1>7, <1>8 DEF lookupChat

\* The chat a thread has found is still the only one that is old enough.
LEMMA OnlyIs ==
    ASSUME StorageTypeOK, NEW c, NEW t, submitted[c] = t, Then(since[c]),
           NEW chat, IsOnly(t, since[c], chat)
    PROVE  \E d \in DOMAIN chats : Service!OnlyChat(c, d) /\ chats[d].id = chat
<1> DEFINE named == lookupChatByName(t.request.chatname)
           old == {e \in named : e <= since[c].chats}
<1>1. PICK d \in named :
         /\ chats[d].id = chat
         /\ \A e \in named : e = d \/ (e > d /\ e > since[c].chats)
  BY DEF IsOnly
<1>2. /\ \A e \in named : e \in Nat
      /\ since[c].chats \in Nat /\ d \in DOMAIN chats
  BY DEF lookupChatByName, StorageTypeOK, Then
<1>3. \A e \in named : d <= e
  BY <1>1, <1>2
<1>4. old \subseteq {d}
  BY <1>1, <1>2
<1>5. Cardinality(old) <= 1
  <2>1. old = {} \/ old = {d}
    BY <1>4
  <2>2. Cardinality({}) = 0 /\ Cardinality({d}) = 1
    BY FS_EmptySet, FS_Singleton
  <2>3. QED
    BY <2>1, <2>2
<1>6. Service!lookupChatByName(Service!Req(c).chatname) = named
  BY ServiceLooksUp DEF Service!Req
<1>7. Service!Before(named, since[c].chats) = old
  BY DEF Service!Before
<1>8. Service!Cardinality(old) <= 1
  BY <1>5, ServiceCounts
<1>9. Service!OnlyChat(c, d)
  BY <1>3, <1>6, <1>7, <1>8 DEF Service!OnlyChat
<1>10. QED
  BY <1>1, <1>2, <1>9

\* The tables change as the service changes them.
LEMMA ServiceCalls ==
    ASSUME NEW x, NEW y, NEW ts, NEW text
    PROVE  /\ createUser(x, y) => Service!createUser(x, y)
           /\ createChat(x, y) => Service!createChat(x, y)
           /\ addUserToChat(x, y) => Service!addUserToChat(x, y)
           /\ saveMessage(x, y, ts, text) => Service!saveMessage(x, y, ts, text)
           /\ updateUserHeartBit(x, ts) => Service!updateUserHeartBit(x, ts)
           /\ getMessages(x, ts, y) => Service!getMessages(x, ts, y)
<1>1. createUser(x, y) => Service!createUser(x, y)
  BY ServiceLooksUp DEF createUser, Service!createUser
<1>2. createChat(x, y) => Service!createChat(x, y)
  BY ServiceLooksUp DEF createChat, Service!createChat
<1>3. addUserToChat(x, y) => Service!addUserToChat(x, y)
  BY DEF addUserToChat, Service!addUserToChat
<1>4. saveMessage(x, y, ts, text) => Service!saveMessage(x, y, ts, text)
  BY DEF saveMessage, Service!saveMessage
<1>5. updateUserHeartBit(x, ts) => Service!updateUserHeartBit(x, ts)
  BY ServiceLooksUp DEF updateUserHeartBit, Service!updateUserHeartBit
<1>6. getMessages(x, ts, y) => Service!getMessages(x, ts, y)
  BY ServiceLooksUp DEF getMessages, Service!getMessages
<1>7. QED
  BY <1>1, <1>2, <1>3, <1>4, <1>5, <1>6

\* A message to a user or to a group.
LEMMA SaveServes ==
    ASSUME ServiceInv, ServiceInv', NEW w \in Workers, doSaveMessage(w),
           UNCHANGED callerVars
    PROVE  ServiceStep
<1> DEFINE t == task[w]
           c == t.client
           l == loc[w]
<1>1. /\ pc[w] = "save" /\ pc[w] \notin Waiting /\ pc[w] # "send" /\ processQueue(w)
      /\ StorageInv
  BY PoolTyped DEF doSaveMessage, At, Waiting, processQueue, ServiceInv
<1>2. /\ c \in Clients /\ submitted[c] = t /\ Service!Req(c) = t.request
      /\ \A cmds : t.cmd \in cmds => Service!Asks(c, cmds)
  BY <1>1, AsksIs
<1>3. /\ t.cmd \in {"MESSAGE_SEND", "MESSAGE_SEND_CHAT"} /\ IsAuthor(t, l.user)
      /\ IsTarget(t, l.chat) /\ StorageTypeOK /\ Then(since[c])
      /\ t.cmd = "MESSAGE_SEND_CHAT" => IsOnly(t, since[c], l.chat)
      /\ l.ts \in since[c].now .. now
  BY <1>1, AtStage DEF TaskFits, LocalsFit, Authenticated, SinceFits
<1>4. /\ Service!Authorized(c) /\ users[l.user].id = t.request.uid
      /\ l.ts \in Service!TimesSince(c)
  BY <1>1, <1>2, <1>3, AuthorIs DEF IsAuthor, Service!TimesSince
<1>5. Service!Reply(c, Service!Status("ok"))
  BY <1>1, ReplyIs, StatusIs DEF doSaveMessage
<1>6. Service!saveMessage(Service!Req(c).uid, l.chat, l.ts, Service!Req(c).message)
  BY <1>2, <1>4, ServiceCalls DEF doSaveMessage
<1>7. CASE t.cmd = "MESSAGE_SEND"
  <2>1. PICK j \in DOMAIN users :
           users[j].name = t.request.to_user /\ users[j].self_chat_id = l.chat
    BY <1>3, <1>7 DEF IsTarget
  <2>2. j \in Service!Peer(c)
    BY <1>2, <1>7, <2>1, PeersAre DEF PeerName, lookupUserByName
  <2>3. Service!Send(c)
    BY <1>2, <1>4, <1>5, <1>6, <1>7, <2>1, <2>2 DEF Service!Send
  <2>4. QED
    BY <1>2, <2>3 DEF ServiceStep, Service!Next, Service!Serve
<1>8. CASE t.cmd = "MESSAGE_SEND_CHAT"
  <2>1. PICK d \in DOMAIN chats : Service!OnlyChat(c, d) /\ chats[d].id = l.chat
    BY <1>2, <1>3, <1>8, OnlyIs
  <2>2. Service!SendChat(c)
    BY <1>2, <1>4, <1>5, <1>6, <1>8, <2>1 DEF Service!SendChat
  <2>3. QED
    BY <1>2, <2>2 DEF ServiceStep, Service!Next, Service!Serve
<1>9. QED
  BY <1>3, <1>7, <1>8

\* A user is made, or there is one of the name.
LEMMA CreateUserServes ==
    ASSUME ServiceInv, ServiceInv', NEW w \in Workers, doCreateUser(w),
           UNCHANGED callerVars
    PROVE  ServiceStep
<1> DEFINE t == task[w]
           c == t.client
           r == t.request
<1>1. /\ pc[w] = "createUser" /\ pc[w] \notin Waiting /\ pc[w] # "send"
      /\ processQueue(w)
  BY DEF doCreateUser, At, Waiting, processQueue
<1>2. /\ c \in Clients /\ submitted[c] = t /\ Service!Req(c) = r
      /\ \A cmds : t.cmd \in cmds => Service!Asks(c, cmds)
  BY <1>1, AsksIs
<1>3. Service!Asks(c, {"USER_CREATE"})
  BY <1>1, <1>2, AtStage DEF TaskFits
<1>4. ASSUME createUser(r.user, Crc32[r.password]), Answer(w, Plain("cmd", "ok"))
      PROVE  Service!CreateUser(c)
  <2>1. Service!Reply(c, Service!Status("ok"))
    BY <1>1, <1>4, ReplyIs, StatusIs
  <2>2. Service!createUser(Service!Req(c).user, Crc32[Service!Req(c).password])
    BY <1>2, <1>4, ServiceCalls
  <2>3. QED
    BY <1>3, <2>1, <2>2 DEF Service!CreateUser
<1>5. ASSUME lookupUserByName(r.user) # {}, Refuse(w, "user already exists"),
             UNCHANGED storageVars
      PROVE  Service!CreateUser(c)
  <2>1. Service!Reply(c, Service!Status("user already exists"))
    BY <1>1, <1>5, ReplyIs, StatusIs DEF Refuse
  <2>2. Service!lookupUserByName(Service!Req(c).user) # {}
    BY <1>2, <1>5, ServiceLooksUp
  <2>3. QED
    BY <1>3, <1>5, <2>1, <2>2, TablesStay DEF Service!CreateUser
<1>6. Service!CreateUser(c)
  BY <1>4, <1>5 DEF doCreateUser
<1>7. QED
  BY <1>2, <1>6 DEF ServiceStep, Service!Next, Service!Serve

\* A group is made, or there is a chat of the name.
LEMMA CreateChatServes ==
    ASSUME ServiceInv, ServiceInv', NEW w \in Workers, doCreateChat(w),
           UNCHANGED callerVars
    PROVE  ServiceStep
<1> DEFINE t == task[w]
           c == t.client
           r == t.request
<1>1. /\ pc[w] = "createChat" /\ pc[w] \notin Waiting /\ pc[w] # "send"
      /\ processQueue(w) /\ StorageInv
  BY PoolTyped DEF doCreateChat, At, Waiting, processQueue, ServiceInv
<1>2. /\ c \in Clients /\ submitted[c] = t /\ Service!Req(c) = r
      /\ \A cmds : t.cmd \in cmds => Service!Asks(c, cmds)
  BY <1>1, AsksIs
<1>3. t.cmd = "CHAT_CREATE" /\ IsAuthor(t, loc[w].user)
  BY <1>1, AtStage DEF TaskFits, LocalsFit, Authenticated
<1>4. Service!Asks(c, {"CHAT_CREATE"}) /\ Service!Authorized(c)
  BY <1>1, <1>2, <1>3, AuthorIs
<1>5. ASSUME createChat(r.chatname, r.uid), Answer(w, Plain("cmd", "ok"))
      PROVE  Service!CreateChat(c)
  <2>1. Service!Reply(c, Service!Status("ok"))
    BY <1>1, <1>5, ReplyIs, StatusIs
  <2>2. Service!createChat(Service!Req(c).chatname, Service!Req(c).uid)
    BY <1>2, <1>5, ServiceCalls
  <2>3. QED
    BY <1>4, <2>1, <2>2 DEF Service!CreateChat
<1>6. ASSUME lookupChatByName(r.chatname) # {}, Refuse(w, "chat already exists"),
             UNCHANGED storageVars
      PROVE  Service!CreateChat(c)
  <2>1. Service!Reply(c, Service!Status("chat already exists"))
    BY <1>1, <1>6, ReplyIs, StatusIs DEF Refuse
  <2>2. Service!lookupChatByName(Service!Req(c).chatname) # {}
    BY <1>2, <1>6, ServiceLooksUp
  <2>3. QED
    BY <1>4, <1>6, <2>1, <2>2, TablesStay DEF Service!CreateChat
<1>7. Service!CreateChat(c)
  BY <1>5, <1>6 DEF doCreateChat
<1>8. QED
  BY <1>2, <1>7 DEF ServiceStep, Service!Next, Service!Serve

\* A user enters a group.
LEMMA AddUserServes ==
    ASSUME ServiceInv, ServiceInv', NEW w \in Workers, doAddUserToChat(w),
           UNCHANGED callerVars
    PROVE  ServiceStep
<1> DEFINE t == task[w]
           c == t.client
           l == loc[w]
<1>1. /\ pc[w] = "addUser" /\ pc[w] \notin Waiting /\ pc[w] # "send"
      /\ processQueue(w) /\ StorageInv
  BY PoolTyped DEF doAddUserToChat, At, Waiting, processQueue, ServiceInv
<1>2. /\ c \in Clients /\ submitted[c] = t /\ Service!Req(c) = t.request
      /\ \A cmds : t.cmd \in cmds => Service!Asks(c, cmds)
  BY <1>1, AsksIs
<1>3. /\ t.cmd = "CHAT_ADDUSER" /\ IsAuthor(t, l.user) /\ IsPeer(t, l.peer)
      /\ StorageTypeOK /\ Then(since[c]) /\ IsOnly(t, since[c], l.chat)
  BY <1>1, AtStage DEF TaskFits, LocalsFit, Authenticated, SinceFits
<1>4. Service!Authorized(c) /\ l.peer \in Service!Peer(c)
  <2>1. Service!Authorized(c)
    BY <1>1, <1>2, <1>3, AuthorIs
  <2>2. Service!Peer(c) = {l.peer}
    BY <1>1, <1>2, <1>3, PeerIs
  <2>3. QED
    BY <2>1, <2>2
<1>5. Service!Reply(c, Service!Status("ok"))
  BY <1>1, ReplyIs, StatusIs DEF doAddUserToChat
<1>6. PICK d \in DOMAIN chats : Service!OnlyChat(c, d) /\ chats[d].id = l.chat
  BY <1>2, <1>3, OnlyIs
<1>7. Service!addUserToChat(chats[d].id, users[l.peer].id)
  BY <1>6, ServiceCalls DEF doAddUserToChat
<1>8. Service!AddUser(c)
  BY <1>2, <1>3, <1>4, <1>5, <1>6, <1>7 DEF Service!AddUser
<1>9. QED
  BY <1>2, <1>8 DEF ServiceStep, Service!Next, Service!Serve

\* While it polls, the outcome is open.
LEMMA PollsIs ==
    ASSUME ServiceInv, ServiceInv', NEW w \in Workers, processQueue(w),
           UNCHANGED callerVars, pc[w] \notin Waiting, task[w].cmd = "IDLE",
           KeepsTask(w), now' = now, pc'[w] # "send",
           LET c == task[w].client
           IN  \/ \E ts \in Service!TimesSince(c) :
                     Service!updateUserHeartBit(Service!Req(c).uid, ts)
               \/ \E row \in Service!lookupChatsForUserId(Service!Req(c).uid) :
                     Service!getMessages(chatuser[row].chatid, Service!Req(c).ts,
                                         Service!MessageLimit),
           IsAuthor(task[w], loc[w].user)
    PROVE  ServiceStep
<1> DEFINE t == task[w]
           c == t.client
<1>1. Others(w) /\ submitted' = submitted /\ since' = since /\ StorageInv
  BY PoolTyped, WorkerStepFits DEF StepFits, ServiceInv, PoolInv, callerVars
<1>2. /\ c \in Clients /\ submitted[c] = t /\ Service!Asks(c, {"IDLE"})
  BY AsksIs DEF KeepsTask
<1>3. Service!Authorized(c)
  BY <1>1, <1>2, AuthorIs
<1>4. \A d \in Clients : Outcome(d)' = Outcome(d)
  BY <1>1, KeepsOutcome DEF ServiceInv
<1>5. [d \in Clients |-> Outcome(d)]' = [d \in Clients |-> Outcome(d)]
  BY <1>4, OutcomesAre
<1>6. Service!Polls(c)
  BY <1>1, <1>2, <1>3, <1>5 DEF Service!Polls
<1>7. QED
  BY <1>2, <1>6 DEF ServiceStep, Service!Next, Service!Serve

\* A user who polls is seen.
LEMMA HeartBitServes ==
    ASSUME ServiceInv, ServiceInv', NEW w \in Workers, doUpdateHeartBit(w),
           UNCHANGED callerVars
    PROVE  ServiceStep
<1> DEFINE t == task[w]
           c == t.client
<1>1. /\ pc[w] = "heartbit" /\ pc[w] \notin Waiting /\ pc[w] # "send"
      /\ processQueue(w)
  BY DEF doUpdateHeartBit, At, Waiting, processQueue
<1>2. Service!Req(c) = t.request
  BY <1>1, AsksIs
<1>3. t.cmd = "IDLE" /\ IsAuthor(t, loc[w].user) /\ loc[w].ts \in since[c].now .. now
  BY <1>1, AtStage DEF TaskFits, LocalsFit, Authenticated, SinceFits
<1>4. KeepsTask(w) /\ now' = now /\ pc'[w] # "send"
  BY <1>1, AtStage DEF doUpdateHeartBit, Goto, KeepsTask
<1>5. /\ Service!updateUserHeartBit(Service!Req(c).uid, loc[w].ts)
      /\ loc[w].ts \in Service!TimesSince(c)
  BY <1>2, <1>3, ServiceCalls DEF doUpdateHeartBit, IsAuthor, Service!TimesSince
<1>6. QED
  BY <1>1, <1>3, <1>4, <1>5, PollsIs

\* One chat of those that poll is read.
LEMMA PollChatServes ==
    ASSUME ServiceInv, ServiceInv', NEW w \in Workers, pollChat(w),
           UNCHANGED callerVars
    PROVE  ServiceStep
<1> DEFINE t == task[w]
           c == t.client
<1>1. /\ pc[w] = "poll" /\ pc[w] \notin Waiting /\ pc[w] # "send" /\ processQueue(w)
  BY DEF pollChat, At, Waiting, processQueue
<1>2. Service!Req(c) = t.request
  BY <1>1, AsksIs
<1>3. t.cmd = "IDLE" /\ IsAuthor(t, loc[w].user) /\ IsTodo(t, loc[w].todo)
  BY <1>1, AtStage DEF TaskFits, LocalsFit, Authenticated
<1>4. KeepsTask(w) /\ now' = now /\ pc'[w] # "send"
  BY <1>1 DEF pollChat, KeepsTask
<1>5. PICK row \in loc[w].todo :
         getMessages(chatuser[row].chatid, t.request.ts, MessageLimit)
  BY DEF pollChat
<1>6. row \in Service!lookupChatsForUserId(Service!Req(c).uid)
  BY <1>2, <1>3, ServiceLooksUp DEF IsTodo, lookupChatsForUserId
<1>7. Service!getMessages(chatuser[row].chatid, Service!Req(c).ts, Service!MessageLimit)
  BY <1>2, <1>5, ServiceCalls, ServiceLooksUp
<1>8. QED
  BY <1>1, <1>3, <1>4, <1>6, <1>7, PollsIs

\* A request that ends in silence.
LEMMA SilenceIs ==
    ASSUME ServiceInv, ServiceInv', NEW w \in Workers, processQueue(w),
           UNCHANGED callerVars, DropsTask(w), now' = now
    PROVE  Service!Reply(task[w].client, Service!Silence)
<1>1. Others(w) /\ submitted' = submitted /\ since' = since
  BY WorkerStepFits DEF StepFits, ServiceInv, PoolInv, callerVars
<1>2. PICK c : c = task[w].client
  OBVIOUS
<1>3. c \in Clients
  BY <1>2 DEF DropsTask, Task
<1>4. Outcome(c)' = InSilence
  BY <1>1, <1>2, <1>3, DropsOutcome DEF ServiceInv
<1>5. \A d \in Clients : d # c => Outcome(d)' = Outcome(d)
  BY <1>1, <1>2, DropsOutcome DEF ServiceInv
<1>6. [d \in Clients |-> Outcome(d)]' =
        [[d \in Clients |-> Outcome(d)] EXCEPT ![c] = InSilence]
  BY <1>3, <1>4, <1>5
<1>7. QED
  BY <1>1, <1>2, <1>6 DEF Service!Reply, Service!Silence, InSilence

\* What was found for a chat is what the service finds.
LEMMA NewsIs ==
    ASSUME NEW c, NEW t, submitted[c] = t, NEW row,
           NEW n \in since[c].log .. Len(messages)
    PROVE  ({row} \X NewsAt(t, row, n)) \in Service!NewIn(c, row)
<1>1. Service!Req(c) = t.request
  BY DEF Service!Req
<1>2. NewsAt(t, row, n)
        = Service!Latest({i \in 1 .. n : /\ messages[i].chat_to = chatuser[row].chatid
                                         /\ messages[i].ts > Service!Req(c).ts},
                         Service!MessageLimit)
  BY <1>1, ServiceLooksUp DEF NewsAt
<1>3. QED
  BY <1>2 DEF Service!NewIn

\* The end of a poll.
LEMMA EndPollServes ==
    ASSUME ServiceInv, ServiceInv', NEW w \in Workers, endPoll(w),
           UNCHANGED callerVars
    PROVE  ServiceStep
<1> DEFINE t == task[w]
           c == t.client
           mine == Service!lookupChatsForUserId(Service!Req(c).uid)
<1>1. /\ pc[w] = "poll" /\ pc[w] \notin Waiting /\ pc[w] # "send" /\ processQueue(w)
      /\ StorageInv /\ UNCHANGED storageVars
  BY PoolTyped DEF endPoll, At, Waiting, processQueue, ServiceInv
<1>2. /\ c \in Clients /\ submitted[c] = t /\ Service!Req(c) = t.request
      /\ \A cmds : t.cmd \in cmds => Service!Asks(c, cmds)
  BY <1>1, AsksIs
<1>3. /\ t.cmd = "IDLE" /\ t \in Task /\ IsAuthor(t, loc[w].user)
      /\ IsPolled(t, since[c], loc[w])
  BY <1>1, AtStage DEF TaskFits, LocalsFit, Authenticated, SinceFits
<1>4. Service!Asks(c, {"IDLE"}) /\ Service!Authorized(c)
  BY <1>1, <1>2, <1>3, AuthorIs
<1>5. PICK batch : batch = loc[w].batch
  OBVIOUS
<1>6. PICK k \in since[c].rows .. Len(chatuser) :
         /\ \A b \in batch : b[1] \in MineAt(t, k)
         /\ \A row \in MineAt(t, k) :
               \E n \in since[c].log .. Len(messages) :
                  OfRow(batch, row) = {row} \X NewsAt(t, row, n)
  BY <1>3, <1>5 DEF IsPolled, endPoll
<1> DEFINE rows == MineAt(t, k)
           new == [row \in rows |-> OfRow(batch, row)]
<1>7. mine = lookupChatsForUserId(t.request.uid)
  BY <1>2, ServiceLooksUp
<1>8. Service!Before(mine, k) = rows
  BY <1>7 DEF Service!Before, MineAt
<1>9. \A row \in rows : new[row] \in Service!NewIn(c, row)
  <2>1. SUFFICES ASSUME NEW row \in rows
                 PROVE  OfRow(batch, row) \in Service!NewIn(c, row)
    OBVIOUS
  <2>2. PICK n \in since[c].log .. Len(messages) :
           OfRow(batch, row) = {row} \X NewsAt(t, row, n)
    BY <1>6
  <2>3. QED
    BY <1>2, <2>2, NewsIs
<1>10. new \in [rows -> UNION {Service!NewIn(c, row) : row \in rows}]
  BY <1>9
<1>11. UNION {new[row] : row \in rows} = batch
  BY <1>6 DEF OfRow
<1>12. IF batch # {} \/ submitted[c].ping
       THEN Service!Reply(c, Service!Given("idle", batch))
       ELSE Service!Reply(c, Service!Silence)
  <2>1. CASE batch # {} \/ t.ping
    <3>1. Answer(w, Messages("idle", batch))
      BY <1>5, <2>1 DEF endPoll
    <3>2. Messages("idle", batch) = Service!Given("idle", batch)
      BY DEF Messages, Service!Given
    <3>3. QED
      BY <1>1, <1>2, <2>1, <3>1, <3>2, ReplyIs
  <2>2. CASE ~(batch # {} \/ t.ping)
    <3>1. NextIteration(w) /\ UNCHANGED <<queue, writes, now, g_NeedStop>>
      BY <1>5, <2>2 DEF endPoll
    <3>2. task' = [task EXCEPT ![w] = NoTask] /\ pc'[w] = "check" /\ now' = now
      BY <1>1, <3>1, AtStage DEF NextIteration
    <3>3. DropsTask(w)
      BY <1>1, <1>3, <1>5, <2>2, <3>1, <3>2 DEF DropsTask
    <3>4. QED
      BY <1>1, <1>2, <2>2, <3>2, <3>3, SilenceIs
  <2>3. QED
    BY <2>1, <2>2
<1> DEFINE Found(m, f) ==
             LET msgs == UNION {f[row] : row \in Service!Before(mine, m)}
             IN  /\ \A row \in Service!Before(mine, m) : f[row] \in Service!NewIn(c, row)
                 /\ IF msgs # {} \/ submitted[c].ping
                    THEN Service!Reply(c, Service!Given("idle", msgs))
                    ELSE Service!Reply(c, Service!Silence)
<1> HIDE DEF new, rows
<1>13. Found(k, new)
  BY <1>8, <1>9, <1>11, <1>12
<1>14. new \in [Service!Before(mine, k) ->
                  UNION {Service!NewIn(c, row) : row \in Service!Before(mine, k)}]
  BY <1>8, <1>10
<1> HIDE DEF Found
<1>15. \E m \in since[c].rows .. Len(chatuser) :
       \E f \in [Service!Before(mine, m) ->
                  UNION {Service!NewIn(c, row) : row \in Service!Before(mine, m)}] :
          Found(m, f)
  BY <1>13, <1>14
<1>16. UNCHANGED Service!storageVars
  BY <1>1, TablesStay
<1>17. Service!EndPoll(c)
  BY <1>4, <1>15, <1>16 DEF Service!EndPoll, Found
<1>18. QED
  BY <1>2, <1>17 DEF ServiceStep, Service!Next, Service!Serve

\* What one of two users was found to have sent to the other is what the service
\* finds.
LEMMA SentIs ==
    ASSUME NEW c, NEW t, submitted[c] = t, NEW dir, NEW from, NEW chatid,
           NEW n \in since[c].log .. Len(messages)
    PROVE  ({dir} \X SentAt(t, from, chatid, n))
              \in Service!SentTo(c, dir, from, chatid)
<1>1. Service!Req(c) = t.request
  BY DEF Service!Req
<1>2. SentAt(t, from, chatid, n)
        = Service!Latest({i \in 1 .. n : /\ messages[i].user_from = from
                                         /\ messages[i].chat_to = chatid},
                         (2 * Service!Req(c).count) % Word)
  BY <1>1, ServiceLooksUp DEF SentAt
<1>3. QED
  BY <1>2 DEF Service!SentTo

\* The newest of those are what a thread keeps of them.
LEMMA MixIs ==
    ASSUME NEW all, NEW max \in Nat, NEW mix \in Mixes(all, max)
    PROVE  LET left == all \ mix
               ts(m) == messages[m[2]].ts
           IN  /\ mix \in SUBSET all
               /\ Service!Cardinality(mix) <= max
               /\ left # {} => Service!Cardinality(mix) = max
               /\ \A m \in mix, n \in left : ts(m) >= ts(n)
<1>1. CASE Cardinality(all) <= max
  <2>1. mix = all
    BY <1>1 DEF Mixes
  <2>2. QED
    BY <1>1, <2>1, ServiceCounts
<1>2. CASE ~(Cardinality(all) <= max)
  <2>1. /\ mix \in SUBSET all /\ Cardinality(mix) = max
        /\ \A m \in mix, n \in all \ mix : messages[m[2]].ts >= messages[n[2]].ts
    BY <1>2 DEF Mixes
  <2>2. QED
    BY <2>1, ServiceCounts
<1>3. QED
  BY <1>1, <1>2

\* The history of two users.
LEMMA SelectFromServes ==
    ASSUME ServiceInv, ServiceInv', NEW w \in Workers, selectFrom(w),
           UNCHANGED callerVars
    PROVE  ServiceStep
<1> DEFINE t == task[w]
           c == t.client
<1>1. /\ pc[w] = "selectFrom" /\ pc[w] \notin Waiting /\ pc[w] # "send"
      /\ processQueue(w) /\ StorageInv /\ UNCHANGED storageVars
  BY PoolTyped DEF selectFrom, At, Waiting, processQueue, ServiceInv
<1>2. /\ c \in Clients /\ submitted[c] = t /\ Service!Req(c) = t.request
      /\ \A cmds : t.cmd \in cmds => Service!Asks(c, cmds)
  BY <1>1, AsksIs
<1>3. /\ t.cmd = "USER_HISTORY" /\ t \in Task /\ Then(since[c]) /\ StorageTypeOK
      /\ IsAuthor(t, loc[w].user) /\ IsPeer(t, loc[w].peer)
      /\ IsSent(t, since[c], loc[w])
  BY <1>1, AtStage DEF TaskFits, LocalsFit, Authenticated, SinceFits
<1>4. Service!Asks(c, {"USER_HISTORY"}) /\ Service!Authorized(c)
  BY <1>1, <1>2, <1>3, AuthorIs
<1>5. PICK i, j : i = loc[w].user /\ j = loc[w].peer
  OBVIOUS
<1>6. i \in Service!Me(c) /\ j \in Service!Peer(c)
  <2>1. Service!Me(c) = {i}
    BY <1>1, <1>2, <1>3, <1>5, AuthorIs
  <2>2. Service!Peer(c) = {j}
    BY <1>1, <1>2, <1>3, <1>5, PeerIs
  <2>3. QED
    BY <2>1, <2>2
<1>7. PICK to : to = loc[w].batch
  OBVIOUS
<1>8. to \in Service!SentTo(c, 1, users[i].id, users[j].self_chat_id)
  <2>1. PICK n \in since[c].log .. Len(messages) :
           to = {1} \X SentAt(t, users[i].id, users[j].self_chat_id, n)
    BY <1>3, <1>5, <1>7 DEF IsSent
  <2>2. QED
    BY <1>2, <2>1, SentIs
<1>9. PICK from : from = {2} \X selectMessages(users[j].id, users[i].self_chat_id,
                                               HistoryLimit(w))
  OBVIOUS
<1>10. from \in Service!SentTo(c, 2, users[j].id, users[i].self_chat_id)
  <2>1. /\ DOMAIN messages = 1 .. Len(messages)
        /\ Len(messages) \in since[c].log .. Len(messages)
    BY <1>3 DEF StorageTypeOK, Then
  <2>2. from = {2} \X SentAt(t, users[j].id, users[i].self_chat_id, Len(messages))
    BY <1>9, <2>1 DEF selectMessages, SentAt, HistoryLimit
  <2>3. QED
    BY <1>2, <2>1, <2>2, SentIs
<1>11. PICK mix \in Mixes(to \cup from, t.request.count) :
          Answer(w, Messages("cmd", mix))
  BY <1>5, <1>7, <1>9 DEF selectFrom
<1>12. Service!Reply(c, Service!Given("cmd", mix))
  <2>1. Messages("cmd", mix) = Service!Given("cmd", mix)
    BY DEF Messages, Service!Given
  <2>2. QED
    BY <1>1, <1>11, <2>1, ReplyIs
<1>13. Service!Req(c).count \in Nat /\ mix \in Mixes(to \cup from, Service!Req(c).count)
  <2>1. t.request.count \in Nat
    BY <1>3 DEF Task, Params
  <2>2. QED
    BY <1>2, <1>11, <2>1
<1> DEFINE Cut(all, msgs) ==
             LET left == all \ msgs
                 ts(m) == messages[m[2]].ts
             IN  /\ Service!Cardinality(msgs) <= Service!Req(c).count
                 /\ left # {} => Service!Cardinality(msgs) = Service!Req(c).count
                 /\ \A m \in msgs, n \in left : ts(m) >= ts(n)
                 /\ Service!Reply(c, Service!Given("cmd", msgs))
<1>14. mix \in SUBSET (to \cup from) /\ Cut(to \cup from, mix)
  BY <1>12, <1>13, MixIs
<1>15. UNCHANGED Service!storageVars
  BY <1>1, TablesStay
<1> HIDE DEF Cut
<1>16. \E me \in Service!Me(c), peer \in Service!Peer(c) :
       \E x \in Service!SentTo(c, 1, users[me].id, users[peer].self_chat_id),
          y \in Service!SentTo(c, 2, users[peer].id, users[me].self_chat_id) :
       \E msgs \in SUBSET (x \cup y) : Cut(x \cup y, msgs)
  BY <1>6, <1>8, <1>10, <1>14
<1>17. Service!History(c)
  BY <1>4, <1>15, <1>16 DEF Service!History, Cut
<1>18. QED
  BY <1>2, <1>17 DEF ServiceStep, Service!Next, Service!Serve

-----------------------------------------------------------------------------
(* Steps that are none of the service, and the first and the last one.      *)

\* The stages that change neither a table nor the outcome of a client.
LEMMA QuietServes ==
    ASSUME ServiceInv, ServiceInv', NEW w \in Workers, UNCHANGED callerVars,
           \/ checkStop(w) \/ readClock(w) \/ listChats(w) \/ selectTo(w)
           \/ getTask(w) /\ queue = <<>>
    PROVE  ServiceStep
<1>1. processQueue(w) /\ pc[w] # "send" /\ UNCHANGED storageVars
  BY DEF processQueue, checkStop, readClock, listChats, selectTo, getTask, At
<1>2. PICK stage \in {"done", "getTask", "check", "heartbit", "save", "poll",
                      "selectFrom"} : Goto(w, stage)
  BY DEF checkStop, readClock, listChats, selectTo, getTask
<1>3. pc \in [Workers -> Stages]
  BY PoolTyped DEF ServiceInv, WorkerTypeOK
<1>4. KeepsTask(w) /\ now' = now /\ pc'[w] # "send"
  BY <1>1, <1>2, <1>3 DEF Goto, KeepsTask
<1>5. QED
  BY <1>1, <1>4, MoveStutters

\* A task is taken; the history of a group ends here.
LEMMA GetTaskServes ==
    ASSUME ServiceInv, ServiceInv', NEW w \in Workers, getTask(w), queue # <<>>,
           UNCHANGED callerVars
    PROVE  ServiceStep
<1>1. /\ UNCHANGED storageVars /\ now' = now /\ pc[w] = "getTask"
      /\ queue' = Tail(queue) /\ processQueue(w)
  BY DEF getTask, At, processQueue
<1>2. Others(w) /\ submitted' = submitted /\ since' = since /\ WorkerInv
  BY <1>1, WorkerStepFits DEF StepFits, ServiceInv, PoolInv, callerVars
<1>3. TakesTask(w)
  <2>1. queue' # queue
    <3>1. queue \in Seq(Task) /\ \A k \in DOMAIN Tail(queue) : k + 1 \in DOMAIN queue
      BY PoolTyped, FirstIsQueued DEF ServiceInv
    <3>2. Len(queue) \in DOMAIN queue /\ Len(queue) + 1 \notin DOMAIN queue
      BY <3>1
    <3>3. Len(queue) \notin DOMAIN queue'
      BY <1>1, <3>1, <3>2
    <3>4. QED
      BY <3>2, <3>3
  <2>2. QED
    BY <1>1, <1>2, <2>1, TaskMoves DEF KeepsTask, DropsTask, AnswersTask
<1>4. PICK t, c : t = Head(queue) /\ c = t.client
  OBVIOUS
<1>5. t \in Task /\ c \in Clients
  BY <1>4, FirstIsQueued DEF ServiceInv
<1>6. /\ Outcome(c) = NoOutcome /\ submitted[c] = t
      /\ Outcome(c)' = IF t.cmd = "CHAT_HISTORY" THEN InSilence ELSE NoOutcome
      /\ \A d \in Clients : d # c => Outcome(d)' = Outcome(d)
  BY <1>2, <1>3, <1>4, <1>5, TakesOutcome DEF ServiceInv
<1>7. CASE t.cmd = "CHAT_HISTORY"
  <2>1. [d \in Clients |-> Outcome(d)]' =
          [[d \in Clients |-> Outcome(d)] EXCEPT ![c] = InSilence]
    BY <1>5, <1>6, <1>7
  <2>2. Service!Reply(c, Service!Silence)
    BY <1>1, <1>2, <2>1 DEF Service!Reply, Service!Silence, InSilence
  <2>3. Service!Asks(c, {"CHAT_HISTORY"})
    BY <1>5, <1>6, <1>7 DEF Service!Asks, Service!None, NoOutcome
  <2>4. Service!GroupHistory(c)
    BY <1>1, <2>2, <2>3, TablesStay DEF Service!GroupHistory
  <2>5. QED
    BY <1>5, <2>4 DEF ServiceStep, Service!Next, Service!Serve
<1>8. CASE t.cmd # "CHAT_HISTORY"
  <2>1. \A d \in Clients : Outcome(d)' = Outcome(d)
    BY <1>6, <1>8
  <2>2. QED
    BY <1>1, <1>2, <2>1, Stutters
<1>9. QED
  BY <1>7, <1>8

\* The answer that was ready is written.
LEMMA RespondServes ==
    ASSUME ServiceInv, ServiceInv', NEW w \in Workers, respond(w),
           UNCHANGED callerVars
    PROVE  ServiceStep
<1>1. UNCHANGED storageVars /\ now' = now /\ pc[w] = "send" /\ processQueue(w)
  BY DEF respond, At, processQueue, NextIteration
<1>2. Others(w) /\ submitted' = submitted /\ since' = since /\ WorkerInv
  BY <1>1, WorkerStepFits DEF StepFits, ServiceInv, PoolInv, callerVars
<1>3. AnswersTask(w)
  <2>1. task[w] = NoTask => FALSE
    BY <1>1, <1>2, ThreadTyped, NoTaskIsNone DEF TaskFits, Waiting
  <2>2. QED
    BY <1>1, <1>2, <2>1, TaskMoves DEF KeepsTask, DropsTask, TakesTask
<1>4. \A c \in Clients : Outcome(c)' = Outcome(c)
  BY <1>2, <1>3, AnswersOutcome DEF ServiceInv
<1>5. QED
  BY <1>1, <1>2, <1>4, Stutters

\* Every step of a thread.
LEMMA WorkServes ==
    ASSUME ServiceInv, ServiceInv', NEW w \in Workers, processQueue(w),
           UNCHANGED callerVars
    PROVE  ServiceStep
BY QuietServes, GetTaskServes, AuthServes, ByNameServes, LookupChatServes, SaveServes,
   CreateUserServes, CreateChatServes, AddUserServes, HeartBitServes, PollChatServes,
   EndPollServes, SelectFromServes, RespondServes DEF processQueue

\* A client that asks had no outcome, and has none yet.
LEMMA AskServes ==
    ASSUME ServiceInv, ServiceInv', NEW c \in Clients, Submit(c)
    PROVE  ServiceStep
<1>1. PICK load \in Workloads :
         \E t \in load[c] : putTask(t) /\ submitted' = [submitted EXCEPT ![c] = t]
  BY DEF Submit
<1>2. PICK t \in load[c] : putTask(t) /\ submitted' = [submitted EXCEPT ![c] = t]
  BY <1>1
<1>3. t \in Task /\ t.client = c
  BY WorkloadsAssumption
<1>4. /\ submitted[c] = NoTask /\ UNCHANGED <<storageVars, task, loc, writes, now, pc>>
      /\ queue' = Append(queue, t) /\ queue \in Seq(Task)
      /\ submitted \in [Clients -> Task \cup {NoTask}]
  BY <1>2, PoolTyped DEF Submit, putTask, ServiceInv
<1>5. \A d \in Clients : Serving(d)' = Serving(d) /\ Answers(d)' = Answers(d)
  BY <1>4 DEF Serving, Answers, At
<1>6. /\ DOMAIN queue' = DOMAIN queue \cup {Len(queue) + 1}
      /\ Len(queue) + 1 \notin DOMAIN queue /\ queue'[Len(queue) + 1] = t
      /\ \A k \in DOMAIN queue : queue'[k] = queue[k]
  BY <1>3, <1>4
<1>7. ASSUME NEW d \in Clients, d # c
      PROVE  Outcome(d)' = Outcome(d)
  <2>1. Queued(d)' = Queued(d)
    BY <1>3, <1>6, <1>7 DEF Queued
  <2>2. Asked(d)' = Asked(d)
    BY <1>2, <1>4, <1>7 DEF Asked
  <2>3. QED
    BY <1>5, <2>1, <2>2, SameOutcome
<1>8. Outcome(c)' = Outcome(c)
  <2>1. Serving(c) = {} /\ writes[c] = <<>>
    BY <1>4, NotAskedIsNowhere DEF ServiceInv
  <2>2. Answers(c) = {}
    BY <2>1 DEF Answers
  <2>3. Outcome(c) = NoOutcome
    BY <1>4, <2>2, OutcomeIs DEF Asked
  <2>4. Queued(c)' # {}
    BY <1>3, <1>6 DEF Queued
  <2>5. Outcome(c)' = NoOutcome
    BY <1>5, <2>2, <2>4, OutcomeIsNext
  <2>6. QED
    BY <2>3, <2>5
<1>9. [d \in Clients |-> Outcome(d)]' = [d \in Clients |-> Outcome(d)]
  BY <1>7, <1>8, OutcomesAre
<1>10. since' = [since EXCEPT ![c] = Service!Moment]
  BY DEF Submit, Service!Moment
<1>11. \E u \in UNION {UNION {l[d] : d \in Clients} : l \in Workloads} :
          submitted' = [submitted EXCEPT ![c] = u]
  <2>1. t \in UNION {UNION {l[d] : d \in Clients} : l \in Workloads}
    OBVIOUS
  <2>2. QED
    BY <1>2, <2>1
<1>12. submitted[c] = Service!NoTask
  BY <1>4 DEF NoTask, Service!NoTask
<1>13. UNCHANGED <<Service!storageVars, now, [d \in Clients |-> Outcome(d)]>>
  BY <1>4, <1>9, TablesStay
<1>14. Service!Ask(c)
  BY <1>10, <1>11, <1>12, <1>13 DEF Service!Ask
<1>15. QED
  BY <1>14 DEF ServiceStep, Service!Next, Service!Serve

\* Where nothing moves the outcomes stay.
LEMMA OutcomesStay ==
    ASSUME UNCHANGED <<queue, pc, task, loc, writes, submitted>>
    PROVE  \A c \in Clients : Outcome(c)' = Outcome(c)
<1>1. ASSUME NEW c \in Clients
      PROVE  Outcome(c)' = Outcome(c)
  <2>1. /\ Answers(c)' = Answers(c) /\ Asked(c)' = Asked(c)
        /\ Queued(c)' = Queued(c) /\ Serving(c)' = Serving(c)
    BY DEF Answers, Asked, Queued, Serving, At
  <2>2. QED
    BY <2>1, SameOutcome
<1>2. QED
  BY <1>1

\* A second passes for the service too.
LEMMA TickServes ==
    ASSUME Tick, UNCHANGED callerVars
    PROVE  ServiceStep
<1>1. [c \in Clients |-> Outcome(c)]' = [c \in Clients |-> Outcome(c)]
  BY OutcomesStay, OutcomesAre DEF Tick, callerVars
<1>2. Service!Tick
  BY <1>1, TablesStay DEF Tick, callerVars, Service!Tick
<1>3. QED
  BY <1>2 DEF ServiceStep, Service!Next

\* Every step of the pool.
LEMMA PoolServes ==
    ASSUME ServiceInv, ServiceInv', [PoolNext]_poolVars
    PROVE  ServiceStep
<1>1. CASE PoolNext
  BY <1>1, AskServes, WorkServes, TickServes DEF PoolNext
<1>2. CASE UNCHANGED poolVars
  <2>1. UNCHANGED <<storageVars, queue, pc, task, loc, writes, now, submitted, since>>
    BY <1>2 DEF poolVars, workerVars, callerVars
  <2>2. QED
    BY <2>1, OutcomesStay, Stutters
<1>3. QED
  BY <1>1, <1>2

\* The first state: nobody has asked.
LEMMA InitServes ==
    ASSUME StorageInv, PoolInit
    PROVE  Service!Init
<1>1. StorageTypeOK /\ now = 1
  BY DEF StorageInv, PoolInit, WorkerInit
<1>2. Service!StorageTypeOK
  BY <1>1 DEF StorageTypeOK, User, Chat, Chatuser, Message, Flags,
              Service!StorageTypeOK, Service!User, Service!Chat, Service!Chatuser,
              Service!Message, Service!Flags
<1>3. ASSUME NEW c \in Clients
      PROVE  Outcome(c) = NoOutcome
  <2>1. submitted[c] = NoTask /\ writes[c] = <<>> /\ Serving(c) = {}
    BY DEF PoolInit, WorkerInit, Serving
  <2>2. Answers(c) = {}
    BY <2>1 DEF Answers
  <2>3. QED
    BY <2>1, <2>2, OutcomeIs DEF Asked
<1>4. [c \in Clients |-> Outcome(c)] = [c \in Clients |-> Service!None]
  BY <1>3 DEF NoOutcome, Service!None
<1>5. /\ submitted = [c \in Clients |-> Service!NoTask]
      /\ since = [c \in Clients |-> Service!Moment]
  BY DEF PoolInit, NoTask, Service!NoTask, Service!Moment
<1>6. now \in Time
  BY <1>1, WorkerAssumption
<1>7. QED
  BY <1>2, <1>4, <1>5, <1>6 DEF Service!Init

\* The database threads implement the service: a request has one effect, at one
\* moment between its submission and its answer, whatever the other threads do
\* between the lock regions of processQueue.
THEOREM PoolImplementsService == RunningSpec => ImplementsChatService
<1>1. StorageInv /\ PoolInit => Service!Init
  BY InitServes
<1>2. ServiceInv /\ ServiceInv' /\ [PoolNext]_poolVars
        => [Service!Next]_Service!serviceVars
  BY PoolServes DEF ServiceStep
<1>3. QED
  BY <1>1, <1>2, ServiceInvariant, PTL
     DEF RunningSpec, ImplementsChatService, Service!Spec
=============================================================================
