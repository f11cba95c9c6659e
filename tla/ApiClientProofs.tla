-------------------------- MODULE ApiClientProofs --------------------------
(***************************************************************************)
(* What the server does for each connection, for any number of connections *)
(* and database threads, any requests and any bounds.                      *)
(***************************************************************************)
EXTENDS ApiClient, DatabaseWorkerProofs, WellFoundedInduction

\* A server that has been running for a while: any tables its operations can
\* leave behind.
ServingSpec == StorageInv /\ WorkerInit /\ SessionInit /\ [][Next]_vars

-----------------------------------------------------------------------------
(* The inductive invariant.                                                  *)

\* Nothing is under way before the handshake has ended.
Unstarted(c) ==
    conn[c] \in {"none", "handshake"} =>
        /\ reads[c] = 0 /\ writes[c] = <<>>
        /\ Tasks(c) = {} /\ Serving(c) = {}
        /\ ~Idling(c)

\* A connection that has not begun to poll, or never will.
Simple(c) == ~Idling(c) /\ (conn[c] = "open" \/ NeverIdles(c))

\* One thing at most is under way, ...
AtMostOne(c) ==
    /\ reads[c] \in {0, 1}
    /\ \A j, k \in Tasks(c) : j = k
    /\ \A v, w \in Serving(c) : v = w
    /\ Len(writes[c]) <= 1
    /\ reads[c] = 1 => Tasks(c) = {} /\ Serving(c) = {} /\ writes[c] = <<>>
    /\ Tasks(c) # {} => Serving(c) = {} /\ writes[c] = <<>>
    /\ Serving(c) # {} => writes[c] = <<>>

\* ... for the last request read, and its answer will be followed by a read, ...
ForLastRequest(c) ==
    /\ \A k \in Tasks(c) :
         queue[k].cmd = details[c].cmd /\ queue[k].cmd # "IDLE"
    /\ \A w \in Serving(c) :
         task[w].cmd = details[c].cmd /\ task[w].cmd # "IDLE"
    /\ \A k \in DOMAIN writes[c] : writes[c][k].handler = "cmd"

\* ... and one thing at least, unless the request is the one without an answer.
AtLeastOne(c) ==
    conn[c] = "open" /\ details[c].cmd # "CHAT_HISTORY" =>
        \/ reads[c] = 1 \/ Tasks(c) # {} \/ Serving(c) # {} \/ writes[c] # <<>>

OneThing(c) == Simple(c) => AtMostOne(c) /\ ForLastRequest(c) /\ AtLeastOne(c)

\* The timer runs only after an IDLE request.
Polls(c) == Idling(c) => details[c].cmd # "none" /\ ~NeverIdles(c)

\* What is being written exists, and so does what was written.
RowsExist(c) ==
    \A k \in DOMAIN writes[c] : Rows(writes[c][k]) \subseteq DOMAIN messages

\* m_NewestMsgTimestamp and the cursor come from a message that was sent.
Sent(c, ts) == ts > 0 => \E i \in notified[c] : messages[i].ts = ts

Cursor(c) ==
    /\ Sent(c, newest[c])
    /\ \/ Sent(c, details[c].params.ts)
       \/ \E q \in Requests[c] : q.params.ts = details[c].params.ts

SessionInv ==
    /\ WorkerInv
    /\ SessionTypeOK
    /\ \A c \in Clients : Unstarted(c) /\ OneThing(c) /\ Polls(c)
                          /\ RowsExist(c) /\ Cursor(c)

-----------------------------------------------------------------------------
(* The newest timestamp of an answer.                                        *)

\* A set of naturals has a least one.
LEMMA LeastNatural ==
    ASSUME NEW S \in SUBSET Nat, S # {}
    PROVE  \E n \in S : \A m \in S : n <= m
<1>1. \E n \in S : \A m \in S : <<m, n>> \notin OpToRel(<, Nat)
  BY NatLessThanWellFounded, WFMin
<1>2. PICK n \in S : \A m \in S : <<m, n>> \notin OpToRel(<, Nat)
  BY <1>1
<1>3. ASSUME NEW m \in S PROVE n <= m
  <2>1. <<m, n>> \in Nat \X Nat /\ ~ (m < n)
    BY <1>2 DEF OpToRel
  <2>2. QED
    BY <2>1
<1>4. QED
  BY <1>3

\* A bounded set of naturals has a greatest one.
LEMMA GreatestNatural ==
    ASSUME NEW S \in SUBSET Nat, S # {}, NEW b \in Nat, \A m \in S : m <= b
    PROVE  \E n \in S : \A m \in S : m <= n
<1> DEFINE Bounds == {u \in Nat : \A m \in S : m <= u}
<1>1. PICK u \in Bounds : \A v \in Bounds : u <= v
  <2>1. Bounds \in SUBSET Nat /\ b \in Bounds
    OBVIOUS
  <2>2. QED
    BY <2>1, LeastNatural
<1>2. u \in S
  <2>1. SUFFICES ASSUME u \notin S PROVE FALSE
    OBVIOUS
  <2>2. PICK m \in S : TRUE
    OBVIOUS
  <2>3. u \in Nat /\ m < u
    BY <2>1, <2>2
  <2>4. \A k \in S : k <= u - 1
    BY <2>1, <2>3
  <2>5. u - 1 \in Bounds
    BY <2>3, <2>4
  <2>6. QED
    BY <1>1, <2>3, <2>5
<1>3. QED
  BY <1>1, <1>2

\* Finitely many naturals have a bound.
LEMMA FiniteBound ==
    ASSUME NEW n \in Nat, NEW f \in [1 .. n -> Nat]
    PROVE  \E b \in Nat : \A i \in 1 .. n : f[i] <= b
<1> DEFINE Bad == {k \in 0 .. n : \A b \in Nat : \E i \in 1 .. k : f[i] > b}
<1>1. SUFFICES ASSUME Bad # {} PROVE FALSE
  <2>1. n \in 0 .. n
    OBVIOUS
  <2>2. Bad = {} => \E b \in Nat : \A i \in 1 .. n : ~(f[i] > b)
    BY <2>1
  <2>3. ASSUME NEW b \in Nat, NEW i \in 1 .. n, ~(f[i] > b) PROVE f[i] <= b
    <3>1. f[i] \in Nat
      OBVIOUS
    <3>2. QED
      BY <2>3, <3>1
  <2>4. QED
    BY <2>2, <2>3
<1>2. PICK k \in Bad : \A l \in Bad : k <= l
  <2>1. Bad \in SUBSET Nat
    OBVIOUS
  <2>2. QED
    BY <1>1, <2>1, LeastNatural
<1>3. k \in 0 .. n /\ \A b \in Nat : \E i \in 1 .. k : f[i] > b
  OBVIOUS
<1>4. k # 0
  BY <1>3
<1>5. k - 1 \in 0 .. n /\ ~(k <= k - 1)
  BY <1>3, <1>4
<1>6. k - 1 \notin Bad
  BY <1>2, <1>5
<1>7. PICK b \in Nat : \A i \in 1 .. k - 1 : ~(f[i] > b)
  BY <1>5, <1>6
<1>8. PICK t \in Nat : t = f[k]
  BY <1>3, <1>4
<1>9. PICK u \in Nat : b <= u /\ t <= u
  <2>1. b + t \in Nat /\ b <= b + t /\ t <= b + t
    BY <1>7, <1>8
  <2>2. QED
    BY <2>1
<1>10. ASSUME NEW i \in 1 .. k PROVE ~(f[i] > u)
  <2>1. f[i] \in Nat
    BY <1>3
  <2>2. CASE i = k
    BY <1>8, <1>9, <2>2
  <2>3. CASE i # k
    <3>1. i \in 1 .. k - 1
      BY <1>3, <2>3
    <3>2. ~(f[i] > b)
      BY <1>7, <3>1
    <3>3. QED
      BY <1>9, <2>1, <3>2
  <2>4. QED
    BY <2>2, <2>3
<1>11. QED
  BY <1>3, <1>10

\* So the timestamps of the table have one.
LEMMA TimestampsBounded ==
    ASSUME StorageTypeOK
    PROVE  \E b \in Nat : \A i \in DOMAIN messages : messages[i].ts <= b
<1>1. PICK n \in Nat : n = Len(messages) /\ DOMAIN messages = 1 .. n
  BY DEF StorageTypeOK
<1>2. \A i \in 1 .. n : messages[i].ts \in Nat
  <2>1. \A i \in DOMAIN messages : messages[i].ts \in Time
    BY RowsTyped DEF Message
  <2>2. QED
    BY <1>1, <2>1, StorageAssumption
<1>3. [i \in 1 .. n |-> messages[i].ts] \in [1 .. n -> Nat]
  BY <1>2
<1>4. PICK f \in [1 .. n -> Nat] : f = [i \in 1 .. n |-> messages[i].ts]
  BY <1>3
<1>5. PICK b \in Nat : \A i \in 1 .. n : f[i] <= b
  BY FiniteBound
<1>6. QED
  BY <1>1, <1>4, <1>5

\* max_timestamp is 0 or the timestamp of one of the rows.
LEMMA MaxTimestamp ==
    ASSUME StorageTypeOK, NEW a, Rows(a) \subseteq DOMAIN messages
    PROVE  /\ max_timestamp(a) \in Time
           /\ \/ max_timestamp(a) = 0
              \/ \E i \in Rows(a) : messages[i].ts = max_timestamp(a)
<1> DEFINE stamps == {0} \cup {messages[i].ts : i \in Rows(a)}
<1>1. \A i \in DOMAIN messages : messages[i].ts \in Time
  BY RowsTyped DEF Message
<1>2. stamps \subseteq Time /\ stamps \in SUBSET Nat /\ stamps # {}
  BY <1>1, StorageAssumption
<1>3. PICK b \in Nat : \A i \in DOMAIN messages : messages[i].ts <= b
  BY TimestampsBounded
<1>4. \A m \in stamps : m <= b
  BY <1>3
<1>5. \E ts \in stamps : \A other \in stamps : other <= ts
  BY <1>2, <1>4, GreatestNatural
<1>6. max_timestamp(a) = CHOOSE ts \in stamps : \A other \in stamps : other <= ts
  BY DEF max_timestamp
<1>7. max_timestamp(a) \in stamps
  BY <1>5, <1>6
<1>8. QED
  BY <1>2, <1>7

-----------------------------------------------------------------------------
(* Steps of the database threads.                                            *)

\* The invariant of one connection.
ConnOK(c) == Unstarted(c) /\ OneThing(c) /\ Polls(c) /\ RowsExist(c) /\ Cursor(c)

\* Types of what the invariant speaks of.
LEMMA SessionTyped ==
    ASSUME SessionInv
    PROVE  /\ WorkerInv /\ WorkerTypeOK /\ StorageTypeOK /\ SessionTypeOK
           /\ queue \in Seq(Task) /\ writes \in [Clients -> Seq(Response)]
           /\ task \in [Workers -> Task \cup {NoTask}]
           /\ \A c \in Clients : ConnOK(c)
BY DEF SessionInv, WorkerInv, StorageInv, WorkerTypeOK, ConnOK

\* A task has a client; NoTask is none of them.
LEMMA NoTaskIsNone == NoTask \notin Task /\ \A t \in Task : t # NoTask
BY DEF NoTask, Task, Commands

\* What is the ApiClient's own, for one connection.
SameSession(c) ==
    /\ conn'[c] = conn[c] /\ reads'[c] = reads[c]
    /\ armed'[c] = armed[c] /\ fired'[c] = fired[c]
    /\ details'[c] = details[c] /\ newest'[c] = newest[c]
    /\ notified'[c] = notified[c]

\* The cursor and the timer are nobody else's business.
LEMMA CursorKept ==
    ASSUME SessionInv, RowsKept, NEW c \in Clients, SameSession(c)
    PROVE  Polls(c)' /\ Cursor(c)'
<1>1. Polls(c) /\ Cursor(c)
  BY DEF SessionInv
<1>2. \A i \in notified[c] : messages'[i].ts = messages[i].ts
  BY SessionTyped, KeptRows DEF SessionTypeOK
<1>3. ASSUME NEW ts, Sent(c, ts) PROVE Sent(c, ts)'
  BY <1>2, <1>3 DEF Sent, SameSession
<1>4. PICK new, ts : new = newest[c] /\ ts = details[c].params.ts
  OBVIOUS
<1>5. Sent(c, new) /\ (Sent(c, ts) \/ \E q \in Requests[c] : q.params.ts = ts)
  BY <1>1, <1>4 DEF Cursor
<1>6. Sent(c, new)' /\ (Sent(c, ts)' \/ \E q \in Requests[c] : q.params.ts = ts)
  BY <1>3, <1>5
<1>7. newest'[c] = new /\ details'[c].params.ts = ts
  BY <1>4 DEF SameSession
<1>8. Cursor(c)'
  BY <1>6, <1>7 DEF Cursor
<1>9. Polls(c)'
  BY <1>1 DEF Polls, Idling, SameSession
<1>10. QED
  BY <1>8, <1>9

\* Nobody else moves a task or an answer of the connection.
LEMMA ConnectionKept ==
    ASSUME SessionInv, RowsKept, NEW c \in Clients, SameSession(c),
           writes'[c] = writes[c],
           Tasks(c)' = Tasks(c), \A k \in Tasks(c) : queue'[k].cmd = queue[k].cmd,
           Serving(c)' = Serving(c), \A w \in Serving(c) : task'[w] = task[w]
    PROVE  ConnOK(c)'
<1>1. Unstarted(c) /\ OneThing(c) /\ RowsExist(c)
  BY DEF SessionInv
<1>2. Polls(c)' /\ Cursor(c)'
  BY CursorKept
<1>3. Unstarted(c)'
  BY <1>1 DEF Unstarted, Idling, SameSession
<1>4. RowsExist(c)'
  BY <1>1 DEF RowsExist, Rows, RowsKept
<1>5. Simple(c)' <=> Simple(c)
  BY DEF Simple, Idling, SameSession
<1>6. AtMostOne(c) => AtMostOne(c)'
  BY DEF AtMostOne, SameSession
<1>7. ForLastRequest(c) => ForLastRequest(c)'
  BY DEF ForLastRequest, SameSession
<1>8. AtLeastOne(c) => AtLeastOne(c)'
  BY DEF AtLeastOne, SameSession
<1>9. OneThing(c)'
  BY <1>1, <1>5, <1>6, <1>7, <1>8 DEF OneThing
<1>10. QED
  BY <1>2, <1>3, <1>4, <1>9 DEF ConnOK

\* A thread takes the task at the front of the queue.
LEMMA TakesConnOK ==
    ASSUME SessionInv, NEW w \in Workers, NEW c \in Clients, RowsKept,
           TakesTask(w), UNCHANGED sessionVars
    PROVE  ConnOK(c)'
<1>1. /\ Unstarted(c) /\ OneThing(c) /\ RowsExist(c)
      /\ queue \in Seq(Task) /\ task \in [Workers -> Task \cup {NoTask}]
      /\ queue # <<>> /\ writes' = writes /\ task[w] = NoTask
  BY SessionTyped DEF ConnOK, TakesTask
<1>2. PICK front : front = Head(queue)
  OBVIOUS
<1>3. front \in Task /\ front = queue[1] /\ 1 \in DOMAIN queue
  BY <1>1, <1>2
<1>4. PICK kept : kept = IF front.cmd = "CHAT_HISTORY" THEN NoTask ELSE front
  OBVIOUS
<1>5. task' = [task EXCEPT ![w] = kept]
  BY <1>2, <1>4 DEF TakesTask
<1>6. task'[w] = kept /\ \A v \in Workers : v # w => task'[v] = task[v]
  BY <1>1, <1>5
<1>7. /\ DOMAIN queue' = 1 .. Len(queue) - 1
      /\ \A k \in DOMAIN queue' : k + 1 \in DOMAIN queue /\ queue'[k] = queue[k + 1]
      /\ \A k \in DOMAIN queue : k # 1 =>
           k - 1 \in DOMAIN queue' /\ queue'[k - 1] = queue[k]
  BY <1>1 DEF TakesTask
<1>8. /\ \A k \in Tasks(c)' : k + 1 \in Tasks(c) /\ queue'[k] = queue[k + 1]
      /\ \A k \in Tasks(c) : k # 1 => k - 1 \in Tasks(c)'
      /\ \A k \in Tasks(c)' : k \in Nat /\ k # 0
      /\ Tasks(c) \subseteq Nat
  BY <1>1, <1>7 DEF Tasks
<1>9. SameSession(c)
  BY DEF sessionVars, SameSession
<1>10. Polls(c)' /\ Cursor(c)'
  BY <1>9, CursorKept
<1>11. RowsExist(c)'
  BY <1>1 DEF RowsExist, Rows, RowsKept
<1>12. Simple(c)' <=> Simple(c)
  BY <1>9 DEF Simple, Idling, SameSession
<1>13. CASE front.client # c
  <2>1. 1 \notin Tasks(c)
    BY <1>3, <1>13 DEF Tasks
  <2>2. kept = NoTask \/ kept.client # c
    BY <1>4, <1>13
  <2>3. Serving(c)' = Serving(c)
    BY <1>1, <1>6, <2>2 DEF Serving
  <2>4. w \notin Serving(c)
    BY <1>1 DEF Serving
  <2>5. \A v \in Serving(c) : task'[v] = task[v]
    BY <1>6, <2>4 DEF Serving
  <2>6. Tasks(c)' # {} <=> Tasks(c) # {}
    BY <1>8, <2>1
  <2>7. Unstarted(c)'
    BY <1>1, <1>9, <2>3, <2>6 DEF Unstarted, Idling, SameSession
  <2>8. AtMostOne(c) => AtMostOne(c)'
    BY <1>1, <1>8, <1>9, <2>3, <2>6 DEF AtMostOne, SameSession
  <2>9. ForLastRequest(c) => ForLastRequest(c)'
    BY <1>1, <1>8, <1>9, <2>3, <2>5 DEF ForLastRequest, SameSession
  <2>10. AtLeastOne(c) => AtLeastOne(c)'
    BY <1>1, <1>9, <2>3, <2>6 DEF AtLeastOne, SameSession
  <2>11. OneThing(c)'
    BY <1>1, <1>12, <2>8, <2>9, <2>10 DEF OneThing
  <2>12. QED
    BY <1>10, <1>11, <2>7, <2>11 DEF ConnOK
<1>14. CASE front.client = c
  <2>1. 1 \in Tasks(c)
    BY <1>3, <1>14 DEF Tasks
  <2>2. kept # NoTask => kept.client = c
    BY <1>4, <1>14
  <2>3. front # NoTask /\ (w \in Serving(c)' <=> kept # NoTask)
    <3>1. front # NoTask
      BY <1>3, NoTaskIsNone
    <3>2. QED
      BY <1>6, <2>2, <3>1 DEF Serving
  <2>4. Unstarted(c)'
    BY <1>1, <1>9, <2>1 DEF Unstarted, SameSession
  <2>5. ASSUME AtMostOne(c), ForLastRequest(c)
        PROVE  AtMostOne(c)' /\ ForLastRequest(c)' /\ AtLeastOne(c)'
    <3>1. Tasks(c)' = {}
      <4>1. \A k \in Tasks(c)' : k \in Nat /\ k # 0 /\ k + 1 = 1
        BY <1>8, <2>1, <2>5 DEF AtMostOne
      <4>2. QED
        BY <4>1
    <3>2. Serving(c) = {} /\ writes'[c] = <<>> /\ reads'[c] = 0
          /\ front.cmd = details[c].cmd /\ front.cmd # "IDLE"
      BY <1>1, <1>3, <1>9, <2>1, <2>5 DEF AtMostOne, ForLastRequest, SameSession
    <3>3. \A v \in Serving(c)' : v = w
      BY <1>6, <3>2 DEF Serving
    <3>4. AtMostOne(c)'
      BY <3>1, <3>2, <3>3 DEF AtMostOne
    <3>5. \A v \in Serving(c)' : task'[v] = front
      BY <1>4, <1>6, <2>3, <3>3
    <3>6. ForLastRequest(c)'
      BY <1>9, <3>1, <3>2, <3>5 DEF ForLastRequest, SameSession
    <3>7. AtLeastOne(c)'
      BY <1>4, <1>9, <2>3, <3>2 DEF AtLeastOne, SameSession
    <3>8. QED
      BY <3>4, <3>6, <3>7
  <2>6. OneThing(c)'
    BY <1>1, <1>12, <2>5 DEF OneThing
  <2>7. QED
    BY <1>10, <1>11, <2>4, <2>6 DEF ConnOK
<1>15. QED
  BY <1>13, <1>14

\* A poll without news ends in silence: only a connection that polls has one.
LEMMA DropsConnOK ==
    ASSUME SessionInv, NEW w \in Workers, NEW c \in Clients, RowsKept,
           DropsTask(w), UNCHANGED sessionVars
    PROVE  ConnOK(c)'
<1>1. /\ Unstarted(c) /\ OneThing(c) /\ RowsExist(c)
      /\ task \in [Workers -> Task \cup {NoTask}]
      /\ queue' = queue /\ writes' = writes
  BY SessionTyped DEF ConnOK, DropsTask
<1>2. SameSession(c)
  BY DEF sessionVars, SameSession
<1>3. Tasks(c)' = Tasks(c) /\ Serving(c)' = Serving(c) \ {w}
  BY <1>1 DEF DropsTask, Tasks, Serving
<1>4. \A v \in Serving(c)' : v # w /\ task'[v] = task[v]
  BY <1>1, <1>3 DEF DropsTask, Serving
<1>5. CASE w \notin Serving(c)
  BY <1>1, <1>2, <1>3, <1>4, <1>5, ConnectionKept
<1>6. CASE w \in Serving(c)
  <2>1. ~Simple(c)
    BY <1>1, <1>6 DEF OneThing, ForLastRequest, DropsTask
  <2>2. ~Simple(c)'
    BY <1>2, <2>1 DEF Simple, Idling, SameSession
  <2>3. OneThing(c)'
    BY <2>2 DEF OneThing
  <2>4. Unstarted(c)'
    BY <1>1, <1>2, <1>6 DEF Unstarted, SameSession
  <2>5. RowsExist(c)'
    BY <1>1 DEF RowsExist, Rows, RowsKept
  <2>6. QED
    BY <1>2, <2>3, <2>4, <2>5, CursorKept DEF ConnOK
<1>7. QED
  BY <1>5, <1>6

\* What a thread is about to write are rows of the table, and the handler that
\* will read the next request if the command is not IDLE.
LEMMA ReplyTyped ==
    ASSUME WorkerInv, NEW w \in Workers, pc[w] = "send"
    PROVE  /\ Rows(loc[w].reply) \subseteq DOMAIN messages
           /\ task[w].cmd # "IDLE" => loc[w].reply.handler = "cmd"
<1>1. PICK t, a : t = task[w] /\ a = loc[w].reply
  OBVIOUS
<1>2. IsAnswer(t, a)
  BY <1>1, ThreadTyped DEF LocalsFit
<1>3. \A m \in a.msgs : m[2] \in DOMAIN messages
  BY <1>2 DEF IsAnswer, IsOwn, IsNews, IsHistory
<1>4. Rows(a) \subseteq DOMAIN messages
  BY <1>3 DEF Rows
<1>5. t.cmd # "IDLE" => a.handler = "cmd"
  BY <1>2 DEF IsAnswer
<1>6. QED
  BY <1>1, <1>4, <1>5

\* The answer is written to the connection of the task.
LEMMA AnswersConnOK ==
    ASSUME SessionInv, NEW w \in Workers, NEW c \in Clients, RowsKept,
           AnswersTask(w), UNCHANGED sessionVars
    PROVE  ConnOK(c)'
<1>1. /\ Unstarted(c) /\ OneThing(c) /\ RowsExist(c)
      /\ task \in [Workers -> Task \cup {NoTask}]
      /\ writes \in [Clients -> Seq(Response)]
      /\ queue' = queue /\ task[w] # NoTask /\ task[w] \in Task
  BY SessionTyped, NoTaskIsNone DEF ConnOK, AnswersTask
<1>2. SameSession(c)
  BY DEF sessionVars, SameSession
<1>3. Tasks(c)' = Tasks(c) /\ Serving(c)' = Serving(c) \ {w}
  BY <1>1 DEF AnswersTask, Tasks, Serving
<1>4. \A v \in Serving(c)' : v # w /\ task'[v] = task[v]
  BY <1>1, <1>3 DEF AnswersTask, Serving
<1>5. CASE task[w].client # c
  <2>1. writes'[c] = writes[c] /\ w \notin Serving(c)
    BY <1>1, <1>5 DEF AnswersTask, Serving
  <2>2. QED
    BY <1>1, <1>2, <1>3, <1>4, <2>1, ConnectionKept
<1>6. CASE task[w].client = c
  <2>1. w \in Serving(c)
    BY <1>1, <1>6 DEF Serving
  <2>2. PICK a : a = loc[w].reply
    OBVIOUS
  <2>3. writes'[c] = Append(writes[c], a) /\ writes[c] \in Seq(Response)
    BY <1>1, <1>6, <2>2 DEF AnswersTask
  <2>4. /\ DOMAIN writes'[c] = DOMAIN writes[c] \cup {Len(writes[c]) + 1}
        /\ writes'[c][Len(writes[c]) + 1] = a
        /\ \A k \in DOMAIN writes[c] : writes'[c][k] = writes[c][k]
    BY <2>3
  <2>5. /\ Rows(a) \subseteq DOMAIN messages
        /\ task[w].cmd # "IDLE" => a.handler = "cmd"
    BY <2>2, SessionTyped, ReplyTyped DEF AnswersTask
  <2>6. RowsExist(c)'
    BY <1>1, <2>4, <2>5 DEF RowsExist, Rows, RowsKept
  <2>7. Unstarted(c)'
    BY <1>1, <1>2, <2>1 DEF Unstarted, SameSession
  <2>8. Simple(c)' <=> Simple(c)
    BY <1>2 DEF Simple, Idling, SameSession
  <2>9. ASSUME AtMostOne(c), ForLastRequest(c)
        PROVE  AtMostOne(c)' /\ ForLastRequest(c)' /\ AtLeastOne(c)'
    <3>1. reads'[c] = 0 /\ writes[c] = <<>> /\ Tasks(c) = {}
          /\ Serving(c) \ {w} = {} /\ task[w].cmd # "IDLE"
      BY <1>2, <2>1, <2>9 DEF AtMostOne, ForLastRequest, SameSession
    <3>2. writes'[c] = <<a>>
      BY <2>3, <3>1
    <3>3. Len(writes'[c]) = 1 /\ writes'[c] # <<>>
          /\ \A k \in DOMAIN writes'[c] : writes'[c][k] = a
      BY <3>2
    <3>4. AtMostOne(c)'
      BY <1>3, <3>1, <3>3 DEF AtMostOne
    <3>5. ForLastRequest(c)'
      BY <1>3, <2>5, <3>1, <3>3 DEF ForLastRequest
    <3>6. AtLeastOne(c)'
      BY <3>3 DEF AtLeastOne
    <3>7. QED
      BY <3>4, <3>5, <3>6
  <2>10. OneThing(c)'
    BY <1>1, <2>8, <2>9 DEF OneThing
  <2>11. QED
    BY <1>2, <2>6, <2>7, <2>10, CursorKept DEF ConnOK
<1>7. QED
  BY <1>5, <1>6

\* The table only grows, so rows that were written stay rows.
LEMMA SessionTypesKept ==
    ASSUME SessionTypeOK, RowsKept, UNCHANGED sessionVars
    PROVE  SessionTypeOK'
<1>1. DOMAIN messages \subseteq DOMAIN messages'
  BY DEF RowsKept
<1>2. notified' \in [Clients -> SUBSET DOMAIN messages']
  BY <1>1 DEF SessionTypeOK, sessionVars
<1>3. QED
  BY <1>2 DEF SessionTypeOK, sessionVars

\* A step of a database thread.
LEMMA WorkKeepsInv ==
    ASSUME SessionInv, NEW w \in Workers, Work(w)
    PROVE  SessionInv' /\ [StorageNext]_storageVars
<1>1. WorkerInv' /\ RowsKept /\ [StorageNext]_storageVars
  BY SessionTyped, WorkerStepKeepsInv DEF Work
<1>2. KeepsTask(w) \/ TakesTask(w) \/ DropsTask(w) \/ AnswersTask(w)
  BY SessionTyped, TaskMoves DEF Work
<1>3. UNCHANGED sessionVars
  BY DEF Work
<1>4. ASSUME NEW c \in Clients PROVE ConnOK(c)'
  <2>1. CASE KeepsTask(w)
    <3>1. SameSession(c)
      BY <1>3 DEF sessionVars, SameSession
    <3>2. queue' = queue /\ task' = task /\ writes' = writes
      BY <2>1 DEF KeepsTask
    <3>3. Tasks(c)' = Tasks(c) /\ Serving(c)' = Serving(c)
      BY <3>2 DEF Tasks, Serving
    <3>4. QED
      BY <1>1, <3>1, <3>2, <3>3, ConnectionKept
  <2>2. CASE TakesTask(w)
    BY <1>1, <1>3, <2>2, TakesConnOK
  <2>3. CASE DropsTask(w)
    BY <1>1, <1>3, <2>3, DropsConnOK
  <2>4. CASE AnswersTask(w)
    BY <1>1, <1>3, <2>4, AnswersConnOK
  <2>5. QED
    BY <1>2, <2>1, <2>2, <2>3, <2>4
<1>5. SessionTypeOK'
  BY <1>1, <1>3, SessionTypesKept DEF SessionInv
<1>6. QED
  BY <1>1, <1>4, <1>5 DEF SessionInv, ConnOK

-----------------------------------------------------------------------------
(* Steps of the io_service threads.                                          *)

\* A handler of one connection is no business of the others: what is left to
\* show is the connection's own part.
LEMMA HandlerKeepsInv ==
    ASSUME SessionInv, NEW c \in Clients, serverUnchanged,
           queue' = queue \/ \E t \in Task : t.client = c /\ queue' = Append(queue, t),
           writes' \in [Clients -> Seq(Response)],
           \A d \in Clients : d # c => writes'[d] = writes[d] /\ SameSession(d),
           SessionTypeOK', RowsKept => ConnOK(c)'
    PROVE  SessionInv' /\ [StorageNext]_storageVars
<1>1. UNCHANGED storageVars /\ task' = task /\ UNCHANGED <<pc, loc, now, g_NeedStop>>
  BY DEF serverUnchanged
<1>2. RowsKept
  BY <1>1, SessionTyped, NoCallKeepsRows
<1>3. queue' \in Seq(Task) /\ now' \in Time /\ g_NeedStop' \in BOOLEAN
  <2>1. \A t \in Task : Append(queue, t) \in Seq(Task)
    BY SessionTyped
  <2>2. queue' \in Seq(Task)
    BY <2>1, SessionTyped
  <2>3. QED
    BY <1>1, <2>2, SessionTyped DEF WorkerTypeOK
<1>4. WorkerInv'
  BY <1>1, <1>3, SessionTyped, EnvironmentKeepsInv
<1>5. ASSUME NEW d \in Clients, d # c PROVE ConnOK(d)'
  <2>1. Serving(d)' = Serving(d)
    BY <1>1 DEF Serving
  <2>2. Tasks(d)' = Tasks(d) /\ \A k \in Tasks(d) : queue'[k] = queue[k]
    <3>1. CASE queue' = queue
      BY <3>1 DEF Tasks
    <3>2. CASE \E t \in Task : t.client = c /\ queue' = Append(queue, t)
      <4>1. PICK t \in Task : t.client = c /\ queue' = Append(queue, t)
        BY <3>2
      <4>2. /\ DOMAIN queue' = DOMAIN queue \cup {Len(queue) + 1}
            /\ queue'[Len(queue) + 1] = t
            /\ \A k \in DOMAIN queue : queue'[k] = queue[k]
        BY <4>1, SessionTyped
      <4>3. QED
        BY <1>5, <4>1, <4>2 DEF Tasks
    <3>3. QED
      BY <3>1, <3>2
  <2>3. QED
    BY <1>1, <1>2, <1>5, <2>1, <2>2, ConnectionKept
<1>6. QED
  BY <1>1, <1>2, <1>4, <1>5 DEF SessionInv, ConnOK

\* Lookups and cursors that a handler of the connection leaves alone.
LEMMA CursorStays ==
    ASSUME SessionInv, NEW c \in Clients, Cursor(c), RowsKept,
           newest'[c] = newest[c], notified'[c] = notified[c],
           details'[c].params.ts = details[c].params.ts
    PROVE  Cursor(c)'
<1>1. \A i \in notified[c] : messages'[i].ts = messages[i].ts
  BY SessionTyped, KeptRows DEF SessionTypeOK
<1>2. ASSUME NEW ts, Sent(c, ts) PROVE Sent(c, ts)'
  BY <1>1, <1>2 DEF Sent
<1>3. PICK new, ts : new = newest[c] /\ ts = details[c].params.ts
  OBVIOUS
<1>4. Sent(c, new) /\ (Sent(c, ts) \/ \E q \in Requests[c] : q.params.ts = ts)
  BY <1>3 DEF Cursor
<1>5. Sent(c, new)' /\ (Sent(c, ts)' \/ \E q \in Requests[c] : q.params.ts = ts)
  BY <1>2, <1>4
<1>6. newest'[c] = new /\ details'[c].params.ts = ts
  BY <1>3
<1>7. QED
  BY <1>5, <1>6 DEF Cursor

\* The server accepts a connection.
LEMMA StartAcceptKeepsInv ==
    ASSUME SessionInv, NEW c \in Clients, startAccept(c)
    PROVE  SessionInv' /\ [StorageNext]_storageVars
<1>1. /\ SessionTypeOK /\ Unstarted(c) /\ OneThing(c) /\ Polls(c)
      /\ RowsExist(c) /\ Cursor(c)
  BY DEF SessionInv
<1>2. /\ conn[c] = "none" /\ conn' = [conn EXCEPT ![c] = "handshake"]
      /\ UNCHANGED <<storageVars, task, queue, writes, reads, armed, fired,
                     details, newest, pingAge, asked, notified>>
      /\ serverUnchanged
  BY DEF startAccept, SetConn, serverUnchanged
<1>3. SessionTypeOK'
  BY <1>1, <1>2 DEF SessionTypeOK, storageVars
<1>4. \A d \in Clients : d # c => SameSession(d)
  BY <1>1, <1>2 DEF SessionTypeOK, SameSession
<1>5. conn'[c] = "handshake"
  BY <1>1, <1>2 DEF SessionTypeOK
<1>6. Tasks(c)' = Tasks(c) /\ Serving(c)' = Serving(c) /\ (Idling(c)' <=> Idling(c))
  BY <1>2 DEF Tasks, Serving, Idling
<1>7. Unstarted(c)'
  BY <1>1, <1>2, <1>6 DEF Unstarted
<1>8. OneThing(c)'
  BY <1>1, <1>2, <1>5, <1>6
     DEF OneThing, Simple, AtMostOne, ForLastRequest, AtLeastOne
<1>9. Polls(c)'
  BY <1>1, <1>2, <1>6 DEF Polls
<1>10. RowsExist(c)'
  BY <1>1, <1>2 DEF RowsExist, Rows, storageVars
<1>11. RowsKept => Cursor(c)'
  BY <1>1, <1>2, CursorStays
<1>12. QED
  BY <1>2, <1>3, <1>4, <1>7, <1>8, <1>9, <1>10, <1>11, SessionTyped,
     HandlerKeepsInv DEF ConnOK

\* The handshake has ended.
LEMMA HandshakeKeepsInv ==
    ASSUME SessionInv, NEW c \in Clients, processClientRequest(c)
    PROVE  SessionInv' /\ [StorageNext]_storageVars
<1>1. /\ SessionTypeOK /\ Unstarted(c) /\ OneThing(c) /\ Polls(c)
      /\ RowsExist(c) /\ Cursor(c)
  BY DEF SessionInv
<1>2. /\ conn[c] = "handshake"
      /\ \/ conn' = [conn EXCEPT ![c] = "open"]
            /\ reads' = [reads EXCEPT ![c] = @ + 1]
         \/ conn' = [conn EXCEPT ![c] = "gone"] /\ reads' = reads
      /\ UNCHANGED <<storageVars, task, queue, writes, armed, fired,
                     details, newest, pingAge, asked, notified>>
      /\ serverUnchanged
  BY DEF processClientRequest, SetConn, readCmd, serverUnchanged
<1>3. SessionTypeOK'
  <2>1. conn' \in [Clients -> {"none", "handshake", "open", "gone"}]
    BY <1>1, <1>2 DEF SessionTypeOK
  <2>2. reads' \in [Clients -> Nat]
    BY <1>1, <1>2 DEF SessionTypeOK
  <2>3. QED
    BY <1>1, <1>2, <2>1, <2>2 DEF SessionTypeOK, storageVars
<1>4. \A d \in Clients : d # c => SameSession(d)
  BY <1>1, <1>2 DEF SessionTypeOK, SameSession
<1>5. /\ \/ conn'[c] = "open" /\ reads'[c] = reads[c] + 1
         \/ conn'[c] = "gone" /\ reads'[c] = reads[c]
      /\ reads[c] = 0 /\ writes[c] = <<>> /\ Tasks(c) = {} /\ Serving(c) = {}
  <2>1. conn \in [Clients -> {"none", "handshake", "open", "gone"}]
        /\ reads \in [Clients -> Nat]
    BY <1>1 DEF SessionTypeOK
  <2>2. reads[c] = 0 /\ writes[c] = <<>> /\ Tasks(c) = {} /\ Serving(c) = {}
    BY <1>1, <1>2 DEF Unstarted
  <2>3. QED
    BY <1>2, <2>1, <2>2
<1>6. Tasks(c)' = Tasks(c) /\ Serving(c)' = Serving(c) /\ (Idling(c)' <=> Idling(c))
  BY <1>2 DEF Tasks, Serving, Idling
<1>7. Unstarted(c)'
  BY <1>5 DEF Unstarted
<1>8. OneThing(c)'
  <2>1. AtMostOne(c)' /\ AtLeastOne(c)'
    BY <1>2, <1>5, <1>6 DEF AtMostOne, AtLeastOne
  <2>2. ForLastRequest(c)'
    BY <1>2, <1>5, <1>6 DEF ForLastRequest
  <2>3. QED
    BY <2>1, <2>2 DEF OneThing
<1>9. Polls(c)'
  BY <1>1, <1>2, <1>6 DEF Polls
<1>10. RowsExist(c)'
  BY <1>1, <1>2 DEF RowsExist, Rows, storageVars
<1>11. RowsKept => Cursor(c)'
  BY <1>1, <1>2, CursorStays
<1>12. QED
  BY <1>2, <1>3, <1>4, <1>7, <1>8, <1>9, <1>10, <1>11, SessionTyped,
     HandlerKeepsInv DEF ConnOK

\* The peer leaves.
LEMMA PeerGoneKeepsInv ==
    ASSUME SessionInv, NEW c \in Clients, peerGone(c)
    PROVE  SessionInv' /\ [StorageNext]_storageVars
<1>1. /\ SessionTypeOK /\ Unstarted(c) /\ OneThing(c) /\ Polls(c)
      /\ RowsExist(c) /\ Cursor(c)
  BY DEF SessionInv
<1>2. /\ conn[c] = "open" /\ conn' = [conn EXCEPT ![c] = "gone"]
      /\ UNCHANGED <<storageVars, task, queue, writes, reads, armed, fired,
                     details, newest, pingAge, asked, notified>>
      /\ serverUnchanged
  BY DEF peerGone, SetConn, serverUnchanged
<1>3. SessionTypeOK'
  BY <1>1, <1>2 DEF SessionTypeOK, storageVars
<1>4. \A d \in Clients : d # c => SameSession(d)
  BY <1>1, <1>2 DEF SessionTypeOK, SameSession
<1>5. conn'[c] = "gone"
  BY <1>1, <1>2 DEF SessionTypeOK
<1>6. Tasks(c)' = Tasks(c) /\ Serving(c)' = Serving(c) /\ (Idling(c)' <=> Idling(c))
  BY <1>2 DEF Tasks, Serving, Idling
<1>7. Unstarted(c)'
  BY <1>5 DEF Unstarted
<1>8. OneThing(c)'
  BY <1>1, <1>2, <1>5, <1>6
     DEF OneThing, Simple, AtMostOne, ForLastRequest, AtLeastOne
<1>9. Polls(c)'
  BY <1>1, <1>2, <1>6 DEF Polls
<1>10. RowsExist(c)'
  BY <1>1, <1>2 DEF RowsExist, Rows, storageVars
<1>11. RowsKept => Cursor(c)'
  BY <1>1, <1>2, CursorStays
<1>12. QED
  BY <1>2, <1>3, <1>4, <1>7, <1>8, <1>9, <1>10, <1>11, SessionTyped,
     HandlerKeepsInv DEF ConnOK

\* A read fails, and nothing is started.
LEMMA ReadFailedKeepsInv ==
    ASSUME SessionInv, NEW c \in Clients, readFailed(c)
    PROVE  SessionInv' /\ [StorageNext]_storageVars
<1>1. /\ SessionTypeOK /\ Unstarted(c) /\ OneThing(c) /\ Polls(c)
      /\ RowsExist(c) /\ Cursor(c)
  BY DEF SessionInv
<1>2. /\ conn[c] = "gone" /\ reads[c] > 0 /\ reads' = [reads EXCEPT ![c] = @ - 1]
      /\ UNCHANGED <<storageVars, task, queue, writes, conn, armed, fired,
                     details, newest, pingAge, asked, notified>>
      /\ serverUnchanged
  BY DEF readFailed, serverUnchanged
<1>3. SessionTypeOK'
  <2>1. reads' \in [Clients -> Nat]
    BY <1>1, <1>2 DEF SessionTypeOK
  <2>2. QED
    BY <1>1, <1>2, <2>1 DEF SessionTypeOK, storageVars
<1>4. \A d \in Clients : d # c => SameSession(d)
  BY <1>1, <1>2 DEF SessionTypeOK, SameSession
<1>5. reads'[c] = reads[c] - 1 /\ reads[c] \in Nat
  BY <1>1, <1>2 DEF SessionTypeOK
<1>6. Tasks(c)' = Tasks(c) /\ Serving(c)' = Serving(c) /\ (Idling(c)' <=> Idling(c))
  BY <1>2 DEF Tasks, Serving, Idling
<1>7. Unstarted(c)'
  BY <1>2 DEF Unstarted
<1>8. OneThing(c)'
  <2>1. Simple(c)' <=> Simple(c)
    BY <1>2, <1>6 DEF Simple
  <2>2. AtMostOne(c) => AtMostOne(c)'
    BY <1>2, <1>5, <1>6 DEF AtMostOne
  <2>3. ForLastRequest(c) => ForLastRequest(c)'
    BY <1>2, <1>6 DEF ForLastRequest
  <2>4. AtLeastOne(c)'
    BY <1>2 DEF AtLeastOne
  <2>5. QED
    BY <1>1, <2>1, <2>2, <2>3, <2>4 DEF OneThing
<1>9. Polls(c)'
  BY <1>1, <1>2, <1>6 DEF Polls
<1>10. RowsExist(c)'
  BY <1>1, <1>2 DEF RowsExist, Rows, storageVars
<1>11. RowsKept => Cursor(c)'
  BY <1>1, <1>2, CursorStays
<1>12. QED
  BY <1>2, <1>3, <1>4, <1>7, <1>8, <1>9, <1>10, <1>11, SessionTyped,
     HandlerKeepsInv DEF ConnOK

\* What parse_meta leaves is of the types of Params, and its ts is the one of
\* the request or the one that was there.
LEMMA MetaTyped ==
    ASSUME NEW old \in Params, NEW q \in Request
    PROVE  LET meta == [f \in DOMAIN q.params |->
                          IF f \in q.given THEN q.params[f] ELSE old[f]]
           IN  meta \in Params /\ meta.ts \in {q.params.ts, old.ts}
<1>1. PICK new \in Params : new = q.params
  BY DEF Request
<1>2. PICK given : given = q.given
  OBVIOUS
<1>3. PICK meta : meta = [f \in DOMAIN new |-> IF f \in given THEN new[f] ELSE old[f]]
  OBVIOUS
<1>4. meta \in Params
  BY <1>3 DEF Params
<1>5. meta.ts \in {new.ts, old.ts}
  BY <1>3 DEF Params
<1>6. QED
  BY <1>1, <1>2, <1>3, <1>4, <1>5

\* The part of readRequest that is the same for all requests.
TakesRequest(c) ==
    /\ conn[c] = "open" /\ reads[c] > 0 /\ asked[c] < MaxRequests
    /\ reads' = [reads EXCEPT ![c] = @ - 1]
    /\ asked' = [asked EXCEPT ![c] = @ + 1]
    /\ serverUnchanged
    /\ UNCHANGED <<conn, fired, newest, pingAge, notified>>

LEMMA DetailsSet ==
    ASSUME SessionInv, NEW c \in Clients, NEW q \in Requests[c], SetDetails(c, q)
    PROVE  /\ details' \in [Clients -> [cmd : Commands \cup {"none"}, params : Params]]
           /\ details'[c].cmd = q.cmd
           /\ details'[c].params \in Params
           /\ details'[c].params.ts \in {q.params.ts, details[c].params.ts}
           /\ \A d \in Clients : d # c => details'[d] = details[d]
<1>1. details \in [Clients -> [cmd : Commands \cup {"none"}, params : Params]]
  BY DEF SessionInv, SessionTypeOK
<1>2. q \in Request /\ q.cmd \in Commands \cup {"none"}
  BY SessionAssumption DEF Request
<1>3. PICK old \in Params : old = details[c].params
  BY <1>1
<1>4. PICK meta : meta = parse_meta(c, q)
  OBVIOUS
<1>5. meta \in Params /\ meta.ts \in {q.params.ts, old.ts}
  BY <1>2, <1>3, <1>4, MetaTyped DEF parse_meta
<1>6. details' = [details EXCEPT ![c] = [cmd |-> q.cmd, params |-> meta]]
  BY <1>4 DEF SetDetails
<1>7. QED
  BY <1>1, <1>2, <1>3, <1>5, <1>6

\* Whatever the request, the counters keep their types, the other connections
\* are left alone and the cursor stays or is the one asked for.
LEMMA TakesRequestFrame ==
    ASSUME SessionInv, NEW c \in Clients, NEW q \in Requests[c], TakesRequest(c),
           details' = details \/ SetDetails(c, q),
           armed' = armed \/ armed' = [armed EXCEPT ![c] = TRUE]
    PROVE  /\ SessionTypeOK'
           /\ \A d \in Clients : d # c => SameSession(d)
           /\ RowsKept => Cursor(c)'
<1>1. SessionTypeOK /\ Cursor(c)
  BY DEF SessionInv
<1>2. details' \in [Clients -> [cmd : Commands \cup {"none"}, params : Params]]
      /\ \A d \in Clients : d # c => details'[d] = details[d]
  BY <1>1, DetailsSet DEF SessionTypeOK
<1>3. reads' \in [Clients -> Nat] /\ \A d \in Clients : d # c => reads'[d] = reads[d]
  BY <1>1 DEF TakesRequest, SessionTypeOK
<1>4. asked' \in [Clients -> 0 .. MaxRequests]
  <2>1. asked[c] \in 0 .. MaxRequests /\ MaxRequests \in Nat
    BY <1>1, SessionAssumption DEF SessionTypeOK
  <2>2. asked[c] + 1 \in 0 .. MaxRequests
    BY <2>1 DEF TakesRequest
  <2>3. QED
    BY <1>1, <2>2 DEF TakesRequest, SessionTypeOK
<1>5. armed' \in [Clients -> BOOLEAN] /\ \A d \in Clients : d # c => armed'[d] = armed[d]
  BY <1>1 DEF SessionTypeOK
<1>6. /\ UNCHANGED <<conn, fired, newest, pingAge, notified, messages>>
  BY DEF TakesRequest, serverUnchanged, storageVars
<1>7. SessionTypeOK'
  BY <1>1, <1>2, <1>3, <1>4, <1>5, <1>6 DEF SessionTypeOK
<1>8. \A d \in Clients : d # c => SameSession(d)
  BY <1>2, <1>3, <1>5, <1>6 DEF SameSession
<1>9. ASSUME RowsKept PROVE Cursor(c)'
  <2>1. PICK ts : ts = details'[c].params.ts
    OBVIOUS
  <2>2. ts \in {q.params.ts, details[c].params.ts}
    BY <2>1, DetailsSet
  <2>3. CASE ts = details[c].params.ts
    BY <1>1, <1>6, <1>9, <2>1, <2>3, CursorStays
  <2>4. CASE ts = q.params.ts
    <3>1. Sent(c, newest[c])'
      BY <1>1, <1>6 DEF Cursor, Sent
    <3>2. QED
      BY <2>1, <2>4, <3>1 DEF Cursor
  <2>5. QED
    BY <2>2, <2>3, <2>4
<1>10. QED
  BY <1>7, <1>8, <1>9

\* A request that is refused at once.
LEMMA BadRequestKeepsInv ==
    ASSUME SessionInv, NEW c \in Clients, NEW q \in Requests[c],
           TakesRequest(c), handleBadRequest(c, q)
    PROVE  SessionInv' /\ [StorageNext]_storageVars
<1>1. /\ SessionTypeOK /\ OneThing(c) /\ Polls(c) /\ RowsExist(c)
      /\ writes \in [Clients -> Seq(Response)]
  BY SessionTyped DEF SessionInv
<1>2. /\ details' = details \/ (q.cmd # "none" /\ SetDetails(c, q))
      /\ writes' = [writes EXCEPT ![c] = Append(@, Plain("cmd", "bad request"))]
      /\ queue' = queue /\ armed' = armed
  BY DEF handleBadRequest, StartWrite
<1>3. /\ UNCHANGED <<task, messages, conn, fired>> /\ serverUnchanged
      /\ conn[c] = "open" /\ reads' = [reads EXCEPT ![c] = @ - 1] /\ reads[c] > 0
  BY DEF TakesRequest, serverUnchanged, storageVars
<1>4. /\ SessionTypeOK' /\ (\A d \in Clients : d # c => SameSession(d))
      /\ RowsKept => Cursor(c)'
  BY <1>2, TakesRequestFrame
<1>5. PICK a \in Response : a = Plain("cmd", "bad request")
  BY AnswersTyped DEF Statuses
<1>6. Rows(a) = {} /\ a.handler = "cmd"
  BY <1>5 DEF Rows, Plain
<1>7. PICK old \in Seq(Response) : old = writes[c]
  BY <1>1
<1>8. writes'[c] = Append(old, a) /\ \A d \in Clients : d # c => writes'[d] = writes[d]
  BY <1>1, <1>2, <1>5, <1>7
<1>9. writes' \in [Clients -> Seq(Response)]
  <2>1. Append(old, a) \in Seq(Response)
    OBVIOUS
  <2>2. QED
    BY <1>1, <1>2, <1>5, <1>7, <2>1
<1>10. /\ DOMAIN writes'[c] = DOMAIN old \cup {Len(old) + 1}
       /\ writes'[c][Len(old) + 1] = a
       /\ \A k \in DOMAIN old : writes'[c][k] = old[k]
  BY <1>8
<1>11. Tasks(c)' = Tasks(c) /\ Serving(c)' = Serving(c) /\ (Idling(c)' <=> Idling(c))
  BY <1>2, <1>3 DEF Tasks, Serving, Idling
<1>12. Unstarted(c)'
  BY <1>3 DEF Unstarted
<1>13. OneThing(c)'
  <2>1. SUFFICES ASSUME Simple(c)' PROVE AtMostOne(c)' /\ ForLastRequest(c)' /\ AtLeastOne(c)'
    BY DEF OneThing
  <2>2. AtMostOne(c)
    BY <1>1, <1>3, <1>11, <2>1 DEF OneThing, Simple
  <2>3. reads[c] = 1 /\ Tasks(c) = {} /\ Serving(c) = {} /\ old = <<>>
    BY <1>3, <1>7, <2>2 DEF AtMostOne
  <2>4. reads'[c] = 0
    BY <1>1, <1>3, <2>3 DEF SessionTypeOK
  <2>5. writes'[c] = <<a>>
    BY <1>8, <2>3
  <2>6. Len(writes'[c]) = 1 /\ writes'[c] # <<>>
        /\ \A k \in DOMAIN writes'[c] : writes'[c][k] = a
    BY <2>5
  <2>7. AtMostOne(c)'
    BY <1>11, <2>3, <2>4, <2>6 DEF AtMostOne
  <2>8. ForLastRequest(c)'
    BY <1>6, <1>11, <2>3, <2>6 DEF ForLastRequest
  <2>9. QED
    BY <2>6, <2>7, <2>8 DEF AtLeastOne
<1>14. Polls(c)'
  BY <1>1, <1>2, <1>11, DetailsSet DEF Polls
<1>15. RowsExist(c)'
  <2>1. \A k \in DOMAIN old : Rows(old[k]) \subseteq DOMAIN messages'
    BY <1>1, <1>3, <1>7 DEF RowsExist
  <2>2. \A k \in DOMAIN writes'[c] : Rows(writes'[c][k]) \subseteq DOMAIN messages'
    BY <1>6, <1>10, <2>1
  <2>3. QED
    BY <2>2 DEF RowsExist, Rows
<1>16. QED
  BY <1>2, <1>3, <1>4, <1>8, <1>9, <1>12, <1>13, <1>14, <1>15, HandlerKeepsInv
     DEF ConnOK

\* A request that becomes a task.
LEMMA CommandKeepsInv ==
    ASSUME SessionInv, NEW c \in Clients, NEW q \in Requests[c],
           TakesRequest(c), handleCommand(c, q)
    PROVE  SessionInv' /\ [StorageNext]_storageVars
<1>1. /\ SessionTypeOK /\ OneThing(c) /\ Polls(c) /\ RowsExist(c)
      /\ writes \in [Clients -> Seq(Response)] /\ queue \in Seq(Task)
  BY SessionTyped DEF SessionInv
<1>2. /\ SetDetails(c, q) /\ q.valid /\ q.cmd # "IDLE"
      /\ queue' = Append(queue, TaskOf(c, details'[c], FALSE))
      /\ writes' = writes /\ armed' = armed
  BY DEF handleCommand, putTask
<1>3. /\ UNCHANGED <<task, messages, conn, fired>> /\ serverUnchanged
      /\ conn[c] = "open" /\ reads' = [reads EXCEPT ![c] = @ - 1] /\ reads[c] > 0
  BY DEF TakesRequest, serverUnchanged, storageVars
<1>4. /\ SessionTypeOK' /\ (\A d \in Clients : d # c => SameSession(d))
      /\ RowsKept => Cursor(c)'
  BY <1>2, TakesRequestFrame
<1>5. q.cmd \in Commands
  BY <1>2, SessionAssumption DEF Request
<1>6. PICK t : t = TaskOf(c, details'[c], FALSE)
  OBVIOUS
<1>7. t \in Task /\ t.client = c /\ t.cmd = q.cmd /\ details'[c].cmd = q.cmd
  BY <1>2, <1>5, <1>6, DetailsSet DEF TaskOf, Task
<1>8. queue' = Append(queue, t)
  BY <1>2, <1>6
<1>9. /\ DOMAIN queue' = DOMAIN queue \cup {Len(queue) + 1}
      /\ queue'[Len(queue) + 1] = t
      /\ \A k \in DOMAIN queue : queue'[k] = queue[k]
  BY <1>1, <1>8
<1>10. Tasks(c)' = Tasks(c) \cup {Len(queue) + 1}
  BY <1>7, <1>9 DEF Tasks
<1>11. Serving(c)' = Serving(c) /\ (Idling(c)' <=> Idling(c))
  BY <1>2, <1>3 DEF Serving, Idling
<1>12. Unstarted(c)'
  BY <1>3 DEF Unstarted
<1>13. OneThing(c)'
  <2>1. SUFFICES ASSUME Simple(c)' PROVE AtMostOne(c)' /\ ForLastRequest(c)' /\ AtLeastOne(c)'
    BY DEF OneThing
  <2>2. AtMostOne(c)
    BY <1>1, <1>3, <1>11, <2>1 DEF OneThing, Simple
  <2>3. reads[c] = 1 /\ Tasks(c) = {} /\ Serving(c) = {} /\ writes[c] = <<>>
    BY <1>3, <2>2 DEF AtMostOne
  <2>4. reads'[c] = 0
    BY <1>1, <1>3, <2>3 DEF SessionTypeOK
  <2>5. Len(writes'[c]) <= 1 /\ writes'[c] = <<>> /\ DOMAIN writes'[c] = {}
    BY <1>2, <2>3
  <2>6. AtMostOne(c)'
    BY <1>10, <1>11, <2>3, <2>4, <2>5 DEF AtMostOne
  <2>7. ForLastRequest(c)'
    <3>1. \A k \in Tasks(c)' : queue'[k].cmd = q.cmd
      BY <1>7, <1>9, <1>10, <2>3
    <3>2. (\A w \in Serving(c)' : FALSE) /\ (\A k \in DOMAIN writes'[c] : FALSE)
      BY <1>11, <2>3, <2>5
    <3>3. QED
      BY <1>2, <1>7, <3>1, <3>2 DEF ForLastRequest
  <2>8. QED
    BY <1>10, <2>6, <2>7 DEF AtLeastOne
<1>14. Polls(c)'
  BY <1>1, <1>5, <1>7, <1>11 DEF Polls, Commands
<1>15. RowsExist(c)'
  BY <1>1, <1>2, <1>3 DEF RowsExist, Rows
<1>16. \A d \in Clients : writes'[d] = writes[d]
  BY <1>2
<1>17. QED
  BY <1>1, <1>2, <1>3, <1>4, <1>7, <1>8, <1>12, <1>13, <1>14, <1>15, <1>16,
     HandlerKeepsInv DEF ConnOK

\* The request that starts the polling.
LEMMA IdleKeepsInv ==
    ASSUME SessionInv, NEW c \in Clients, NEW q \in Requests[c],
           TakesRequest(c), handleIdle(c, q)
    PROVE  SessionInv' /\ [StorageNext]_storageVars
<1>1. /\ SessionTypeOK /\ RowsExist(c) /\ writes \in [Clients -> Seq(Response)]
  BY SessionTyped DEF SessionInv
<1>2. /\ SetDetails(c, q) /\ q.cmd = "IDLE"
      /\ writes' = [writes EXCEPT ![c] = Append(@, Plain("ack", "ok"))]
      /\ armed' = [armed EXCEPT ![c] = TRUE] /\ queue' = queue
  BY DEF handleIdle, StartWrite
<1>3. /\ UNCHANGED <<task, messages, conn, fired>> /\ serverUnchanged
      /\ conn[c] = "open"
  BY DEF TakesRequest, serverUnchanged, storageVars
<1>4. /\ SessionTypeOK' /\ (\A d \in Clients : d # c => SameSession(d))
      /\ RowsKept => Cursor(c)'
  BY <1>2, TakesRequestFrame
<1>5. PICK a \in Response : a = Plain("ack", "ok")
  BY AnswersTyped DEF Statuses
<1>6. Rows(a) = {}
  BY <1>5 DEF Rows, Plain
<1>7. PICK old \in Seq(Response) : old = writes[c]
  BY <1>1
<1>8. writes'[c] = Append(old, a) /\ \A d \in Clients : d # c => writes'[d] = writes[d]
  BY <1>1, <1>2, <1>5, <1>7
<1>9. writes' \in [Clients -> Seq(Response)]
  <2>1. Append(old, a) \in Seq(Response)
    OBVIOUS
  <2>2. QED
    BY <1>1, <1>2, <1>5, <1>7, <2>1
<1>10. /\ DOMAIN writes'[c] = DOMAIN old \cup {Len(old) + 1}
       /\ writes'[c][Len(old) + 1] = a
       /\ \A k \in DOMAIN old : writes'[c][k] = old[k]
  BY <1>8
<1>11. Idling(c)'
  BY <1>1, <1>2 DEF Idling, SessionTypeOK
<1>12. Unstarted(c)' /\ OneThing(c)'
  BY <1>3, <1>11 DEF Unstarted, OneThing, Simple
<1>13. Polls(c)'
  BY <1>2, DetailsSet DEF Polls, NeverIdles
<1>14. RowsExist(c)'
  <2>1. \A k \in DOMAIN old : Rows(old[k]) \subseteq DOMAIN messages'
    BY <1>1, <1>3, <1>7 DEF RowsExist
  <2>2. \A k \in DOMAIN writes'[c] : Rows(writes'[c][k]) \subseteq DOMAIN messages'
    BY <1>6, <1>10, <2>1
  <2>3. QED
    BY <2>2 DEF RowsExist, Rows
<1>15. QED
  BY <1>2, <1>3, <1>4, <1>8, <1>9, <1>12, <1>13, <1>14, HandlerKeepsInv
     DEF ConnOK

\* A request is read.
LEMMA ReadRequestKeepsInv ==
    ASSUME SessionInv, NEW c \in Clients, readRequest(c)
    PROVE  SessionInv' /\ [StorageNext]_storageVars
<1>1. TakesRequest(c)
  BY DEF readRequest, TakesRequest
<1>2. PICK q \in Requests[c] :
        handleBadRequest(c, q) \/ handleCommand(c, q) \/ handleIdle(c, q)
  BY DEF readRequest
<1>3. QED
  BY <1>1, <1>2, BadRequestKeepsInv, CommandKeepsInv, IdleKeepsInv

\* A write of the connection is completed: what does not depend on the handler.
LEMMA WriteDoneFrame ==
    ASSUME SessionInv, NEW c \in Clients, conn[c] \in {"open", "gone"}, WriteDone(c)
    PROVE  /\ writes' \in [Clients -> Seq(Response)]
           /\ \A d \in Clients : d # c => writes'[d] = writes[d]
           /\ writes[c] # <<>> /\ 1 \in DOMAIN writes[c] /\ Head(writes[c]) = writes[c][1]
           /\ Len(writes[c]) <= 1 => writes'[c] = <<>>
           /\ Rows(Head(writes[c])) \subseteq DOMAIN messages
           /\ RowsExist(c)' /\ Unstarted(c)'
           /\ Tasks(c)' = Tasks(c) /\ Serving(c)' = Serving(c)
<1>1. RowsExist(c) /\ writes \in [Clients -> Seq(Response)]
  BY SessionTyped DEF SessionInv
<1>2. /\ writes[c] # <<>> /\ writes' = [writes EXCEPT ![c] = Tail(@)]
      /\ UNCHANGED <<queue, conn, task, messages>>
  BY DEF WriteDone, serverUnchanged, storageVars
<1>3. PICK old \in Seq(Response) : old = writes[c]
  BY <1>1
<1>4. old # <<>> /\ Tail(old) \in Seq(Response) /\ 1 \in DOMAIN old
      /\ Head(old) = old[1]
  BY <1>2, <1>3
<1>5. writes'[c] = Tail(old) /\ \A d \in Clients : d # c => writes'[d] = writes[d]
  BY <1>1, <1>2, <1>3
<1>6. writes' \in [Clients -> Seq(Response)]
  BY <1>1, <1>2, <1>3, <1>4
<1>7. Len(old) <= 1 => Tail(old) = <<>>
  <2>1. Len(old) \in Nat /\ Len(old) # 0 /\ Len(Tail(old)) = Len(old) - 1
    BY <1>4
  <2>2. PICK last \in Seq(Response) : last = Tail(old)
    BY <1>4
  <2>3. Len(last) = 0 => last = <<>>
    OBVIOUS
  <2>4. Len(old) <= 1 => Len(last) = 0
    BY <2>1, <2>2
  <2>5. QED
    BY <2>2, <2>3, <2>4
<1>8. /\ DOMAIN Tail(old) = 1 .. Len(old) - 1
      /\ \A k \in DOMAIN Tail(old) : k + 1 \in DOMAIN old /\ Tail(old)[k] = old[k + 1]
  BY <1>4
<1>9. \A k \in DOMAIN old : Rows(old[k]) \subseteq DOMAIN messages
  BY <1>1, <1>3 DEF RowsExist
<1>10. RowsExist(c)'
  <2>1. \A k \in DOMAIN writes'[c] : k + 1 \in DOMAIN old /\ writes'[c][k] = old[k + 1]
    BY <1>5, <1>8
  <2>2. \A k \in DOMAIN writes'[c] : Rows(writes'[c][k]) \subseteq DOMAIN messages'
    BY <1>2, <1>9, <2>1
  <2>3. QED
    BY <2>2 DEF RowsExist, Rows
<1>11. Unstarted(c)'
  BY <1>2 DEF Unstarted
<1>12. Tasks(c)' = Tasks(c) /\ Serving(c)' = Serving(c)
  BY <1>2 DEF Tasks, Serving
<1>13. QED
  BY <1>3, <1>4, <1>5, <1>6, <1>7, <1>9, <1>10, <1>11, <1>12

\* The answer to a command has been written: the next request is read.
LEMMA CommandWroteKeepsInv ==
    ASSUME SessionInv, NEW c \in Clients, conn[c] \in {"open", "gone"},
           WriteDone(c), commandWrote(c)
    PROVE  SessionInv' /\ [StorageNext]_storageVars
<1>1. SessionTypeOK /\ OneThing(c) /\ Polls(c) /\ Cursor(c)
  BY DEF SessionInv
<1>2. /\ serverUnchanged /\ reads' = [reads EXCEPT ![c] = @ + 1]
      /\ UNCHANGED <<queue, conn, fired, details, pingAge, asked, armed, newest,
                     notified, messages>>
  BY DEF WriteDone, commandWrote, readCmd, serverUnchanged, storageVars
<1>3. SessionTypeOK'
  <2>1. reads' \in [Clients -> Nat]
    BY <1>1, <1>2 DEF SessionTypeOK
  <2>2. QED
    BY <1>1, <1>2, <2>1 DEF SessionTypeOK
<1>4. \A d \in Clients : d # c => SameSession(d)
  BY <1>1, <1>2 DEF SessionTypeOK, SameSession
<1>5. OneThing(c)'
  <2>1. SUFFICES ASSUME Simple(c)'
                 PROVE  AtMostOne(c)' /\ ForLastRequest(c)' /\ AtLeastOne(c)'
    BY DEF OneThing
  <2>2. AtMostOne(c)
    BY <1>1, <1>2, <2>1 DEF OneThing, Simple, Idling
  <2>3. /\ Tasks(c)' = {} /\ Serving(c)' = {} /\ writes'[c] = <<>> /\ reads[c] = 0
    BY <2>2, WriteDoneFrame DEF AtMostOne
  <2>4. reads'[c] = 1
    BY <1>1, <1>2, <2>3 DEF SessionTypeOK
  <2>5. Len(writes'[c]) <= 1 /\ DOMAIN writes'[c] = {}
    BY <2>3
  <2>6. QED
    BY <2>3, <2>4, <2>5 DEF AtMostOne, ForLastRequest, AtLeastOne
<1>6. Polls(c)'
  BY <1>1, <1>2 DEF Polls, Idling
<1>7. RowsKept => Cursor(c)'
  BY <1>1, <1>2, CursorStays
<1>8. QED
  BY <1>2, <1>3, <1>4, <1>5, <1>6, <1>7, WriteDoneFrame, HandlerKeepsInv DEF ConnOK

\* Only a connection that polls has other writes than the answer to a command.
LEMMA OtherWritePolls ==
    ASSUME SessionInv, NEW c \in Clients, conn[c] \in {"open", "gone"}, WriteDone(c),
           Head(writes[c]).handler # "cmd"
    PROVE  ~Simple(c)
BY WriteDoneFrame DEF SessionInv, OneThing, ForLastRequest

\* The acknowledgement of IDLE has been written.
LEMMA AckWroteKeepsInv ==
    ASSUME SessionInv, NEW c \in Clients, conn[c] \in {"open", "gone"},
           WriteDone(c), ackWrote(c)
    PROVE  SessionInv' /\ [StorageNext]_storageVars
<1>1. SessionTypeOK /\ Polls(c) /\ Cursor(c)
  BY DEF SessionInv
<1>2. /\ serverUnchanged /\ Head(writes[c]).handler = "ack"
      /\ UNCHANGED <<queue, conn, fired, details, pingAge, asked, armed, newest,
                     notified, messages, reads>>
  BY DEF WriteDone, ackWrote, serverUnchanged, storageVars
<1>3. SessionTypeOK'
  BY <1>1, <1>2 DEF SessionTypeOK
<1>4. \A d \in Clients : d # c => SameSession(d)
  BY <1>2 DEF SameSession
<1>5. OneThing(c)'
  BY <1>2, OtherWritePolls DEF OneThing, Simple, Idling
<1>6. Polls(c)'
  BY <1>1, <1>2 DEF Polls, Idling
<1>7. RowsKept => Cursor(c)'
  BY <1>1, <1>2, CursorStays
<1>8. QED
  BY <1>2, <1>3, <1>4, <1>5, <1>6, <1>7, WriteDoneFrame, HandlerKeepsInv DEF ConnOK

\* Messages, or a ping, have been written to an idle connection.
LEMMA IdleWroteKeepsInv ==
    ASSUME SessionInv, NEW c \in Clients, conn[c] \in {"open", "gone"},
           WriteDone(c), idleWrote(c)
    PROVE  SessionInv' /\ [StorageNext]_storageVars
<1>1. SessionTypeOK /\ Polls(c) /\ Cursor(c) /\ StorageTypeOK
  BY SessionTyped DEF SessionInv
<1>2. PICK a : a = Head(writes[c])
  OBVIOUS
<1>3. /\ serverUnchanged /\ a.handler = "idle"
      /\ newest' = [newest EXCEPT ![c] = max_timestamp(a)]
      /\ notified' = [notified EXCEPT ![c] = @ \cup Rows(a)]
      /\ UNCHANGED <<queue, conn, fired, details, pingAge, asked, armed, messages,
                     reads>>
  BY <1>2 DEF WriteDone, idleWrote, serverUnchanged, storageVars
<1>4. /\ max_timestamp(a) \in Time
      /\ \/ max_timestamp(a) = 0
         \/ \E i \in Rows(a) : messages[i].ts = max_timestamp(a)
      /\ Rows(a) \subseteq DOMAIN messages
  BY <1>1, <1>2, WriteDoneFrame, MaxTimestamp
<1>5. PICK ts \in Time : ts = max_timestamp(a)
  BY <1>4
<1>6. PICK rows : rows = Rows(a)
  OBVIOUS
<1>7. /\ newest' \in [Clients -> Time] /\ newest'[c] = ts
      /\ notified' \in [Clients -> SUBSET DOMAIN messages]
      /\ notified'[c] = notified[c] \cup rows
      /\ \A d \in Clients : d # c => newest'[d] = newest[d] /\ notified'[d] = notified[d]
  <2>1. rows \subseteq DOMAIN messages
    BY <1>4, <1>6
  <2>2. newest' = [newest EXCEPT ![c] = ts] /\ newest \in [Clients -> Time]
    BY <1>1, <1>3, <1>5 DEF SessionTypeOK
  <2>3. notified' = [notified EXCEPT ![c] = @ \cup rows]
        /\ notified \in [Clients -> SUBSET DOMAIN messages]
    BY <1>1, <1>3, <1>6 DEF SessionTypeOK
  <2>4. newest' \in [Clients -> Time] /\ newest'[c] = ts
        /\ \A d \in Clients : d # c => newest'[d] = newest[d]
    BY <2>2
  <2>5. notified' \in [Clients -> SUBSET DOMAIN messages]
        /\ notified'[c] = notified[c] \cup rows
        /\ \A d \in Clients : d # c => notified'[d] = notified[d]
    BY <2>1, <2>3
  <2>6. QED
    BY <2>4, <2>5
<1>8. SessionTypeOK'
  BY <1>1, <1>3, <1>7 DEF SessionTypeOK
<1>9. \A d \in Clients : d # c => SameSession(d)
  BY <1>3, <1>7 DEF SameSession
<1>10. OneThing(c)'
  BY <1>2, <1>3, OtherWritePolls DEF OneThing, Simple, Idling
<1>11. Polls(c)'
  BY <1>1, <1>3 DEF Polls, Idling
<1>12. Cursor(c)'
  <2>1. ASSUME NEW x, Sent(c, x) PROVE Sent(c, x)'
    BY <1>3, <1>7, <2>1 DEF Sent
  <2>2. Sent(c, ts)'
    BY <1>3, <1>4, <1>5, <1>6, <1>7 DEF Sent
  <2>3. PICK x : x = details[c].params.ts
    OBVIOUS
  <2>4. Sent(c, x)' \/ \E q \in Requests[c] : q.params.ts = x
    BY <1>1, <2>1, <2>3 DEF Cursor
  <2>5. newest'[c] = ts /\ details'[c].params.ts = x
    BY <1>3, <1>7, <2>3
  <2>6. QED
    BY <2>2, <2>4, <2>5 DEF Cursor
<1>13. QED
  BY <1>3, <1>8, <1>9, <1>10, <1>11, <1>12, WriteDoneFrame, HandlerKeepsInv
     DEF ConnOK

\* Messages, or a ping, could not be written: the peer has left.
LEMMA IdleWriteFailedKeepsInv ==
    ASSUME SessionInv, NEW c \in Clients, conn[c] = "gone",
           WriteDone(c), idleWriteFailed(c)
    PROVE  SessionInv' /\ [StorageNext]_storageVars
<1>1. SessionTypeOK /\ Polls(c) /\ Cursor(c)
  BY DEF SessionInv
<1>2. /\ serverUnchanged /\ Head(writes[c]).handler = "idle"
      /\ armed' = [armed EXCEPT ![c] = FALSE]
      /\ UNCHANGED <<queue, conn, fired, details, pingAge, asked, newest,
                     notified, messages, reads>>
  BY DEF WriteDone, idleWriteFailed, serverUnchanged, storageVars
<1>3. armed' \in [Clients -> BOOLEAN] /\ armed'[c] = FALSE
      /\ \A d \in Clients : d # c => armed'[d] = armed[d]
  BY <1>1, <1>2 DEF SessionTypeOK
<1>4. SessionTypeOK'
  BY <1>1, <1>2, <1>3 DEF SessionTypeOK
<1>5. \A d \in Clients : d # c => SameSession(d)
  BY <1>2, <1>3 DEF SameSession
<1>6. ~NeverIdles(c)
  BY <1>1, <1>2, OtherWritePolls DEF Simple, Polls
<1>7. OneThing(c)'
  BY <1>2, <1>6 DEF OneThing, Simple
<1>8. Polls(c)'
  BY <1>1, <1>2, <1>3 DEF Polls, Idling
<1>9. RowsKept => Cursor(c)'
  BY <1>1, <1>2, CursorStays
<1>10. QED
  BY <1>2, <1>4, <1>5, <1>7, <1>8, <1>9, WriteDoneFrame, HandlerKeepsInv DEF ConnOK

\* A write is completed, with or without an error.
LEMMA WriteKeepsInv ==
    ASSUME SessionInv, NEW c \in Clients, writeSucceeded(c) \/ writeFailed(c)
    PROVE  SessionInv' /\ [StorageNext]_storageVars
BY CommandWroteKeepsInv, AckWroteKeepsInv, IdleWroteKeepsInv,
   IdleWriteFailedKeepsInv DEF writeSucceeded, writeFailed

\* 200 ms have passed.
LEMMA TimerExpiresKeepsInv ==
    ASSUME SessionInv, NEW c \in Clients, timerExpires(c)
    PROVE  SessionInv' /\ [StorageNext]_storageVars
<1>1. /\ SessionTypeOK /\ Unstarted(c) /\ Polls(c) /\ RowsExist(c) /\ Cursor(c)
      /\ writes \in [Clients -> Seq(Response)]
  BY SessionTyped DEF SessionInv
<1>2. /\ serverUnchanged /\ armed[c]
      /\ armed' = [armed EXCEPT ![c] = FALSE]
      /\ fired' = [fired EXCEPT ![c] = @ + 1]
      /\ UNCHANGED <<queue, writes, conn, reads, details, newest, pingAge, asked,
                     notified, messages>>
  BY DEF timerExpires, serverUnchanged, storageVars
<1>3. armed' \in [Clients -> BOOLEAN]
      /\ \A d \in Clients : d # c => armed'[d] = armed[d]
  BY <1>1, <1>2 DEF SessionTypeOK
<1>4. fired' \in [Clients -> Nat] /\ fired'[c] > 0
      /\ \A d \in Clients : d # c => fired'[d] = fired[d]
  BY <1>1, <1>2 DEF SessionTypeOK
<1>5. SessionTypeOK'
  BY <1>1, <1>2, <1>3, <1>4 DEF SessionTypeOK
<1>6. \A d \in Clients : d # c => SameSession(d)
  BY <1>2, <1>3, <1>4 DEF SameSession
<1>7. Idling(c) /\ Idling(c)'
  BY <1>2, <1>4 DEF Idling
<1>8. Unstarted(c)' /\ OneThing(c)' /\ Polls(c)' /\ RowsExist(c)'
  BY <1>1, <1>2, <1>7 DEF Unstarted, OneThing, Simple, Polls, RowsExist, Rows
<1>9. RowsKept => Cursor(c)'
  BY <1>1, <1>2, CursorStays
<1>10. QED
  BY <1>1, <1>2, <1>5, <1>6, <1>8, <1>9, HandlerKeepsInv DEF ConnOK

\* The handler of the timer puts a poll and starts the timer again.
LEMMA TimerHandlerKeepsInv ==
    ASSUME SessionInv, NEW c \in Clients, timerWaitTaskResultHandler(c)
    PROVE  SessionInv' /\ [StorageNext]_storageVars
<1>1. /\ SessionTypeOK /\ Unstarted(c) /\ Polls(c) /\ RowsExist(c) /\ Cursor(c)
      /\ writes \in [Clients -> Seq(Response)]
  BY SessionTyped DEF SessionInv
<1>2. PICK ping : ping = (pingAge[c] > PingPeriod)
  OBVIOUS
<1>3. /\ serverUnchanged /\ fired[c] > 0
      /\ fired' = [fired EXCEPT ![c] = @ - 1]
      /\ details' = [details EXCEPT
                       ![c].params.ts = IF newest[c] > @ THEN newest[c] ELSE @]
      /\ pingAge' = [pingAge EXCEPT ![c] = IF ping THEN 0 ELSE @]
      /\ queue' = Append(queue, TaskOf(c, details'[c], ping))
      /\ armed' = [armed EXCEPT ![c] = TRUE]
      /\ UNCHANGED <<writes, conn, reads, newest, asked, notified, messages>>
  BY <1>2 DEF timerWaitTaskResultHandler, serverUnchanged, storageVars, putTask
<1>4. PICK d0 \in [cmd : Commands \cup {"none"}, params : Params] : d0 = details[c]
  BY <1>1 DEF SessionTypeOK
<1>5. PICK new \in Time : new = newest[c]
  BY <1>1 DEF SessionTypeOK
<1>6. PICK ts \in Time : ts \in {new, d0.params.ts} /\ d0.params.ts \in Time
                         /\ ts = IF new > d0.params.ts THEN new ELSE d0.params.ts
  BY DEF Params
<1>7. PICK d1 : d1 = [d0 EXCEPT !.params.ts = ts]
  OBVIOUS
<1>8. d1 \in [cmd : Commands \cup {"none"}, params : Params]
      /\ d1.cmd = d0.cmd /\ d1.params.ts = ts
  BY <1>7 DEF Params
<1>9. details' = [details EXCEPT ![c] = d1]
  BY <1>1, <1>3, <1>4, <1>5, <1>6, <1>7 DEF SessionTypeOK
<1>10. /\ details' \in [Clients -> [cmd : Commands \cup {"none"}, params : Params]]
       /\ details'[c] = d1
       /\ \A d \in Clients : d # c => details'[d] = details[d]
  BY <1>1, <1>8, <1>9 DEF SessionTypeOK
<1>11. armed' \in [Clients -> BOOLEAN] /\ armed'[c] = TRUE
       /\ \A d \in Clients : d # c => armed'[d] = armed[d]
  BY <1>1, <1>3 DEF SessionTypeOK
<1>12. fired' \in [Clients -> Nat] /\ \A d \in Clients : d # c => fired'[d] = fired[d]
  BY <1>1, <1>3 DEF SessionTypeOK
<1>13. pingAge' \in [Clients -> 0 .. PingPeriod + 1]
  <2>1. 0 \in 0 .. PingPeriod + 1 /\ pingAge \in [Clients -> 0 .. PingPeriod + 1]
    BY <1>1, SessionAssumption DEF SessionTypeOK
  <2>2. QED
    BY <1>3, <2>1
<1>14. SessionTypeOK'
  BY <1>1, <1>3, <1>10, <1>11, <1>12, <1>13 DEF SessionTypeOK
<1>15. \A d \in Clients : d # c => SameSession(d)
  BY <1>3, <1>10, <1>11, <1>12 DEF SameSession
<1>16. Idling(c) /\ Idling(c)'
  BY <1>3, <1>11 DEF Idling
<1>17. Unstarted(c)' /\ OneThing(c)' /\ RowsExist(c)'
  BY <1>1, <1>3, <1>16 DEF Unstarted, OneThing, Simple, RowsExist, Rows
<1>18. Polls(c)' /\ d1.cmd # "none"
  BY <1>1, <1>4, <1>8, <1>10, <1>16 DEF Polls, NeverIdles
<1>19. PICK t : t = TaskOf(c, d1, ping)
  OBVIOUS
<1>20. t \in Task /\ t.client = c
  <2>1. d1.cmd \in Commands /\ d1.params \in Params
    BY <1>8, <1>18
  <2>2. ping \in BOOLEAN
    BY <1>2
  <2>3. QED
    BY <1>19, <2>1, <2>2 DEF TaskOf, Task
<1>21. queue' = Append(queue, t)
  BY <1>3, <1>10, <1>19
<1>22. Cursor(c)'
  <2>1. Sent(c, new) /\ (Sent(c, d0.params.ts)
                         \/ \E q \in Requests[c] : q.params.ts = d0.params.ts)
    BY <1>1, <1>4, <1>5 DEF Cursor
  <2>2. ASSUME NEW x, Sent(c, x) PROVE Sent(c, x)'
    BY <1>3, <2>2 DEF Sent
  <2>3. Sent(c, new)' /\ (Sent(c, ts)' \/ \E q \in Requests[c] : q.params.ts = ts)
    BY <1>6, <2>1, <2>2
  <2>4. newest'[c] = new /\ details'[c].params.ts = ts
    BY <1>3, <1>5, <1>8, <1>10
  <2>5. QED
    BY <2>3, <2>4 DEF Cursor
<1>23. QED
  BY <1>1, <1>3, <1>14, <1>15, <1>17, <1>18, <1>20, <1>21, <1>22, HandlerKeepsInv
     DEF ConnOK

\* A second passes.
LEMMA SecondKeepsInv ==
    ASSUME SessionInv, Second
    PROVE  SessionInv' /\ [StorageNext]_storageVars
<1>1. /\ SessionTypeOK /\ StorageTypeOK /\ WorkerInv
      /\ queue \in Seq(Task) /\ writes \in [Clients -> Seq(Response)]
      /\ now \in Time /\ g_NeedStop \in BOOLEAN
  BY SessionTyped DEF WorkerTypeOK
<1>2. /\ UNCHANGED storageVars
      /\ UNCHANGED <<queue, pc, task, loc, writes, g_NeedStop, conn, reads, armed,
                     fired, details, newest, asked, notified>>
      /\ now' = IF now + 1 \in Time THEN now + 1 ELSE now
      /\ pingAge' = [c \in Clients |-> IF pingAge[c] > PingPeriod
                                       THEN pingAge[c] ELSE pingAge[c] + 1]
  BY DEF Second
<1>3. now' \in Time
  BY <1>1, <1>2
<1>4. WorkerInv' /\ RowsKept
  BY <1>1, <1>2, <1>3, EnvironmentKeepsInv, NoCallKeepsRows
<1>5. pingAge' \in [Clients -> 0 .. PingPeriod + 1]
  <2>1. PingPeriod \in Nat /\ \A c \in Clients : pingAge[c] \in 0 .. PingPeriod + 1
    BY <1>1, SessionAssumption DEF SessionTypeOK
  <2>2. \A c \in Clients : (IF pingAge[c] > PingPeriod
                            THEN pingAge[c] ELSE pingAge[c] + 1) \in 0 .. PingPeriod + 1
    BY <2>1
  <2>3. QED
    BY <1>2, <2>2
<1>6. SessionTypeOK'
  BY <1>1, <1>2, <1>5 DEF SessionTypeOK, storageVars
<1>7. ASSUME NEW c \in Clients PROVE ConnOK(c)'
  <2>1. SameSession(c) /\ Tasks(c)' = Tasks(c) /\ Serving(c)' = Serving(c)
    BY <1>2 DEF SameSession, Tasks, Serving
  <2>2. QED
    BY <1>2, <1>4, <2>1, ConnectionKept
<1>8. QED
  BY <1>2, <1>4, <1>6, <1>7 DEF SessionInv, ConnOK

-----------------------------------------------------------------------------
(* Every step.                                                               *)

LEMMA ServerStepKeepsInv == SessionInv /\ [Next]_vars => SessionInv' /\ [StorageNext]_storageVars
<1> SUFFICES ASSUME SessionInv, [Next]_vars
             PROVE  SessionInv' /\ [StorageNext]_storageVars
  OBVIOUS
<1>1. CASE UNCHANGED vars
  <2>1. /\ UNCHANGED storageVars
        /\ UNCHANGED <<queue, pc, task, loc, writes, now, g_NeedStop>>
        /\ UNCHANGED sessionVars
    BY <1>1 DEF vars, workerVars
  <2>2. WorkerInv' /\ RowsKept
    BY <2>1, SessionTyped, EnvironmentKeepsInv, NoCallKeepsRows DEF WorkerTypeOK
  <2>3. SessionTypeOK'
    BY <2>1, <2>2, SessionTyped, SessionTypesKept
  <2>4. ASSUME NEW c \in Clients PROVE ConnOK(c)'
    <3>1. SameSession(c) /\ Tasks(c)' = Tasks(c) /\ Serving(c)' = Serving(c)
      BY <2>1 DEF SameSession, Tasks, Serving, sessionVars
    <3>2. QED
      BY <2>1, <2>2, <3>1, ConnectionKept
  <2>5. QED
    BY <2>1, <2>2, <2>3, <2>4 DEF SessionInv, ConnOK
<1>2. CASE \E c \in Clients : startAccept(c) \/ peerGone(c) \/ Handler(c)
  BY <1>2, StartAcceptKeepsInv, PeerGoneKeepsInv, HandshakeKeepsInv,
     ReadFailedKeepsInv, ReadRequestKeepsInv, WriteKeepsInv, TimerExpiresKeepsInv,
     TimerHandlerKeepsInv DEF Handler
<1>3. CASE \E w \in Workers : Work(w)
  BY <1>3, WorkKeepsInv
<1>4. CASE Second
  BY <1>4, SecondKeepsInv
<1>5. QED
  BY <1>1, <1>2, <1>3, <1>4 DEF Next

\* The server starts with no connection, whatever is in the tables.
LEMMA ServerInitFits == StorageInv /\ WorkerInit /\ SessionInit => SessionInv
<1> SUFFICES ASSUME StorageInv, WorkerInit, SessionInit PROVE SessionInv
  OBVIOUS
<1>1. WorkerInv
  BY WorkerInitFits
<1>2. SessionTypeOK
  <2>1. /\ 0 \in Time /\ 0 \in 0 .. MaxRequests
        /\ PingPeriod + 1 \in 0 .. PingPeriod + 1
    BY SessionAssumption, StorageAssumption
  <2>2. [cmd |-> "none", params |-> NoParams]
          \in [cmd : Commands \cup {"none"}, params : Params]
    BY SessionAssumption
  <2>3. QED
    BY <2>1, <2>2 DEF SessionInit, SessionTypeOK
<1>3. ASSUME NEW c \in Clients PROVE ConnOK(c)
  <2>1. /\ conn[c] = "none" /\ reads[c] = 0 /\ ~Idling(c) /\ newest[c] = 0
        /\ details[c].params.ts = 0 /\ writes[c] = <<>>
    BY <1>3, SessionAssumption DEF SessionInit, WorkerInit, Idling
  <2>2. Tasks(c) = {} /\ Serving(c) = {}
    BY DEF WorkerInit, Tasks, Serving
  <2>3. Unstarted(c) /\ Polls(c)
    BY <2>1, <2>2 DEF Unstarted, Polls
  <2>4. Len(writes[c]) <= 1 /\ DOMAIN writes[c] = {}
    BY <2>1
  <2>5. OneThing(c)
    BY <2>1, <2>2, <2>4 DEF OneThing, AtMostOne, ForLastRequest, AtLeastOne
  <2>6. RowsExist(c)
    BY <2>4 DEF RowsExist
  <2>7. Cursor(c)
    BY <2>1 DEF Cursor, Sent
  <2>8. QED
    BY <2>3, <2>5, <2>6, <2>7 DEF ConnOK
<1>4. QED
  BY <1>1, <1>2, <1>3 DEF SessionInv, ConnOK

\* The invariant holds for ever, and the threads change the tables only by the
\* operations of the storage.
THEOREM SessionInvariant == ServingSpec => []SessionInv
<1>1. StorageInv /\ WorkerInit /\ SessionInit => SessionInv
  BY ServerInitFits
<1>2. SessionInv /\ [Next]_vars => SessionInv'
  BY ServerStepKeepsInv
<1>3. QED
  BY <1>1, <1>2, PTL DEF ServingSpec

\* A server that is started with empty tables is one that has been running.
THEOREM ServerSpecServes == Spec => ServingSpec
<1>1. StorageInit => StorageInv
  BY InitEstablishesInv
<1>2. QED
  BY <1>1, PTL DEF Spec, Init, ServingSpec

-----------------------------------------------------------------------------
(* What follows from it.                                                     *)

\* Types of the connections.
THEOREM SessionTypes == ServingSpec => []SessionTypeOK
<1>1. SessionInv => SessionTypeOK
  BY DEF SessionInv
<1>2. QED
  BY <1>1, SessionInvariant, PTL

\* Types of the queue, the threads and the answers, with connections that come
\* and go.
THEOREM ServerWorkerTypes == ServingSpec => []WorkerTypeOK
<1>1. SessionInv => WorkerTypeOK
  BY SessionTyped
<1>2. QED
  BY <1>1, SessionInvariant, PTL

\* Whatever the connections ask for, the tables keep their keys.
THEOREM ServerKeys == ServingSpec => [](KeysUnique /\ ForeignKeys)
<1>1. SessionInv => KeysUnique /\ ForeignKeys
  BY SessionTyped DEF WorkerInv, StorageInv
<1>2. QED
  BY <1>1, SessionInvariant, PTL

\* The requests of all connections together change the tables only by whole
\* operations of the storage.
THEOREM ServerStorageCalls == ServingSpec => [][StorageNext]_storageVars
<1>1. SessionInv /\ [Next]_vars => [StorageNext]_storageVars
  BY ServerStepKeepsInv
<1>2. QED
  BY <1>1, SessionInvariant, PTL DEF ServingSpec

\* How many elements a set without two different ones has.
LEMMA NoneOrOne ==
    ASSUME NEW S, \A a, b \in S : a = b
    PROVE  /\ S = {} => Cardinality(S) = 0
           /\ S # {} => Cardinality(S) = 1
<1>1. S = {} => Cardinality(S) = 0
  BY FS_EmptySet
<1>2. ASSUME S # {} PROVE Cardinality(S) = 1
  <2>1. PICK a \in S : TRUE
    BY <1>2
  <2>2. S = {a}
    BY <2>1
  <2>3. QED
    BY <2>2, FS_Singleton
<1>3. QED
  BY <1>1, <1>2

\* What AtMostOne and AtLeastOne say of what keeps the object alive.
LEMMA OneOutstanding ==
    ASSUME SessionInv, NEW c \in Clients, AtMostOne(c)
    PROVE  /\ Outstanding(c) \in {0, 1}
           /\ Outstanding(c) = 0 =>
                reads[c] = 0 /\ Tasks(c) = {} /\ Serving(c) = {} /\ writes[c] = <<>>
<1>1. /\ Tasks(c) = {} => Cardinality(Tasks(c)) = 0
      /\ Tasks(c) # {} => Cardinality(Tasks(c)) = 1
  BY NoneOrOne DEF AtMostOne
<1>2. /\ Serving(c) = {} => Cardinality(Serving(c)) = 0
      /\ Serving(c) # {} => Cardinality(Serving(c)) = 1
  BY NoneOrOne DEF AtMostOne
<1>3. PICK out \in Seq(Response) : out = writes[c]
  BY SessionTyped
<1>4. Len(out) \in Nat /\ (out = <<>> <=> Len(out) = 0)
  OBVIOUS
<1>5. Len(out) <= 1
  BY <1>3 DEF AtMostOne
<1>6. PICK r, l, t, s : /\ r = reads[c] /\ l = Len(out)
                        /\ t = Cardinality(Tasks(c)) /\ s = Cardinality(Serving(c))
  OBVIOUS
<1>7. /\ r \in {0, 1} /\ l \in {0, 1} /\ t \in {0, 1} /\ s \in {0, 1}
      /\ l = 0 <=> writes[c] = <<>>
      /\ t = 0 <=> Tasks(c) = {}
      /\ s = 0 <=> Serving(c) = {}
  <2>1. r \in {0, 1}
    BY <1>6 DEF AtMostOne
  <2>2. l \in {0, 1}
    BY <1>4, <1>5, <1>6
  <2>3. l = 0 <=> writes[c] = <<>>
    BY <1>3, <1>4, <1>6
  <2>4. QED
    BY <1>1, <1>2, <1>6, <2>1, <2>2, <2>3
<1>8. /\ r = 1 => l = 0 /\ t = 0 /\ s = 0
      /\ t = 1 => l = 0 /\ s = 0
      /\ s = 1 => l = 0
  BY <1>6, <1>7 DEF AtMostOne
<1>9. r + l + t + s \in {0, 1} /\ (r + l + t + s = 0 => r = 0 /\ l = 0 /\ t = 0 /\ s = 0)
  BY <1>7, <1>8
<1>10. Outstanding(c) = r + l + t + s
  BY <1>3, <1>6 DEF Outstanding
<1>11. QED
  BY <1>6, <1>7, <1>9, <1>10

\* A connection that does not poll does one thing at a time, and while it is
\* open it does something, unless the last request was CHAT_HISTORY.
THEOREM ServerOneThing == ServingSpec => []OneThingAtATime
<1>1. ASSUME SessionInv PROVE OneThingAtATime
  <2> SUFFICES ASSUME NEW c \in Clients, ~Idling(c)
               PROVE  /\ conn[c] = "open" => \/ Outstanding(c) = 1
                                             \/ /\ details[c].cmd = "CHAT_HISTORY"
                                                /\ Outstanding(c) = 0
                      /\ conn[c] = "gone" /\ NeverIdles(c) => Outstanding(c) <= 1
    BY DEF OneThingAtATime
  <2>1. OneThing(c)
    BY <1>1 DEF SessionInv
  <2>2. ASSUME conn[c] = "open"
        PROVE  \/ Outstanding(c) = 1
               \/ details[c].cmd = "CHAT_HISTORY" /\ Outstanding(c) = 0
    <3>1. AtMostOne(c) /\ AtLeastOne(c)
      BY <2>1, <2>2 DEF OneThing, Simple
    <3>2. QED
      BY <1>1, <2>2, <3>1, OneOutstanding DEF AtLeastOne
  <2>3. ASSUME conn[c] = "gone", NeverIdles(c) PROVE Outstanding(c) <= 1
    <3>1. AtMostOne(c)
      BY <2>1, <2>3 DEF OneThing, Simple
    <3>2. Outstanding(c) \in {0, 1}
      BY <1>1, <3>1, OneOutstanding
    <3>3. QED
      BY <3>2
  <2>4. QED
    BY <2>2, <2>3
<1>2. QED
  BY <1>1, SessionInvariant, PTL

\* The cursor of a poll never runs ahead of what has been sent.
THEOREM ServerCursorFollows == ServingSpec => []CursorFollowsWrites
<1>1. SessionInv => CursorFollowsWrites
  BY DEF SessionInv, Cursor, Sent, CursorFollowsWrites
<1>2. QED
  BY <1>1, SessionInvariant, PTL

\* Nothing but a request of the peer turns the cursor back.
THEOREM ServerCursorMonotone == ServingSpec => CursorMonotone
<1> DEFINE Kept(c) ==
      asked'[c] = asked[c] => details'[c].params.ts >= details[c].params.ts
<1>1. ASSUME SessionInv, [Next]_vars PROVE [\A c \in Clients : Kept(c)]_vars
  <2>1. SessionTypeOK
    BY <1>1 DEF SessionInv
  <2>2. \A c \in Clients : details[c].params.ts \in Nat
    <3>1. \A c \in Clients : details[c].params.ts \in Time
      BY <2>1 DEF SessionTypeOK, Params
    <3>2. QED
      BY <3>1, StorageAssumption
  <2>3. ASSUME details' = details, NEW c \in Clients PROVE Kept(c)
    <3>1. PICK ts \in Nat : ts = details[c].params.ts
      BY <2>2
    <3>2. ts >= ts /\ details'[c].params.ts = ts
      BY <2>3, <3>1
    <3>3. QED
      BY <3>1, <3>2
  <2>4. ASSUME NEW d \in Clients, readRequest(d), NEW c \in Clients PROVE Kept(c)
    <3>1. CASE c = d
      <4>1. asked'[c] = asked[c] + 1 /\ asked[c] \in Nat
        BY <2>1, <2>4, <3>1, SessionAssumption DEF readRequest, SessionTypeOK
      <4>2. QED
        BY <4>1
    <3>2. CASE c # d
      <4>1. details'[c] = details[c]
        BY <2>1, <2>4, <3>2 DEF readRequest, handleBadRequest, handleCommand,
                                handleIdle, SetDetails, SessionTypeOK
      <4>2. PICK ts \in Nat : ts = details[c].params.ts
        BY <2>2
      <4>3. ts >= ts
        BY <4>2
      <4>4. QED
        BY <4>1, <4>2, <4>3
    <3>3. QED
      BY <3>1, <3>2
  <2>5. ASSUME NEW d \in Clients, timerWaitTaskResultHandler(d), NEW c \in Clients
        PROVE  Kept(c)
    <3>1. PICK new, ts : new = newest[d] /\ ts = details[d].params.ts
      OBVIOUS
    <3>2. new \in Nat /\ ts \in Nat
      <4>1. newest[d] \in Time
        BY <2>1 DEF SessionTypeOK
      <4>2. QED
        BY <2>2, <3>1, <4>1, StorageAssumption
    <3>3. PICK later \in Nat : later = (IF new > ts THEN new ELSE ts) /\ later >= ts
      BY <3>2
    <3>4. details' = [details EXCEPT ![d].params.ts = later]
      BY <2>5, <3>1, <3>3 DEF timerWaitTaskResultHandler
    <3>5. details'[c].params.ts = IF c = d THEN later ELSE details[c].params.ts
      BY <2>1, <3>4 DEF SessionTypeOK, Params
    <3>6. PICK old \in Nat : old = details[c].params.ts /\ old >= old
      BY <2>2
    <3>7. QED
      BY <3>1, <3>3, <3>5, <3>6
  <2>6. CASE UNCHANGED vars
    BY <2>6
  <2>7. CASE \E d \in Clients : startAccept(d) \/ peerGone(d) \/ Handler(d)
    <3>1. PICK d \in Clients : startAccept(d) \/ peerGone(d) \/ Handler(d)
      BY <2>7
    <3>2. details' = details \/ readRequest(d) \/ timerWaitTaskResultHandler(d)
      BY <3>1 DEF startAccept, peerGone, Handler, processClientRequest, readFailed,
                  writeSucceeded, writeFailed, WriteDone, timerExpires
    <3>3. QED
      BY <2>3, <2>4, <2>5, <3>2
  <2>8. CASE Second \/ \E w \in Workers : Work(w)
    BY <2>3, <2>8 DEF Second, Work, sessionVars
  <2>9. QED
    BY <1>1, <2>6, <2>7, <2>8 DEF Next
<1>2. QED
  BY <1>1, SessionInvariant, PTL DEF ServingSpec, CursorMonotone

\* An open connection that polls goes on polling.
THEOREM ServerPollingGoesOn == ServingSpec => PollingGoesOn
<1> DEFINE GoesOn(c) == Idling(c) /\ conn[c] = "open" => Idling(c)'
<1>1. ASSUME SessionInv, [Next]_vars PROVE [\A c \in Clients : GoesOn(c)]_vars
  <2>1. /\ armed \in [Clients -> BOOLEAN] /\ fired \in [Clients -> Nat]
    BY <1>1 DEF SessionInv, SessionTypeOK
  <2>2. ASSUME NEW c \in Clients, armed'[c] = armed[c], fired'[c] = fired[c]
        PROVE  GoesOn(c)
    BY <2>2 DEF Idling
  <2>3. ASSUME NEW c \in Clients, armed'[c] \/ fired'[c] > 0 PROVE GoesOn(c)
    BY <2>3 DEF Idling
  <2>4. ASSUME armed' = armed, fired' = fired, NEW c \in Clients PROVE GoesOn(c)
    BY <2>2, <2>4
  <2>5. ASSUME NEW d \in Clients, readRequest(d), NEW c \in Clients PROVE GoesOn(c)
    <3>1. fired' = fired /\ (armed' = armed \/ armed' = [armed EXCEPT ![d] = TRUE])
      BY <2>5 DEF readRequest, handleBadRequest, handleCommand, handleIdle
    <3>2. armed'[c] = armed[c] \/ armed'[c] = TRUE
      BY <2>1, <3>1
    <3>3. QED
      BY <2>2, <2>3, <3>1, <3>2
  <2>6. ASSUME NEW d \in Clients, writeFailed(d), NEW c \in Clients PROVE GoesOn(c)
    <3>1. CASE c = d
      BY <2>6, <3>1 DEF writeFailed
    <3>2. CASE c # d
      <4>1. fired'[c] = fired[c] /\ armed'[c] = armed[c]
        BY <2>1, <2>6, <3>2
           DEF writeFailed, WriteDone, commandWrote, ackWrote, idleWriteFailed
      <4>2. QED
        BY <2>2, <4>1
    <3>3. QED
      BY <3>1, <3>2
  <2>7. ASSUME NEW d \in Clients, timerExpires(d), NEW c \in Clients PROVE GoesOn(c)
    <3>1. CASE c = d
      <4>1. fired'[c] = fired[c] + 1
        BY <2>1, <2>7, <3>1 DEF timerExpires
      <4>2. QED
        BY <2>1, <2>3, <4>1
    <3>2. CASE c # d
      <4>1. fired'[c] = fired[c] /\ armed'[c] = armed[c]
        BY <2>1, <2>7, <3>2 DEF timerExpires
      <4>2. QED
        BY <2>2, <4>1
    <3>3. QED
      BY <3>1, <3>2
  <2>8. ASSUME NEW d \in Clients, timerWaitTaskResultHandler(d), NEW c \in Clients
        PROVE  GoesOn(c)
    <3>1. CASE c = d
      BY <2>1, <2>3, <2>8, <3>1 DEF timerWaitTaskResultHandler
    <3>2. CASE c # d
      <4>1. fired'[c] = fired[c] /\ armed'[c] = armed[c]
        BY <2>1, <2>8, <3>2 DEF timerWaitTaskResultHandler
      <4>2. QED
        BY <2>2, <4>1
    <3>3. QED
      BY <3>1, <3>2
  <2>9. CASE UNCHANGED vars
    BY <2>9
  <2>10. CASE \E d \in Clients : startAccept(d) \/ peerGone(d) \/ Handler(d)
    <3>1. PICK d \in Clients : startAccept(d) \/ peerGone(d) \/ Handler(d)
      BY <2>10
    <3>2. \/ armed' = armed /\ fired' = fired
          \/ readRequest(d) \/ writeFailed(d) \/ timerExpires(d)
          \/ timerWaitTaskResultHandler(d)
      BY <3>1 DEF startAccept, peerGone, Handler, processClientRequest, readFailed,
                  writeSucceeded, WriteDone, commandWrote, ackWrote, idleWrote
    <3>3. QED
      BY <2>4, <2>5, <2>6, <2>7, <2>8, <3>2
  <2>11. CASE Second \/ \E w \in Workers : Work(w)
    BY <2>4, <2>11 DEF Second, Work, sessionVars
  <2>12. QED
    BY <1>1, <2>9, <2>10, <2>11 DEF Next
<1>2. QED
  BY <1>1, SessionInvariant, PTL DEF ServingSpec, PollingGoesOn
=============================================================================
