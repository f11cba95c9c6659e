-------------------------- MODULE WorkerPoolProofs --------------------------
(***************************************************************************)
(* What the database threads promise each caller, for any number of        *)
(* threads and clients and whatever the others ask at the same time.       *)
(***************************************************************************)
EXTENDS WorkerPool, DatabaseWorkerProofs

\* A server that has been running for a while: any tables its operations can
\* leave behind.
RunningSpec == StorageInv /\ PoolInit /\ [][PoolNext]_poolVars

-----------------------------------------------------------------------------
(* The inductive invariant.                                                  *)

\* A task is at one place at most.
OnePlace(c) ==
    /\ \A j, k \in Queued(c) : j = k
    /\ \A v, w \in Serving(c) : v = w
    /\ Queued(c) # {} => Serving(c) = {} /\ writes[c] = <<>>
    /\ Serving(c) # {} => writes[c] = <<>>
    /\ Len(writes[c]) <= 1

\* It is the task the client has put, and its answer is an answer to it.
OwnTask(c) ==
    /\ \A k \in Queued(c) : queue[k] = submitted[c]
    /\ \A w \in Serving(c) : task[w] = submitted[c]
    /\ writes[c] # <<>> => submitted[c] \in Task
    /\ \A k \in DOMAIN writes[c] : IsAnswer(submitted[c], writes[c][k])

\* Only a task of the two commands that end in silence is nowhere.
NotLost(c) ==
    AlwaysAnswered(submitted[c]) =>
        Queued(c) # {} \/ Serving(c) # {} \/ writes[c] # <<>>

\* Two clients are not both told that they have made the one user or group.
NotBothCreated(c, d) ==
    \A name \in Names, cmd \in {"USER_CREATE", "CHAT_CREATE"} :
        /\ Creates(c, cmd, name) /\ Said(c, "ok")
        /\ Creates(d, cmd, name) /\ Said(d, "ok")
        => c = d

PoolInv ==
    /\ WorkerInv
    /\ submitted \in [Clients -> Task \cup {NoTask}]
    /\ \A c \in Clients : OnePlace(c) /\ OwnTask(c) /\ NotLost(c)
    /\ \A c, d \in Clients : NotBothCreated(c, d)

\* A message is READ while a thread that polls has it, and then in an answer.
HandedOver(i) ==
    \/ \E w \in Workers, row \in DOMAIN chatuser :
         pc[w] \in {"poll", "send"} /\ task[w].cmd = "IDLE"
         /\ <<row, i>> \in loc[w].batch
    \/ \E c \in Clients : \E k \in DOMAIN writes[c] :
         writes[c][k].handler = "idle"
         /\ \E row \in DOMAIN chatuser : <<row, i>> \in writes[c][k].msgs

ReadInv == \A i \in DOMAIN messages : messages[i].flags = "READ" => HandedOver(i)

\* Messages by text, for callers that give each message a text of its own.
Sends(c) == Asked(c) /\ submitted[c].cmd \in {"MESSAGE_SEND", "MESSAGE_SEND_CHAT"}

TextOf(c) == submitted[c].request.message

DistinctTexts ==
    \A load \in Workloads, c, d \in Clients :
        \A t \in load[c], u \in load[d] :
            /\ {t.cmd, u.cmd} \subseteq {"MESSAGE_SEND", "MESSAGE_SEND_CHAT"}
            /\ t.request.message = u.request.message
            => c = d

SentInv ==
    /\ \A c, d \in Clients :
         Sends(c) /\ Sends(d) /\ TextOf(c) = TextOf(d) => c = d
    /\ \A i \in DOMAIN messages :
         \E c \in Clients :
           /\ Sends(c) /\ Said(c, "ok")
           /\ messages[i].message = TextOf(c)
           /\ messages[i].user_from = submitted[c].request.uid
           /\ IsTarget(submitted[c], messages[i].chat_to)
    /\ \A i, j \in DOMAIN messages : messages[i].message = messages[j].message => i = j
    /\ \A c \in Clients : Sends(c) /\ Said(c, "ok") =>
         \E i \in DOMAIN messages : messages[i].message = TextOf(c)

-----------------------------------------------------------------------------
(* Places.                                                                   *)

\* The parts of the invariant that say where a client's task is.
Placed(c) == OnePlace(c) /\ OwnTask(c) /\ NotLost(c)

\* A task has a client; NoTask is none of them.
LEMMA NoTaskIsNone == NoTask \notin Task /\ \A t \in Task : t # NoTask
BY DEF NoTask, Task, Commands

\* Types of what the invariant speaks of.
LEMMA PoolTyped ==
    ASSUME PoolInv
    PROVE  /\ WorkerInv /\ StorageInv /\ WorkerTypeOK /\ StorageTypeOK
           /\ queue \in Seq(Task) /\ writes \in [Clients -> Seq(Response)]
           /\ task \in [Workers -> Task \cup {NoTask}]
           /\ submitted \in [Clients -> Task \cup {NoTask}]
           /\ \A c \in Clients : Placed(c)
BY DEF PoolInv, WorkerInv, StorageInv, WorkerTypeOK, Placed

\* The answers a client has been given stay answers to its task.
LEMMA AnswersStayRight ==
    ASSUME PoolInv, RowsKept, NEW c \in Clients, submitted'[c] = submitted[c],
           NEW k \in DOMAIN writes[c], writes'[c][k] = writes[c][k]
    PROVE  IsAnswer(submitted[c], writes[c][k])'
<1>1. PICK t, a : t = submitted[c] /\ a = writes[c][k]
  OBVIOUS
<1>2. IsAnswer(t, a)
  BY <1>1, PoolTyped DEF Placed, OwnTask
<1>3. IsAnswer(t, a)'
  BY <1>2, PoolTyped, AnswerKept
<1>4. QED
  BY <1>1, <1>3

\* A step that moves no task.
LEMMA KeepsPlaces ==
    ASSUME PoolInv, NEW c \in Clients, RowsKept,
           UNCHANGED <<queue, task, writes, submitted>>
    PROVE  Placed(c)'
<1>1. OnePlace(c) /\ OwnTask(c) /\ NotLost(c)
  BY PoolTyped DEF Placed
<1>2. Queued(c)' = Queued(c) /\ Serving(c)' = Serving(c)
  BY DEF Queued, Serving
<1>3. OnePlace(c)' /\ NotLost(c)'
  BY <1>1, <1>2 DEF OnePlace, NotLost, AlwaysAnswered
<1>4. OwnTask(c)'
  <2>1. \A k \in DOMAIN writes'[c] : IsAnswer(submitted[c], writes[c][k])'
    BY AnswersStayRight
  <2>2. QED
    BY <1>1, <1>2, <2>1 DEF OwnTask
<1>5. QED
  BY <1>3, <1>4 DEF Placed

\* A thread takes the task at the front of the queue.
LEMMA TakesPlaces ==
    ASSUME PoolInv, NEW w \in Workers, NEW c \in Clients, RowsKept,
           TakesTask(w), UNCHANGED submitted
    PROVE  Placed(c)'
<1>1. /\ OnePlace(c) /\ OwnTask(c) /\ NotLost(c)
      /\ queue \in Seq(Task) /\ task \in [Workers -> Task \cup {NoTask}]
      /\ queue # <<>> /\ writes' = writes /\ task[w] = NoTask
  BY PoolTyped DEF Placed, TakesTask
<1>2. PICK front : front = Head(queue)
  OBVIOUS
<1>3. front \in Task /\ front = queue[1] /\ 1 \in DOMAIN queue
  BY <1>1, <1>2
<1>4. PICK kept : kept = IF front.cmd = "CHAT_HISTORY" THEN NoTask ELSE front
  OBVIOUS
<1>5. task' = [task EXCEPT ![w] = kept]
  BY <1>2, <1>4 DEF TakesTask
<1>6. task'[w] = kept /\ \A v \in Workers : v # w => task'[v] = task[v]
  BY <1>1, <1>5
<1>7. /\ DOMAIN queue' = 1 .. Len(queue) - 1
      /\ \A k \in DOMAIN queue' : k + 1 \in DOMAIN queue /\ queue'[k] = queue[k + 1]
      /\ \A k \in DOMAIN queue : k # 1 =>
           k - 1 \in DOMAIN queue' /\ queue'[k - 1] = queue[k]
  BY <1>1 DEF TakesTask
<1>8. /\ \A k \in Queued(c)' : k + 1 \in Queued(c) /\ queue'[k] = queue[k + 1]
      /\ \A k \in Queued(c) : k # 1 => k - 1 \in Queued(c)'
      /\ Queued(c)' \subseteq Nat /\ Queued(c) \subseteq Nat
  BY <1>1, <1>7 DEF Queued
<1>9. \A k \in DOMAIN writes'[c] : IsAnswer(submitted[c], writes[c][k])'
  BY <1>1, AnswersStayRight
<1>10. CASE front.client # c
  <2>1. 1 \notin Queued(c)
    BY <1>3, <1>10 DEF Queued
  <2>2. kept = NoTask \/ kept.client # c
    BY <1>4, <1>10
  <2>3. Serving(c)' = Serving(c)
    BY <1>1, <1>6, <2>2 DEF Serving
  <2>4. w \notin Serving(c)
    BY <1>1 DEF Serving
  <2>5. \A v \in Serving(c) : task'[v] = task[v]
    BY <1>6, <2>4 DEF Serving
  <2>6. Queued(c)' # {} <=> Queued(c) # {}
    BY <1>8, <2>1
  <2>7. OnePlace(c)'
    BY <1>1, <1>8, <2>3, <2>6 DEF OnePlace
  <2>8. NotLost(c)'
    BY <1>1, <2>3, <2>6 DEF NotLost, AlwaysAnswered
  <2>9. OwnTask(c)'
    BY <1>1, <1>8, <1>9, <2>3, <2>5 DEF OwnTask
  <2>10. QED
    BY <2>7, <2>8, <2>9 DEF Placed
<1>11. CASE front.client = c
  <2>1. 1 \in Queued(c)
    BY <1>3, <1>11 DEF Queued
  <2>2. Queued(c)' = {}
    <3>1. \A k \in Queued(c)' : k \in Nat /\ k # 0 /\ k + 1 = 1
      BY <1>1, <1>7, <1>8, <2>1 DEF OnePlace, Queued
    <3>2. QED
      BY <3>1
  <2>3. Serving(c) = {} /\ writes[c] = <<>> /\ front = submitted[c]
    BY <1>1, <1>3, <2>1 DEF OnePlace, OwnTask
  <2>4. \A v \in Workers : v # w => v \notin Serving(c)'
    BY <1>6, <2>3 DEF Serving
  <2>5. kept # NoTask => kept.client = c
    BY <1>4, <1>11
  <2>6. front # NoTask /\ (w \in Serving(c)' <=> kept # NoTask)
    <3>1. front # NoTask
      BY <1>3, NoTaskIsNone
    <3>2. QED
      BY <1>6, <2>5, <3>1 DEF Serving
  <2>7. Serving(c)' \subseteq Workers
    BY DEF Serving
  <2>8. OnePlace(c)'
    BY <1>1, <2>2, <2>3, <2>4, <2>7 DEF OnePlace
  <2>9. NotLost(c)'
    BY <1>4, <2>3, <2>6 DEF NotLost, AlwaysAnswered
  <2>10. \A v \in Serving(c)' : task'[v] = submitted[c]
    BY <1>4, <1>6, <2>3, <2>4, <2>6, <2>7
  <2>11. OwnTask(c)'
    BY <1>1, <1>9, <2>2, <2>3, <2>10 DEF OwnTask
  <2>12. QED
    BY <2>8, <2>9, <2>11 DEF Placed
<1>12. QED
  BY <1>10, <1>11

\* A poll without news ends in silence.
LEMMA DropsPlaces ==
    ASSUME PoolInv, NEW w \in Workers, NEW c \in Clients, RowsKept,
           DropsTask(w), UNCHANGED submitted
    PROVE  Placed(c)'
<1>1. /\ OnePlace(c) /\ OwnTask(c) /\ NotLost(c)
      /\ task \in [Workers -> Task \cup {NoTask}]
      /\ queue' = queue /\ writes' = writes /\ task[w] # NoTask
  BY PoolTyped, NoTaskIsNone DEF Placed, DropsTask
<1>2. Queued(c)' = Queued(c) /\ Serving(c)' = Serving(c) \ {w}
  BY <1>1 DEF DropsTask, Queued, Serving
<1>3. \A v \in Serving(c)' : task'[v] = task[v]
  BY <1>1, <1>2 DEF DropsTask, Serving
<1>4. \A k \in DOMAIN writes'[c] : IsAnswer(submitted[c], writes[c][k])'
  BY <1>1, AnswersStayRight
<1>5. OnePlace(c)'
  BY <1>1, <1>2 DEF OnePlace
<1>6. OwnTask(c)'
  BY <1>1, <1>2, <1>3, <1>4 DEF OwnTask
<1>7. NotLost(c)'
  <2>1. w \in Serving(c) => ~AlwaysAnswered(submitted[c])
    BY <1>1 DEF OwnTask, DropsTask, AlwaysAnswered
  <2>2. QED
    BY <1>1, <1>2, <2>1 DEF NotLost, AlwaysAnswered
<1>8. QED
  BY <1>5, <1>6, <1>7 DEF Placed

\* The answer is written to the client of the task.
LEMMA AnswersPlaces ==
    ASSUME PoolInv, NEW w \in Workers, NEW c \in Clients, RowsKept,
           AnswersTask(w), UNCHANGED submitted
    PROVE  Placed(c)'
<1>1. /\ OnePlace(c) /\ OwnTask(c) /\ NotLost(c)
      /\ task \in [Workers -> Task \cup {NoTask}]
      /\ writes \in [Clients -> Seq(Response)]
      /\ queue' = queue /\ task[w] # NoTask /\ task[w] \in Task
  BY PoolTyped, NoTaskIsNone DEF Placed, AnswersTask
<1>2. Queued(c)' = Queued(c) /\ Serving(c)' = Serving(c) \ {w}
  BY <1>1 DEF AnswersTask, Queued, Serving
<1>3. \A v \in Serving(c)' : task'[v] = task[v]
  BY <1>1, <1>2 DEF AnswersTask, Serving
<1>4. CASE task[w].client # c
  <2>1. writes'[c] = writes[c] /\ w \notin Serving(c)
    BY <1>1, <1>4 DEF AnswersTask, Serving
  <2>2. \A k \in DOMAIN writes'[c] : IsAnswer(submitted[c], writes[c][k])'
    BY <2>1, AnswersStayRight
  <2>3. QED
    BY <1>1, <1>2, <1>3, <2>1, <2>2
       DEF Placed, OnePlace, OwnTask, NotLost, AlwaysAnswered
<1>5. CASE task[w].client = c
  <2>1. w \in Serving(c) /\ writes[c] = <<>> /\ Queued(c) = {}
        /\ Serving(c) \ {w} = {} /\ submitted[c] = task[w]
    BY <1>1, <1>5 DEF Serving, OnePlace, OwnTask
  <2>2. PICK t, a : t = task[w] /\ a = loc[w].reply
    OBVIOUS
  <2>3. writes'[c] = <<a>>
    BY <1>1, <1>5, <2>1, <2>2 DEF AnswersTask
  <2>4. IsAnswer(t, a)
    BY <2>2, PoolTyped, ThreadTyped DEF AnswersTask, LocalsFit
  <2>5. IsAnswer(t, a)'
    BY <2>4, PoolTyped, AnswerKept
  <2>6. OnePlace(c)' /\ NotLost(c)'
    BY <1>2, <2>1, <2>3 DEF OnePlace, NotLost
  <2>7. submitted'[c] = t /\ \A k \in DOMAIN writes'[c] : writes'[c][k] = a
    BY <2>1, <2>2, <2>3
  <2>8. OwnTask(c)'
    BY <1>1, <1>2, <2>1, <2>2, <2>5, <2>7 DEF OwnTask
  <2>9. QED
    BY <2>6, <2>8 DEF Placed
<1>6. QED
  BY <1>4, <1>5

\* A step of a thread leaves every client's task at one place.
LEMMA WorkKeepsPlaces ==
    ASSUME PoolInv, NEW w \in Workers, processQueue(w), UNCHANGED submitted
    PROVE  WorkerInv' /\ RowsKept /\ \A c \in Clients : Placed(c)'
<1>1. WorkerInv' /\ RowsKept
  BY PoolTyped, WorkerStepKeepsInv
<1>2. KeepsTask(w) \/ TakesTask(w) \/ DropsTask(w) \/ AnswersTask(w)
  BY PoolTyped, TaskMoves
<1>3. ASSUME NEW c \in Clients PROVE Placed(c)'
  <2>1. CASE KeepsTask(w)
    BY <1>1, <2>1, KeepsPlaces DEF KeepsTask
  <2>2. CASE TakesTask(w)
    BY <1>1, <2>2, TakesPlaces
  <2>3. CASE DropsTask(w)
    BY <1>1, <2>3, DropsPlaces
  <2>4. CASE AnswersTask(w)
    BY <1>1, <2>4, AnswersPlaces
  <2>5. QED
    BY <1>2, <2>1, <2>2, <2>3, <2>4
<1>4. QED
  BY <1>1, <1>3

\* A client that puts a task has nothing anywhere.
LEMMA NotAskedIsNowhere ==
    ASSUME PoolInv, NEW c \in Clients, submitted[c] = NoTask
    PROVE  Queued(c) = {} /\ Serving(c) = {} /\ writes[c] = <<>>
<1>1. OwnTask(c) /\ queue \in Seq(Task)
  BY PoolTyped DEF Placed
<1>2. \A k \in DOMAIN queue : queue[k] # NoTask
  BY <1>1, NoTaskIsNone
<1>3. Queued(c) = {}
  BY <1>1, <1>2 DEF OwnTask, Queued
<1>4. Serving(c) = {}
  BY <1>1 DEF OwnTask, Serving
<1>5. QED
  BY <1>1, <1>3, <1>4, NoTaskIsNone DEF OwnTask

\* What Submit does, for the task it picks.
LEMMA SubmitTakesOne ==
    ASSUME NEW c \in Clients, Submit(c)
    PROVE  \E t \in Task :
             /\ t.client = c /\ submitted[c] = NoTask
             /\ queue' = Append(queue, t)
             /\ submitted' = [submitted EXCEPT ![c] = t]
<1>1. PICK load \in Workloads : \E t \in load[c] :
          putTask(t) /\ submitted' = [submitted EXCEPT ![c] = t]
  BY DEF Submit
<1>2. PICK t \in load[c] :
          putTask(t) /\ submitted' = [submitted EXCEPT ![c] = t]
  BY <1>1
<1>3. t \in Task /\ t.client = c
  BY WorkloadsAssumption
<1>4. QED
  BY <1>2, <1>3 DEF Submit, putTask

LEMMA SubmitKeepsPlaces ==
    ASSUME PoolInv, NEW c \in Clients, Submit(c)
    PROVE  /\ WorkerInv' /\ RowsKept
           /\ submitted' \in [Clients -> Task \cup {NoTask}]
           /\ \A d \in Clients : Placed(d)'
<1>1. PICK t \in Task :
          /\ t.client = c /\ submitted[c] = NoTask
          /\ queue' = Append(queue, t)
          /\ submitted' = [submitted EXCEPT ![c] = t]
  BY SubmitTakesOne
<1>2. /\ queue \in Seq(Task) /\ writes \in [Clients -> Seq(Response)]
      /\ now \in Time /\ g_NeedStop \in BOOLEAN
      /\ submitted \in [Clients -> Task \cup {NoTask}]
  BY PoolTyped DEF WorkerTypeOK
<1>3. queue' \in Seq(Task)
  BY <1>1, <1>2
<1>4. UNCHANGED <<storageVars, pc, task, loc, writes, now, g_NeedStop>>
  BY DEF Submit
<1>5. WorkerInv'
  BY <1>2, <1>3, <1>4, PoolTyped, EnvironmentKeepsInv
<1>6. RowsKept
  BY <1>4, PoolTyped, NoCallKeepsRows
<1>7. submitted' \in [Clients -> Task \cup {NoTask}]
  BY <1>1, <1>2
<1>8. /\ DOMAIN queue' = DOMAIN queue \cup {Len(queue) + 1}
      /\ Len(queue) + 1 \notin DOMAIN queue /\ queue'[Len(queue) + 1] = t
      /\ \A k \in DOMAIN queue : queue'[k] = queue[k]
  BY <1>1, <1>2
<1>9. ASSUME NEW d \in Clients PROVE Placed(d)'
  <2>1. Serving(d)' = Serving(d) /\ writes'[d] = writes[d]
    BY <1>4 DEF Serving
  <2>2. OnePlace(d) /\ OwnTask(d) /\ NotLost(d)
    BY PoolTyped DEF Placed
  <2>3. CASE d # c
    <3>1. Queued(d)' = Queued(d) /\ \A k \in Queued(d) : queue'[k] = queue[k]
      BY <1>1, <1>8, <2>3 DEF Queued
    <3>2. submitted'[d] = submitted[d]
      BY <1>1, <1>2, <2>3
    <3>3. \A k \in DOMAIN writes'[d] : IsAnswer(submitted[d], writes[d][k])'
      BY <1>6, <2>1, <3>2, AnswersStayRight
    <3>4. OnePlace(d)' /\ NotLost(d)'
      BY <2>1, <2>2, <3>1, <3>2 DEF OnePlace, NotLost, AlwaysAnswered
    <3>5. OwnTask(d)'
      BY <1>4, <2>1, <2>2, <3>1, <3>2, <3>3 DEF OwnTask
    <3>6. QED
      BY <3>4, <3>5 DEF Placed
  <2>4. CASE d = c
    <3>1. Queued(d) = {} /\ Serving(d) = {} /\ writes[d] = <<>>
      BY <1>1, <2>4, NotAskedIsNowhere
    <3>2. Queued(d)' = {Len(queue) + 1}
      BY <1>1, <1>8, <2>4, <3>1 DEF Queued
    <3>3. submitted'[d] = t /\ queue'[Len(queue) + 1] = t
      BY <1>1, <1>2, <1>8, <2>4
    <3>4. OnePlace(d)'
      BY <2>1, <3>1, <3>2 DEF OnePlace
    <3>5. NotLost(d)'
      BY <3>2 DEF NotLost
    <3>6. OwnTask(d)'
      BY <2>1, <3>1, <3>2, <3>3 DEF OwnTask
    <3>7. QED
      BY <3>4, <3>5, <3>6 DEF Placed
  <2>5. QED
    BY <2>3, <2>4
<1>10. QED
  BY <1>5, <1>6, <1>7, <1>9

LEMMA TickKeepsPlaces ==
    ASSUME PoolInv, Tick, UNCHANGED submitted
    PROVE  WorkerInv' /\ RowsKept /\ \A c \in Clients : Placed(c)'
<1>1. RowsKept
  BY PoolTyped, NoCallKeepsRows DEF Tick
<1>2. WorkerInv'
  BY PoolTyped, EnvironmentKeepsInv DEF Tick, WorkerTypeOK
<1>3. \A c \in Clients : Placed(c)'
  BY <1>1, KeepsPlaces DEF Tick
<1>4. QED
  BY <1>1, <1>2, <1>3

-----------------------------------------------------------------------------
(* Answers.                                                                  *)

\* Every answer is one to the client's own task.
LEMMA AnswersAreRight ==
    ASSUME PoolInv, NEW c \in Clients, NEW a \in Answers(c)
    PROVE  IsAnswer(submitted[c], a)
<1>1. OwnTask(c)
  BY PoolTyped DEF Placed
<1>2. CASE \E k \in DOMAIN writes[c] : a = writes[c][k]
  BY <1>1, <1>2 DEF OwnTask
<1>3. CASE \E w \in Serving(c) : At(w, "send") /\ a = loc[w].reply
  <2>1. PICK w \in Serving(c) : pc[w] = "send" /\ a = loc[w].reply
    BY <1>3 DEF At
  <2>2. w \in Workers /\ task[w] = submitted[c]
    BY <1>1 DEF OwnTask, Serving
  <2>3. IsAnswer(task[w], loc[w].reply)
    BY <2>1, <2>2, PoolTyped, ThreadTyped DEF LocalsFit
  <2>4. QED
    BY <2>1, <2>2, <2>3
<1>4. QED
  BY <1>2, <1>3 DEF Answers

\* An answer appears when the thread that serves the client enters "send".
LEMMA NewAnswer ==
    ASSUME PoolInv, NEW w \in Workers, processQueue(w), UNCHANGED submitted,
           NEW c \in Clients, NEW a \in Answers(c)', a \notin Answers(c)
    PROVE  /\ w \in Serving(c) /\ task[w] = submitted[c] /\ task' = task
           /\ pc[w] # "send" /\ pc'[w] = "send" /\ a = loc'[w].reply
<1>1. KeepsTask(w) \/ TakesTask(w) \/ DropsTask(w) \/ AnswersTask(w)
  BY PoolTyped, TaskMoves
<1>2. /\ \A v \in Workers : v # w => pc'[v] = pc[v] /\ task'[v] = task[v]
                                     /\ loc'[v] = loc[v]
      /\ task \in [Workers -> Task \cup {NoTask}]
      /\ writes \in [Clients -> Seq(Response)]
      /\ OwnTask(c)
  BY PoolTyped, WorkerStepFits DEF StepFits, Others, Placed
<1>3. CASE \E k \in DOMAIN writes'[c] : a = writes'[c][k]
  <2>1. PICK k \in DOMAIN writes'[c] : a = writes'[c][k]
    BY <1>3
  <2>2. k \notin DOMAIN writes[c] \/ writes'[c][k] # writes[c][k]
    BY <2>1 DEF Answers
  <2>3. AnswersTask(w)
    BY <1>1, <2>1, <2>2 DEF KeepsTask, TakesTask, DropsTask
  <2>4. task[w].client = c /\ task[w] # NoTask /\ pc[w] = "send"
    BY <1>2, <2>1, <2>2, <2>3, NoTaskIsNone DEF AnswersTask
  <2>5. w \in Serving(c) /\ a = loc[w].reply
    <3>1. PICK reply : reply = loc[w].reply
      OBVIOUS
    <3>2. writes'[c] = Append(writes[c], reply) /\ writes[c] \in Seq(Response)
      BY <1>2, <2>3, <2>4, <3>1 DEF AnswersTask
    <3>3. a = reply
      BY <2>1, <2>2, <3>2
    <3>4. QED
      BY <2>4, <3>1, <3>3 DEF Serving
  <2>6. QED
    BY <2>4, <2>5 DEF Answers, At
<1>4. CASE \E v \in Serving(c)' : pc'[v] = "send" /\ a = loc'[v].reply
  <2>1. PICK v \in Workers : /\ task'[v] # NoTask /\ task'[v].client = c
                             /\ pc'[v] = "send" /\ a = loc'[v].reply
    BY <1>4 DEF Serving
  <2>2. v = w
    BY <1>2, <2>1 DEF Answers, Serving, At
  <2>3. KeepsTask(w)
    BY <1>1, <2>1, <2>2 DEF TakesTask, DropsTask, AnswersTask
  <2>4. w \in Serving(c) /\ task' = task
    BY <2>1, <2>2, <2>3 DEF KeepsTask, Serving
  <2>5. QED
    BY <1>2, <2>1, <2>2, <2>3, <2>4 DEF KeepsTask, OwnTask, Serving
<1>5. QED
  BY <1>3, <1>4 DEF Answers, At

\* A thread that tells its client it has made a user or group has found the
\* name free in the same lock region.
LEMMA NameWasFree ==
    ASSUME PoolInv, NEW w \in Workers, processQueue(w), pc'[w] = "send",
           pc[w] # "send", loc'[w].reply.status = "ok"
    PROVE  /\ task[w].cmd = "USER_CREATE" =>
                lookupUserByName(task[w].request.user) = {}
           /\ task[w].cmd = "CHAT_CREATE" =>
                lookupChatByName(task[w].request.chatname) = {}
<1>1. /\ TaskFits(pc[w], task[w]) /\ pc[w] \in Stages
      /\ pc \in [Workers -> Stages] /\ loc \in [Workers -> Locals]
  BY PoolTyped, ThreadTyped DEF WorkerTypeOK
<1>2. CASE task[w].cmd = "USER_CREATE"
  <2>1. pc[w] = "createUser"
    BY <1>1, <1>2 DEF TaskFits, Stages, Waiting, ByUid, NoTask
  <2>2. doCreateUser(w)
    BY <2>1 DEF processQueue, checkStop, getTask, lookup_check_pass,
                lookup_check_pass_by_name, lookupChat, readClock,
                doSaveMessage, doCreateChat, doAddUserToChat,
                doUpdateHeartBit, listChats, pollChat, endPoll, selectTo,
                selectFrom, respond, At
  <2>3. CASE Refuse(w, "user already exists")
    <3>1. loc'[w].reply.status = "user already exists"
      BY <1>1, <2>3 DEF Refuse, Answer, Plain, Locals
    <3>2. QED
      BY <3>1
  <2>4. CASE createUser(task[w].request.user, Crc32[task[w].request.password])
    BY <1>2, <2>4 DEF createUser
  <2>5. QED
    BY <2>2, <2>3, <2>4 DEF doCreateUser
<1>3. CASE task[w].cmd = "CHAT_CREATE"
  <2>1. pc[w] \in {"auth", "createChat"}
    BY <1>1, <1>3 DEF TaskFits, Stages, Waiting, NoTask
  <2>2. lookup_check_pass(w) \/ doCreateChat(w)
    BY <2>1 DEF processQueue, checkStop, getTask, doCreateUser,
                lookup_check_pass_by_name, lookupChat, readClock,
                doSaveMessage, doAddUserToChat,
                doUpdateHeartBit, listChats, pollChat, endPoll, selectTo,
                selectFrom, respond, At
  <2>3. ASSUME NEW status, status # "ok", Refuse(w, status) PROVE FALSE
    BY <1>1, <2>3 DEF Refuse, Answer, Plain, Locals
  <2>4. CASE lookup_check_pass(w)
    <3>1. Goto(w, AfterAuth(task[w].cmd))
      BY <2>3, <2>4 DEF lookup_check_pass
    <3>2. AfterAuth(task[w].cmd) = "createChat"
      BY <1>3 DEF AfterAuth
    <3>3. QED
      BY <1>1, <3>1, <3>2 DEF Goto
  <2>5. CASE doCreateChat(w)
    <3>1. createChat(task[w].request.chatname, task[w].request.uid)
      BY <2>3, <2>5 DEF doCreateChat
    <3>2. QED
      BY <1>3, <3>1 DEF createChat
  <2>6. QED
    BY <2>2, <2>4, <2>5
<1>4. QED
  BY <1>2, <1>3

\* Steps that give nobody an answer.
LEMMA SameAnswers ==
    ASSUME UNCHANGED <<pc, task, loc, writes>>, NEW c \in Clients
    PROVE  Answers(c)' = Answers(c)
BY DEF Answers, Serving, At

\* Who is told "ok" finds the user or group in the table.
LEMMA NameIsTaken ==
    ASSUME PoolInv, NEW c \in Clients, NEW cmd, NEW name \in Names,
           Creates(c, cmd, name), Said(c, "ok")
    PROVE  /\ cmd = "USER_CREATE" => lookupUserByName(name) # {}
           /\ cmd = "CHAT_CREATE" => lookupChatByName(name) # {}
<1>1. PICK a \in Answers(c) : a.status = "ok"
  BY DEF Said
<1>2. IsDone(submitted[c], "ok")
  BY <1>1, AnswersAreRight DEF IsAnswer
<1>3. QED
  BY <1>2 DEF IsDone, Creates, lookupUserByName, lookupChatByName

\* Of two clients one has been told "ok" before: the other then finds the name
\* taken, because the test and the new row are one lock region.
LEMMA WorkCreatesOnce ==
    ASSUME PoolInv, NEW w \in Workers, processQueue(w), UNCHANGED submitted,
           NEW c \in Clients, NEW d \in Clients
    PROVE  NotBothCreated(c, d)'
<1> SUFFICES ASSUME NEW name \in Names, NEW cmd \in {"USER_CREATE", "CHAT_CREATE"},
                    Creates(c, cmd, name), Said(c, "ok")',
                    Creates(d, cmd, name), Said(d, "ok")'
             PROVE  c = d
  BY DEF NotBothCreated, Creates, Asked
<1>1. ASSUME NEW e \in Clients, Said(e, "ok")', ~Said(e, "ok")
      PROVE  /\ w \in Serving(e) /\ task[w] = submitted[e]
             /\ pc[w] # "send" /\ pc'[w] = "send" /\ loc'[w].reply.status = "ok"
  <2>1. PICK a \in Answers(e)' : a.status = "ok"
    BY <1>1 DEF Said
  <2>2. a \notin Answers(e)
    BY <1>1, <2>1 DEF Said
  <2>3. QED
    BY <2>1, <2>2, NewAnswer
<1>2. ASSUME NEW e \in Clients, NEW f \in Clients, Creates(e, cmd, name),
             Creates(f, cmd, name), Said(e, "ok")', ~Said(e, "ok"), Said(f, "ok")
      PROVE  FALSE
  <2>1. lookupUserByName(name) # {} \/ cmd # "USER_CREATE"
    BY <1>2, NameIsTaken
  <2>2. lookupChatByName(name) # {} \/ cmd # "CHAT_CREATE"
    BY <1>2, NameIsTaken
  <2>3. /\ pc[w] # "send" /\ pc'[w] = "send" /\ loc'[w].reply.status = "ok"
        /\ task[w].cmd = cmd
        /\ name = IF cmd = "USER_CREATE" THEN task[w].request.user
                                         ELSE task[w].request.chatname
    BY <1>1, <1>2 DEF Creates
  <2>4. QED
    BY <2>1, <2>2, <2>3, NameWasFree
<1>3. CASE Said(c, "ok") /\ Said(d, "ok")
  BY <1>3 DEF PoolInv, NotBothCreated
<1>4. CASE ~Said(c, "ok") /\ ~Said(d, "ok")
  BY <1>1, <1>4 DEF Serving
<1>5. QED
  BY <1>2, <1>3, <1>4

\* A client that has just asked has been told nothing.
LEMMA SubmitCreatesOnce ==
    ASSUME PoolInv, NEW e \in Clients, Submit(e),
           NEW c \in Clients, NEW d \in Clients
    PROVE  NotBothCreated(c, d)'
<1>1. /\ submitted[e] = NoTask
      /\ \A f \in Clients : f # e => submitted'[f] = submitted[f]
  BY SubmitTakesOne, PoolTyped
<1>2. \A f \in Clients : Answers(f)' = Answers(f)
  BY SameAnswers DEF Submit
<1>3. Answers(e) = {}
  BY <1>1, NotAskedIsNowhere DEF Answers
<1>4. NotBothCreated(c, d)
  BY DEF PoolInv
<1>5. QED
  BY <1>1, <1>2, <1>3, <1>4 DEF NotBothCreated, Said, Creates, Asked

-----------------------------------------------------------------------------
(* The invariant is inductive.                                               *)

\* What every step of the pool keeps.
LEMMA PoolStepKeepsInv ==
    ASSUME PoolInv, [PoolNext]_poolVars
    PROVE  PoolInv' /\ RowsKept /\ [StorageNext]_storageVars
<1>1. CASE \E c \in Clients : Submit(c)
  <2>1. PICK c \in Clients : Submit(c)
    BY <1>1
  <2>2. UNCHANGED storageVars
    BY <2>1 DEF Submit
  <2>3. QED
    BY <2>1, <2>2, SubmitKeepsPlaces, SubmitCreatesOnce DEF PoolInv, Placed
<1>2. CASE \E w \in Workers : processQueue(w) /\ UNCHANGED callerVars
  <2>1. PICK w \in Workers : processQueue(w) /\ UNCHANGED callerVars
    BY <1>2
  <2>2. UNCHANGED submitted
    BY <2>1 DEF callerVars
  <2>3. [StorageNext]_storageVars
    BY <2>1, PoolTyped, WorkerStepKeepsInv
  <2>4. WorkerInv' /\ RowsKept /\ \A c \in Clients : Placed(c)'
    BY <2>1, <2>2, WorkKeepsPlaces
  <2>5. \A c, d \in Clients : NotBothCreated(c, d)'
    BY <2>1, <2>2, WorkCreatesOnce
  <2>6. QED
    BY <2>2, <2>3, <2>4, <2>5 DEF PoolInv, Placed
<1>3. CASE Tick /\ UNCHANGED callerVars
  <2>1. UNCHANGED submitted
    BY <1>3 DEF callerVars
  <2>2. WorkerInv' /\ RowsKept /\ \A c \in Clients : Placed(c)'
    BY <1>3, <2>1, TickKeepsPlaces
  <2>3. \A c \in Clients : Answers(c)' = Answers(c)
    BY <1>3, SameAnswers DEF Tick
  <2>4. \A c, d \in Clients : NotBothCreated(c, d)'
    BY <2>1, <2>3 DEF PoolInv, NotBothCreated, Said, Creates, Asked
  <2>5. UNCHANGED storageVars
    BY <1>3 DEF Tick
  <2>6. QED
    BY <2>1, <2>2, <2>4, <2>5 DEF PoolInv, Placed
<1>4. CASE UNCHANGED poolVars
  <2>1. UNCHANGED <<storageVars, queue, pc, task, loc, writes, now, g_NeedStop,
                    submitted>>
    BY <1>4 DEF poolVars, workerVars, callerVars
  <2>2. RowsKept
    BY <2>1, PoolTyped, NoCallKeepsRows
  <2>3. WorkerInv'
    BY <2>1, PoolTyped, EnvironmentKeepsInv DEF WorkerTypeOK
  <2>4. \A c \in Clients : Placed(c)'
    BY <2>1, <2>2, KeepsPlaces
  <2>5. \A c \in Clients : Answers(c)' = Answers(c)
    BY <2>1, SameAnswers
  <2>6. \A c, d \in Clients : NotBothCreated(c, d)'
    BY <2>1, <2>5 DEF PoolInv, NotBothCreated, Said, Creates, Asked
  <2>7. QED
    BY <2>1, <2>2, <2>3, <2>4, <2>6 DEF PoolInv, Placed
<1>5. QED
  BY <1>1, <1>2, <1>3, <1>4 DEF PoolNext

\* The threads start with no task anywhere.
LEMMA PoolInitFits == StorageInv /\ PoolInit => PoolInv
<1> SUFFICES ASSUME StorageInv, PoolInit PROVE PoolInv
  OBVIOUS
<1>1. WorkerInv
  BY WorkerInitFits DEF PoolInit
<1>2. \A c \in Clients : submitted[c] = NoTask /\ writes[c] = <<>>
  BY DEF PoolInit, WorkerInit
<1>3. \A c \in Clients : Queued(c) = {} /\ Serving(c) = {}
  BY DEF PoolInit, WorkerInit, Queued, Serving
<1>4. \A c \in Clients : Placed(c)
  BY <1>2, <1>3 DEF Placed, OnePlace, OwnTask, NotLost, AlwaysAnswered
<1>5. \A c, d \in Clients : NotBothCreated(c, d)
  BY <1>2 DEF NotBothCreated, Creates, Asked
<1>6. QED
  BY <1>1, <1>4, <1>5 DEF PoolInv, PoolInit, Placed

\* The threads' knowledge and the whereabouts of the tasks, at any number of
\* threads and clients, in a server that may have been running for a while.
THEOREM PoolInvariant == RunningSpec => []PoolInv
<1>1. PoolInv /\ [PoolNext]_poolVars => PoolInv'
  BY PoolStepKeepsInv
<1>2. QED
  BY <1>1, PoolInitFits, PTL DEF RunningSpec

\* A fresh server is such a server.
THEOREM PoolSpecRuns == PoolSpec => RunningSpec
BY InitEstablishesInv, PTL DEF PoolSpec, RunningSpec

-----------------------------------------------------------------------------
(* What follows from it.                                                     *)

\* Types of the queue, the threads and the answers.
THEOREM PoolTypes == RunningSpec => []WorkerTypeOK
<1>1. PoolInv => WorkerTypeOK
  BY PoolTyped
<1>2. QED
  BY <1>1, PoolInvariant, PTL

\* Every call that a thread makes on the storage, with ids it has looked up
\* regions before, is one that the storage is written for.
THEOREM PoolStorageCalls == RunningSpec => StorageCalls
<1>1. PoolInv /\ [PoolNext]_poolVars => [StorageNext]_storageVars
  BY PoolStepKeepsInv
<1>2. QED
  BY <1>1, PoolInvariant, PTL DEF RunningSpec, StorageCalls

\* Ids are unique and refer to rows that exist, whatever the threads interleave.
THEOREM PoolKeys == RunningSpec => [](KeysUnique /\ ForeignKeys)
<1>1. PoolInv => KeysUnique /\ ForeignKeys
  BY PoolTyped DEF StorageInv
<1>2. QED
  BY <1>1, PoolInvariant, PTL

\* At most one place per client, counted.
LEMMA PlacesConserve == PoolInv => TaskConserved
<1>1. ASSUME PoolInv, NEW c \in Clients
      PROVE  LET places == Cardinality(Queued(c)) + Cardinality(Serving(c))
                             + Len(writes[c])
             IN  /\ places <= 1
                 /\ AlwaysAnswered(submitted[c]) => places = 1
  <2>1. /\ OnePlace(c) /\ NotLost(c) /\ writes[c] \in Seq(Response)
    BY <1>1, PoolTyped DEF Placed
  <2>2. Len(writes[c]) \in Nat /\ (Len(writes[c]) = 0 <=> writes[c] = <<>>)
    BY <2>1
  <2>3. ASSUME NEW S, \A x, y \in S : x = y
        PROVE  Cardinality(S) = IF S = {} THEN 0 ELSE 1
    <3>1. CASE S = {}
      BY <3>1, FS_EmptySet
    <3>2. CASE S # {}
      <4>1. PICK x : S = {x}
        BY <2>3, <3>2
      <4>2. QED
        BY <3>2, <4>1, FS_Singleton
    <3>3. QED
      BY <3>1, <3>2
  <2>4. Cardinality(Queued(c)) = IF Queued(c) = {} THEN 0 ELSE 1
    BY <2>1, <2>3 DEF OnePlace
  <2>5. Cardinality(Serving(c)) = IF Serving(c) = {} THEN 0 ELSE 1
    BY <2>1, <2>3 DEF OnePlace
  <2>6. PICK q, s, n : /\ q = Cardinality(Queued(c))
                       /\ s = Cardinality(Serving(c)) /\ n = Len(writes[c])
    OBVIOUS
  <2>7. /\ q \in {0, 1} /\ s \in {0, 1} /\ n \in {0, 1}
        /\ q = 1 => s = 0 /\ n = 0
        /\ s = 1 => n = 0
    <3>1. n \in Nat /\ n <= 1 /\ (n = 0 <=> writes[c] = <<>>)
      BY <2>1, <2>2, <2>6 DEF OnePlace
    <3>2. /\ q = IF Queued(c) = {} THEN 0 ELSE 1
          /\ s = IF Serving(c) = {} THEN 0 ELSE 1
      BY <2>4, <2>5, <2>6
    <3>3. /\ q \in {0, 1} /\ s \in {0, 1} /\ n \in {0, 1}
      BY <3>1, <3>2
    <3>4. q = 1 => s = 0 /\ n = 0
      BY <2>1, <3>1, <3>2 DEF OnePlace
    <3>5. s = 1 => n = 0
      BY <2>1, <3>1, <3>2 DEF OnePlace
    <3>6. QED
      BY <3>3, <3>4, <3>5
  <2>8. AlwaysAnswered(submitted[c]) => q # 0 \/ s # 0 \/ n # 0
    BY <2>1, <2>2, <2>4, <2>5, <2>6 DEF NotLost
  <2>9. q + s + n <= 1 /\ (AlwaysAnswered(submitted[c]) => q + s + n = 1)
    BY <2>7, <2>8
  <2>10. QED
    BY <2>6, <2>9
<1>2. QED
  BY <1>1 DEF TaskConserved

\* A task waits in the queue, or one thread has it, or it was answered once; it
\* is at two of these places at no time, and at one if it asks for an answer.
THEOREM PoolTaskConserved == RunningSpec => []TaskConserved
BY PlacesConserve, PoolInvariant, PTL

\* An "ok" means a row of one's own, and only one of two creators has it.
LEMMA DoneOnce == PoolInv => OneCreatorWins
<1>1. ASSUME PoolInv, NEW c \in Clients, NEW status, Said(c, status)
      PROVE  IsDone(submitted[c], status)
  <2>1. PICK a \in Answers(c) : a.status = status
    BY <1>1 DEF Said
  <2>2. QED
    BY <1>1, <2>1, AnswersAreRight DEF IsAnswer
<1>2. ASSUME PoolInv, NEW c \in Clients, NEW name \in Names,
             Creates(c, "USER_CREATE", name)
      PROVE  /\ Said(c, "ok") =>
                  /\ \E u \in lookupUserByName(name) :
                       users[u].password = Crc32[submitted[c].request.password]
                  /\ \A d \in Clients \ {c} :
                       Creates(d, "USER_CREATE", name) => ~Said(d, "ok")
             /\ Said(c, "user already exists") => lookupUserByName(name) # {}
  <2>1. submitted[c].cmd = "USER_CREATE" /\ submitted[c].request.user = name
    BY <1>2 DEF Creates
  <2>2. Said(c, "ok") => \E u \in lookupUserByName(name) :
          users[u].password = Crc32[submitted[c].request.password]
    BY <1>1, <1>2, <2>1 DEF IsDone, lookupUserByName
  <2>3. Said(c, "user already exists") => lookupUserByName(name) # {}
    BY <1>1, <1>2, <2>1 DEF IsDone, lookupUserByName
  <2>4. QED
    BY <1>2, <2>2, <2>3 DEF PoolInv, NotBothCreated
<1>3. ASSUME PoolInv, NEW c \in Clients, NEW name \in Names,
             Creates(c, "CHAT_CREATE", name)
      PROVE  /\ Said(c, "ok") =>
                  /\ \E d \in lookupChatByName(name), i \in DOMAIN chatuser :
                       chatuser[i] = [chatid |-> chats[d].id,
                                      uid |-> submitted[c].request.uid]
                  /\ \A d \in Clients \ {c} :
                       Creates(d, "CHAT_CREATE", name) => ~Said(d, "ok")
             /\ Said(c, "chat already exists") => lookupChatByName(name) # {}
  <2>1. submitted[c].cmd = "CHAT_CREATE" /\ submitted[c].request.chatname = name
    BY <1>3 DEF Creates
  <2>2. Said(c, "ok") =>
          \E d \in lookupChatByName(name), i \in DOMAIN chatuser :
            chatuser[i] = [chatid |-> chats[d].id,
                           uid |-> submitted[c].request.uid]
    BY <1>1, <1>3, <2>1 DEF IsDone, lookupChatByName
  <2>3. Said(c, "chat already exists") => lookupChatByName(name) # {}
    BY <1>1, <1>3, <2>1 DEF IsDone, lookupChatByName
  <2>4. QED
    BY <1>3, <2>2, <2>3 DEF PoolInv, NotBothCreated
<1>4. QED
  BY <1>2, <1>3 DEF OneCreatorWins

\* One of those who create the same user or group is told "ok", and the row is
\* the winner's.
THEOREM PoolOneCreatorWins == RunningSpec => []OneCreatorWins
BY DoneOnce, PoolInvariant, PTL

\* With unique ids the first row of that id is every row of that id.
LEMMA ById ==
    ASSUME StorageInv, NEW u \in DOMAIN users
    PROVE  u \in lookupUserById(users[u].id)
<1>1. users \in Seq(User) /\ \A i, j \in DOMAIN users :
         users[i].id = users[j].id => i = j
  BY DEF StorageInv, StorageTypeOK, KeysUnique
<1>2. ASSUME NEW j \in 1 .. u - 1 PROVE j \in DOMAIN users /\ j # u
  BY <1>1
<1>3. QED
  BY <1>1, <1>2 DEF lookupUserById

\* The messages of an answer are those its task asks for.
LEMMA AnswersAreOwn == PoolInv => OnlyOwnMessages
<1>1. ASSUME PoolInv, NEW c \in Clients, NEW a \in Answers(c), a.msgs # {}
      PROVE  LET r == submitted[c].request
                 me == lookupUserById(r.uid)
             IN  \/ /\ submitted[c].cmd = "IDLE"
                    /\ \A m \in a.msgs :
                         /\ chatuser[m[1]].uid = r.uid
                         /\ chatuser[m[1]].chatid = messages[m[2]].chat_to
                         /\ messages[m[2]].ts > r.ts
                 \/ /\ submitted[c].cmd = "USER_HISTORY"
                    /\ Cardinality(a.msgs) <= r.count
                    /\ \A m \in a.msgs :
                         \E u \in me, v \in lookupUserByName(r.user) :
                           LET msg == messages[m[2]]
                           IN  \/ /\ msg.user_from = users[u].id
                                  /\ msg.chat_to = users[v].self_chat_id
                               \/ /\ msg.user_from = users[v].id
                                  /\ msg.chat_to = users[u].self_chat_id
  <2>1. IsAnswer(submitted[c], a)
    BY <1>1, AnswersAreRight
  <2>2. IsOwn(submitted[c], a.msgs)
    BY <1>1, <2>1 DEF IsAnswer
  <2>3. CASE submitted[c].cmd = "IDLE" /\ \A m \in a.msgs : IsNews(submitted[c], m)
    BY <2>3 DEF IsNews
  <2>4. CASE /\ submitted[c].cmd = "USER_HISTORY"
             /\ \A m \in a.msgs : IsHistory(submitted[c], m)
    <3>1. Cardinality(a.msgs) <= submitted[c].request.count
      BY <2>1, <2>4 DEF IsAnswer
    <3>2. ASSUME NEW m \in a.msgs
          PROVE  \E u \in lookupUserById(submitted[c].request.uid),
                    v \in lookupUserByName(submitted[c].request.user) :
                   \/ /\ messages[m[2]].user_from = users[u].id
                      /\ messages[m[2]].chat_to = users[v].self_chat_id
                   \/ /\ messages[m[2]].user_from = users[v].id
                      /\ messages[m[2]].chat_to = users[u].self_chat_id
      <4>1. PICK u, v \in DOMAIN users :
              /\ users[u].id = submitted[c].request.uid
              /\ users[v].name = submitted[c].request.user
              /\ \/ /\ messages[m[2]].user_from = users[u].id
                    /\ messages[m[2]].chat_to = users[v].self_chat_id
                 \/ /\ messages[m[2]].user_from = users[v].id
                    /\ messages[m[2]].chat_to = users[u].self_chat_id
        BY <2>4 DEF IsHistory
      <4>2. u \in lookupUserById(submitted[c].request.uid)
        BY <1>1, <4>1, ById, PoolTyped
      <4>3. QED
        BY <4>1, <4>2 DEF lookupUserByName
    <3>3. QED
      BY <2>4, <3>1, <3>2
  <2>5. QED
    BY <2>2, <2>3, <2>4 DEF IsOwn
<1>2. QED
  BY <1>1 DEF OnlyOwnMessages

\* Nobody is given a message that was not meant for the user of the request.
THEOREM PoolOnlyOwnMessages == RunningSpec => []OnlyOwnMessages
BY AnswersAreOwn, PoolInvariant, PTL

\* Rows are immutable under the threads too, which is why a thread may go on
\* with what it looked up regions earlier.
THEOREM PoolAppendOnly == RunningSpec => AppendOnly
<1>1. PoolInv /\ [PoolNext]_poolVars => RowsKept
  BY PoolStepKeepsInv
<1>2. QED
  BY <1>1, PoolInvariant, PTL DEF RunningSpec, AppendOnly

-----------------------------------------------------------------------------
(* Messages that are READ.                                                   *)

\* The flag is set by a thread that polls, for the messages it adds to the batch.
LEMMA ReadByPolling ==
    ASSUME WorkerInv, NEW w \in Workers, processQueue(w),
           NEW i \in DOMAIN messages', messages'[i].flags = "READ",
           i \in DOMAIN messages => messages[i].flags # "READ"
    PROVE  \E row \in DOMAIN chatuser :
             /\ pc[w] = "poll" /\ pc' = pc /\ task' = task
             /\ task[w].cmd = "IDLE" /\ <<row, i>> \in loc'[w].batch
<1>1. /\ TaskFits(pc[w], task[w]) /\ LocalsFit(pc[w], task[w], loc[w])
      /\ loc \in [Workers -> Locals] /\ messages \in Seq(Message)
  BY ThreadTyped DEF WorkerTypeOK, StorageTypeOK
<1>2. ASSUME UNCHANGED messages PROVE FALSE
  BY <1>2
<1>3. ASSUME doSaveMessage(w) PROVE FALSE
  <2>1. PICK row : messages' = Append(messages, row) /\ row.flags = "UNREAD"
    BY <1>3 DEF doSaveMessage, saveMessage
  <2>2. QED
    BY <1>1, <2>1
<1>4. pollChat(w)
  BY <1>2, <1>3
     DEF processQueue, checkStop, getTask, lookup_check_pass, lookupChat,
         lookup_check_pass_by_name, readClock, doCreateUser, doCreateChat,
         doAddUserToChat, doUpdateHeartBit, listChats, endPoll, selectTo,
         selectFrom, respond, createUser, createChat, addUserToChat,
         updateUserHeartBit, storageVars
<1>5. PICK row \in loc[w].todo :
        LET chatid == chatuser[row].chatid
            ts == task[w].request.ts
        IN  /\ At(w, "poll")
            /\ getMessages(chatid, ts, MessageLimit)
            /\ loc' = [loc EXCEPT
                         ![w].todo = @ \ {row},
                         ![w].batch = @ \cup ({row} \X Newer(chatid, ts, MessageLimit))]
            /\ UNCHANGED <<queue, pc, task, writes, now, g_NeedStop>>
  BY <1>4 DEF pollChat
<1>6. pc[w] = "poll" /\ task[w].cmd = "IDLE" /\ row \in DOMAIN chatuser
  BY <1>1, <1>5 DEF At, TaskFits, LocalsFit, IsTodo
<1>7. PICK new : new = Newer(chatuser[row].chatid, task[w].request.ts, MessageLimit)
  OBVIOUS
<1>8. i \in new
  BY <1>5, <1>7 DEF getMessages
<1>9. loc'[w].batch = loc[w].batch \cup ({row} \X new)
  BY <1>1, <1>5, <1>7 DEF Locals
<1>10. <<row, i>> \in loc'[w].batch
  BY <1>8, <1>9
<1>11. QED
  BY <1>5, <1>6, <1>10

\* A thread with a batch goes on polling, composes an answer of all of it, or
\* writes that answer.
LEMMA BatchIsCarried ==
    ASSUME WorkerInv, NEW w \in Workers, processQueue(w),
           pc[w] \in {"poll", "send"}, task[w].cmd = "IDLE",
           NEW m \in loc[w].batch
    PROVE  \/ /\ pc'[w] \in {"poll", "send"} /\ task' = task
              /\ m \in loc'[w].batch
           \/ /\ writes' = [writes EXCEPT ![task[w].client] =
                                            Append(@, loc[w].reply)]
              /\ task[w].client \in Clients
              /\ loc[w].reply.handler = "idle" /\ m \in loc[w].reply.msgs
<1>1. /\ LocalsFit(pc[w], task[w], loc[w]) /\ task[w] \in Task
      /\ loc \in [Workers -> Locals] /\ pc \in [Workers -> Stages]
  BY ThreadTyped DEF WorkerTypeOK, Waiting
<1>2. CASE pc[w] = "send"
  <2>1. respond(w)
    BY <1>2 DEF processQueue, checkStop, getTask, lookup_check_pass, lookupChat,
         lookup_check_pass_by_name, readClock, doSaveMessage, doCreateUser,
         doCreateChat, doAddUserToChat, doUpdateHeartBit, listChats, pollChat,
         endPoll, selectTo, selectFrom, At
  <2>2. loc[w].reply.handler = "idle" /\ m \in loc[w].reply.msgs
    BY <1>1, <1>2 DEF LocalsFit
  <2>3. task[w].client \in Clients
    BY <1>1 DEF Task
  <2>4. QED
    BY <2>1, <2>2, <2>3 DEF respond
<1>3. CASE pc[w] = "poll"
  <2>1. pollChat(w) \/ endPoll(w)
    BY <1>3 DEF processQueue, checkStop, getTask, lookup_check_pass, lookupChat,
         lookup_check_pass_by_name, readClock, doSaveMessage, doCreateUser,
         doCreateChat, doAddUserToChat, doUpdateHeartBit, listChats, respond,
         selectTo, selectFrom, At
  <2>2. CASE pollChat(w)
    <3>1. PICK row, new :
            /\ row \in loc[w].todo
            /\ loc' = [loc EXCEPT ![w].todo = @ \ {row},
                                  ![w].batch = @ \cup ({row} \X new)]
            /\ pc' = pc /\ task' = task
      BY <2>2 DEF pollChat
    <3>2. loc'[w].batch = loc[w].batch \cup ({row} \X new)
      BY <1>1, <3>1 DEF Locals
    <3>3. QED
      BY <1>3, <3>1, <3>2
  <2>3. CASE endPoll(w)
    <3>1. Answer(w, Messages("idle", loc[w].batch))
      BY <2>3 DEF endPoll
    <3>2. PICK reply : Answer(w, reply)
      BY <3>1
    <3>3. pc'[w] = "send" /\ task' = task /\ loc' = [loc EXCEPT ![w].reply = reply]
      BY <1>1, <3>2 DEF Answer, Goto
    <3>4. loc'[w].batch = loc[w].batch
      BY <1>1, <3>3 DEF Locals
    <3>5. QED
      BY <3>3, <3>4
  <2>4. QED
    BY <2>1, <2>2, <2>3
<1>4. QED
  BY <1>2, <1>3

\* Answers that were written stay written.
LEMMA WritesGrow ==
    ASSUME WorkerInv, NEW w \in Workers, processQueue(w),
           NEW c \in Clients, NEW k \in DOMAIN writes[c]
    PROVE  k \in DOMAIN writes'[c] /\ writes'[c][k] = writes[c][k]
<1>1. writes \in [Clients -> Seq(Response)]
  BY DEF WorkerInv, WorkerTypeOK
<1>2. CASE UNCHANGED writes
  BY <1>2
<1>3. CASE AnswersTask(w)
  <2>1. PICK d, reply : writes' = [writes EXCEPT ![d] = Append(@, reply)]
    BY <1>3 DEF AnswersTask
  <2>2. writes'[c] = writes[c] \/ writes'[c] = Append(writes[c], reply)
    BY <1>1, <2>1
  <2>3. QED
    BY <1>1, <2>2
<1>4. QED
  BY <1>2, <1>3, TaskMoves DEF KeepsTask, TakesTask, DropsTask

\* So what is READ stays with the poll that has read it, or with its answer.
LEMMA WorkKeepsRead ==
    ASSUME WorkerInv, RowsKept, NEW w \in Workers, processQueue(w), ReadInv
    PROVE  ReadInv'
<1> SUFFICES ASSUME NEW i \in DOMAIN messages', messages'[i].flags = "READ"
             PROVE  HandedOver(i)'
  BY DEF ReadInv
<1>1. \A row \in DOMAIN chatuser : row \in DOMAIN chatuser'
  BY DEF RowsKept
<1>2. CASE i \in DOMAIN messages => messages[i].flags # "READ"
  <2>1. PICK row \in DOMAIN chatuser :
             /\ pc[w] = "poll" /\ pc' = pc /\ task' = task
             /\ task[w].cmd = "IDLE" /\ <<row, i>> \in loc'[w].batch
    BY <1>2, ReadByPolling
  <2>2. QED
    BY <1>1, <2>1 DEF HandedOver
<1>3. CASE HandedOver(i)
  <2>1. CASE \E v \in Workers, row \in DOMAIN chatuser :
               pc[v] \in {"poll", "send"} /\ task[v].cmd = "IDLE"
               /\ <<row, i>> \in loc[v].batch
    <3>1. PICK v \in Workers, row \in DOMAIN chatuser :
               pc[v] \in {"poll", "send"} /\ task[v].cmd = "IDLE"
               /\ <<row, i>> \in loc[v].batch
      BY <2>1
    <3>2. CASE v # w
      <4>1. pc'[v] = pc[v] /\ task'[v] = task[v] /\ loc'[v] = loc[v]
        BY <3>2, WorkerStepFits DEF StepFits, Others
      <4>2. QED
        BY <1>1, <3>1, <4>1 DEF HandedOver
    <3>3. CASE v = w
      <4>1. CASE /\ pc'[w] \in {"poll", "send"} /\ task' = task
                 /\ <<row, i>> \in loc'[w].batch
        BY <1>1, <3>1, <3>3, <4>1 DEF HandedOver
      <4>2. CASE /\ writes' = [writes EXCEPT ![task[w].client] =
                                               Append(@, loc[w].reply)]
                 /\ task[w].client \in Clients
                 /\ loc[w].reply.handler = "idle"
                 /\ <<row, i>> \in loc[w].reply.msgs
        <5>1. PICK c, reply : c = task[w].client /\ reply = loc[w].reply
          OBVIOUS
        <5>2. writes'[c] = Append(writes[c], reply) /\ c \in Clients
              /\ writes[c] \in Seq(Response)
          BY <4>2, <5>1 DEF WorkerInv, WorkerTypeOK
        <5>3. PICK k \in DOMAIN writes'[c] : writes'[c][k] = reply
          <6>1. Len(writes[c]) + 1 \in DOMAIN writes'[c]
                /\ writes'[c][Len(writes[c]) + 1] = reply
            BY <5>2
          <6>2. QED
            BY <6>1
        <5>4. QED
          BY <1>1, <4>2, <5>1, <5>2, <5>3 DEF HandedOver
      <4>3. QED
        BY <3>1, <3>3, <4>1, <4>2, BatchIsCarried
    <3>4. QED
      BY <3>2, <3>3
  <2>2. CASE \E c \in Clients : \E k \in DOMAIN writes[c] :
               writes[c][k].handler = "idle"
               /\ \E row \in DOMAIN chatuser : <<row, i>> \in writes[c][k].msgs
    <3>1. PICK c \in Clients : \E k \in DOMAIN writes[c] :
               writes[c][k].handler = "idle"
               /\ \E row \in DOMAIN chatuser : <<row, i>> \in writes[c][k].msgs
      BY <2>2
    <3>2. PICK k \in DOMAIN writes[c] :
               writes[c][k].handler = "idle"
               /\ \E row \in DOMAIN chatuser : <<row, i>> \in writes[c][k].msgs
      BY <3>1
    <3>3. k \in DOMAIN writes'[c] /\ writes'[c][k] = writes[c][k]
      BY WritesGrow
    <3>4. QED
      BY <1>1, <3>2, <3>3 DEF HandedOver
  <2>3. QED
    BY <1>3, <2>1, <2>2 DEF HandedOver
<1>4. QED
  BY <1>2, <1>3 DEF ReadInv

\* No READ message is hidden from the users that poll: one that was UNREAD when
\* the threads started is in the hands of a thread, or in an answer.
THEOREM PoolReadIsHandedOver ==
    RunningSpec /\ (\A i \in DOMAIN messages : messages[i].flags = "UNREAD")
      => []ReadIsHandedOver
<1>1. ASSUME PoolInv, [PoolNext]_poolVars, ReadInv PROVE ReadInv'
  <2>1. CASE \E w \in Workers : processQueue(w)
    BY <1>1, <2>1, WorkKeepsRead, PoolStepKeepsInv, PoolTyped
  <2>2. CASE UNCHANGED <<storageVars, pc, task, loc, writes>>
    BY <1>1, <2>2 DEF ReadInv, HandedOver, storageVars
  <2>3. QED
    BY <1>1, <2>1, <2>2 DEF PoolNext, Submit, Tick, poolVars, workerVars
<1>2. ASSUME PoolInv, ReadInv PROVE ReadIsHandedOver
  <2>1. ASSUME NEW c \in Clients, NEW k \in DOMAIN writes[c]
        PROVE  writes[c][k] \in Answers(c)
    BY DEF Answers
  <2>2. QED
    BY <1>2, <2>1 DEF ReadIsHandedOver, ReadInv, HandedOver
<1>3. (\A i \in DOMAIN messages : messages[i].flags = "UNREAD") => ReadInv
  BY DEF ReadInv
<1>4. QED
  BY <1>1, <1>2, <1>3, PoolInvariant, PTL DEF RunningSpec

-----------------------------------------------------------------------------
(* Messages that are sent.                                                   *)

\* A call on the storage other than saveMessage adds no message.
LEMMA OnlySavingAdds ==
    ASSUME WorkerInv, NEW w \in Workers, processQueue(w), ~doSaveMessage(w)
    PROVE  DOMAIN messages' = DOMAIN messages
<1>1. CASE pollChat(w)
  BY <1>1 DEF pollChat, getMessages
<1>2. CASE ~pollChat(w)
  <2>1. UNCHANGED messages
    BY <1>2
       DEF processQueue, checkStop, getTask, lookup_check_pass, lookupChat,
           lookup_check_pass_by_name, readClock, doCreateUser, doCreateChat,
           doAddUserToChat, doUpdateHeartBit, listChats, endPoll, selectTo,
           selectFrom, respond, createUser, createChat, addUserToChat,
           updateUserHeartBit, storageVars
  <2>2. QED
    BY <2>1
<1>3. QED
  BY <1>1, <1>2

\* "ok" to a message is said in the lock region that stores it.
LEMMA OkMeansSaved ==
    ASSUME WorkerInv, NEW w \in Workers, processQueue(w), pc'[w] = "send",
           pc[w] # "send", loc'[w].reply.status = "ok",
           task[w].cmd \in {"MESSAGE_SEND", "MESSAGE_SEND_CHAT"}
    PROVE  doSaveMessage(w)
<1>1. /\ TaskFits(pc[w], task[w]) /\ pc[w] \in Stages
      /\ pc \in [Workers -> Stages] /\ loc \in [Workers -> Locals]
  BY ThreadTyped DEF WorkerTypeOK
<1>2. pc[w] \in {"auth", "byName", "byChat", "clock", "save"}
  BY <1>1 DEF TaskFits, Stages, Waiting, NoTask
<1>3. ASSUME NEW status, status # "ok", Refuse(w, status) PROVE FALSE
  BY <1>1, <1>3 DEF Refuse, Answer, Plain, Locals
<1>4. ASSUME NEW stage, stage # "send", Goto(w, stage) PROVE FALSE
  BY <1>1, <1>4 DEF Goto
<1>5. CASE pc[w] = "auth"
  <2>1. lookup_check_pass(w)
    BY <1>5 DEF processQueue, checkStop, getTask, doCreateUser, doCreateChat,
                lookup_check_pass_by_name, lookupChat, readClock,
                doSaveMessage, doAddUserToChat, doUpdateHeartBit, listChats,
                pollChat, endPoll, selectTo, selectFrom, respond, At
  <2>2. Goto(w, AfterAuth(task[w].cmd))
    BY <1>3, <2>1 DEF lookup_check_pass
  <2>3. AfterAuth(task[w].cmd) # "send"
    BY DEF AfterAuth
  <2>4. QED
    BY <1>4, <2>2, <2>3
<1>6. CASE pc[w] = "byName"
  <2>1. lookup_check_pass_by_name(w)
    BY <1>6 DEF processQueue, checkStop, getTask, doCreateUser, doCreateChat,
                lookup_check_pass, lookupChat, readClock,
                doSaveMessage, doAddUserToChat, doUpdateHeartBit, listChats,
                pollChat, endPoll, selectTo, selectFrom, respond, At
  <2>2. PICK i : UseUser(w, i)
    <3>1. CASE \E i : UseUser(w, i)
      BY <3>1
    <3>2. CASE \E S : Refuse(w, IF S = {} THEN "user does not exist"
                                ELSE "more than one user with that name")
      <4>1. \E status : status # "ok" /\ Refuse(w, status)
        BY <3>2
      <4>2. QED
        BY <1>3, <4>1
    <3>3. QED
      BY <2>1, <3>1, <3>2 DEF lookup_check_pass_by_name
  <2>3. Goto(w, "clock")
    BY <2>2 DEF UseUser
  <2>4. QED
    BY <1>4, <2>3
<1>7. CASE pc[w] = "byChat"
  <2>1. lookupChat(w)
    BY <1>7 DEF processQueue, checkStop, getTask, doCreateUser, doCreateChat,
                lookup_check_pass, lookup_check_pass_by_name, readClock,
                doSaveMessage, doAddUserToChat, doUpdateHeartBit, listChats,
                pollChat, endPoll, selectTo, selectFrom, respond, At
  <2>2. Goto(w, "clock")
    BY <1>3, <2>1 DEF lookupChat
  <2>3. QED
    BY <1>4, <2>2
<1>8. CASE pc[w] = "clock"
  <2>1. readClock(w)
    BY <1>8 DEF processQueue, checkStop, getTask, doCreateUser, doCreateChat,
                lookup_check_pass, lookup_check_pass_by_name, lookupChat,
                doSaveMessage, doAddUserToChat, doUpdateHeartBit, listChats,
                pollChat, endPoll, selectTo, selectFrom, respond, At
  <2>2. Goto(w, "save")
    BY <2>1 DEF readClock
  <2>3. QED
    BY <1>4, <2>2
<1>9. CASE pc[w] = "save"
  BY <1>9 DEF processQueue, checkStop, getTask, doCreateUser, doCreateChat,
              lookup_check_pass, lookup_check_pass_by_name, lookupChat,
              readClock, doAddUserToChat, doUpdateHeartBit, listChats,
              pollChat, endPoll, selectTo, selectFrom, respond, At
<1>10. QED
  BY <1>2, <1>5, <1>6, <1>7, <1>8, <1>9

\* What doSaveMessage stores, and what it tells the client.
LEMMA SavedMessage ==
    ASSUME WorkerInv, NEW w \in Workers, doSaveMessage(w)
    PROVE  /\ task[w].cmd \in {"MESSAGE_SEND", "MESSAGE_SEND_CHAT"}
           /\ pc[w] = "save" /\ pc'[w] = "send" /\ task' = task
           /\ loc'[w].reply.status = "ok"
           /\ \E row : /\ messages' = Append(messages, row)
                       /\ row.message = task[w].request.message
                       /\ row.user_from = task[w].request.uid
                       /\ IsTarget(task[w], row.chat_to)
<1>1. /\ TaskFits(pc[w], task[w]) /\ LocalsFit(pc[w], task[w], loc[w])
      /\ pc \in [Workers -> Stages] /\ loc \in [Workers -> Locals]
  BY ThreadTyped DEF WorkerTypeOK
<1>2. pc[w] = "save" /\ Answer(w, Plain("cmd", "ok"))
  BY DEF doSaveMessage, At
<1>3. task[w].cmd \in {"MESSAGE_SEND", "MESSAGE_SEND_CHAT"}
  BY <1>1, <1>2 DEF TaskFits
<1>4. IsAuthor(task[w], loc[w].user) /\ IsTarget(task[w], loc[w].chat)
  BY <1>1, <1>2, <1>3 DEF LocalsFit, Authenticated
<1>5. users[loc[w].user].id = task[w].request.uid
  BY <1>4 DEF IsAuthor
<1>6. PICK reply : reply = Plain("cmd", "ok") /\ reply.status = "ok"
  <2>1. Plain("cmd", "ok").status = "ok"
    BY DEF Plain
  <2>2. QED
    BY <2>1
<1>7. pc'[w] = "send" /\ task' = task /\ loc' = [loc EXCEPT ![w].reply = reply]
  BY <1>1, <1>2, <1>6 DEF Answer, Goto
<1>8. loc'[w].reply.status = "ok"
  BY <1>1, <1>6, <1>7 DEF Locals
<1>9. PICK row : row = [flags |-> "UNREAD", user_from |-> users[loc[w].user].id,
                        chat_to |-> loc[w].chat, ts |-> loc[w].ts,
                        message |-> task[w].request.message]
  OBVIOUS
<1>10. messages' = Append(messages, row)
  BY <1>9 DEF doSaveMessage, saveMessage
<1>11. /\ row.message = task[w].request.message
       /\ row.user_from = task[w].request.uid /\ row.chat_to = loc[w].chat
  BY <1>5, <1>9
<1>12. IsTarget(task[w], row.chat_to)
  BY <1>4, <1>11
<1>13. QED
  BY <1>2, <1>3, <1>7, <1>8, <1>10, <1>11, <1>12

\* An answer is not taken back.
LEMMA AnswersStay ==
    ASSUME PoolInv, NEW w \in Workers, processQueue(w), NEW c \in Clients,
           NEW a \in Answers(c)
    PROVE  a \in Answers(c)'
<1>1. KeepsTask(w) \/ TakesTask(w) \/ DropsTask(w) \/ AnswersTask(w)
  BY PoolTyped, TaskMoves
<1>2. /\ \A v \in Workers : v # w => pc'[v] = pc[v] /\ task'[v] = task[v]
                                     /\ loc'[v] = loc[v]
      /\ writes \in [Clients -> Seq(Response)]
  BY PoolTyped, WorkerStepFits DEF StepFits, Others
<1>3. CASE \E k \in DOMAIN writes[c] : a = writes[c][k]
  <2>1. PICK k \in DOMAIN writes[c] : a = writes[c][k]
    BY <1>3
  <2>2. k \in DOMAIN writes'[c] /\ writes'[c][k] = a
    BY <2>1, PoolTyped, WritesGrow
  <2>3. QED
    BY <2>2 DEF Answers
<1>4. CASE \E v \in Serving(c) : pc[v] = "send" /\ a = loc[v].reply
  <2>1. PICK v \in Workers : /\ task[v] # NoTask /\ task[v].client = c
                             /\ pc[v] = "send" /\ a = loc[v].reply
    BY <1>4 DEF Serving
  <2>2. CASE v # w
    BY <1>2, <2>1, <2>2 DEF Answers, Serving, At
  <2>3. CASE v = w
    <3>1. AnswersTask(w)
      BY <1>1, <2>1, <2>3 DEF KeepsTask, TakesTask, DropsTask
    <3>2. writes'[c] = Append(writes[c], a) /\ writes[c] \in Seq(Response)
      BY <1>2, <2>1, <2>3, <3>1 DEF AnswersTask
    <3>3. Len(writes[c]) + 1 \in DOMAIN writes'[c]
          /\ writes'[c][Len(writes[c]) + 1] = a
      BY <3>2
    <3>4. QED
      BY <3>3 DEF Answers
  <2>4. QED
    BY <2>2, <2>3
<1>5. QED
  BY <1>3, <1>4 DEF Answers, At

\* What SentInv says of one row of the message table.
Stored(i) ==
    \E c \in Clients :
        /\ Sends(c) /\ Said(c, "ok")
        /\ messages[i].message = TextOf(c)
        /\ messages[i].user_from = submitted[c].request.uid
        /\ IsTarget(submitted[c], messages[i].chat_to)

\* It stays true of the row.
LEMMA StoredStays ==
    ASSUME PoolInv, RowsKept, NEW w \in Workers, processQueue(w),
           UNCHANGED submitted, NEW i \in DOMAIN messages, Stored(i)
    PROVE  Stored(i)'
<1>1. PICK c \in Clients :
        /\ Sends(c) /\ Said(c, "ok")
        /\ messages[i].message = TextOf(c)
        /\ messages[i].user_from = submitted[c].request.uid
        /\ IsTarget(submitted[c], messages[i].chat_to)
  BY DEF Stored
<1>2. /\ messages'[i].message = messages[i].message
      /\ messages'[i].user_from = messages[i].user_from
      /\ messages'[i].chat_to = messages[i].chat_to
  BY PoolTyped, KeptRows
<1>3. PICK t, x : t = submitted[c] /\ x = messages[i].chat_to
  OBVIOUS
<1>4. IsTarget(t, x)
  BY <1>1, <1>3
<1>5. IsTarget(t, x)'
  BY <1>4, PoolTyped, FactsKept
<1>6. PICK a \in Answers(c) : a.status = "ok"
  BY <1>1 DEF Said
<1>7. a \in Answers(c)'
  BY AnswersStay
<1>8. Said(c, "ok")'
  BY <1>6, <1>7 DEF Said
<1>9. Sends(c)' /\ TextOf(c)' = TextOf(c)
  BY <1>1 DEF Sends, Asked, TextOf
<1>10. IsTarget(submitted[c], messages[i].chat_to)'
  BY <1>2, <1>3, <1>5
<1>11. QED
  BY <1>1, <1>2, <1>8, <1>9, <1>10 DEF Stored

\* A sender that is told "ok" now is served by the thread that stores now.
LEMMA NewOkIsSaved ==
    ASSUME PoolInv, NEW w \in Workers, processQueue(w), UNCHANGED submitted,
           NEW c \in Clients, Sends(c), Said(c, "ok")', ~Said(c, "ok")
    PROVE  doSaveMessage(w) /\ w \in Serving(c) /\ task[w] = submitted[c]
<1>1. PICK a \in Answers(c)' : a.status = "ok"
  BY DEF Said
<1>2. a \notin Answers(c)
  BY <1>1 DEF Said
<1>3. /\ w \in Serving(c) /\ task[w] = submitted[c]
      /\ pc[w] # "send" /\ pc'[w] = "send" /\ a = loc'[w].reply
  BY <1>2, NewAnswer
<1>4. QED
  BY <1>1, <1>3, PoolTyped, OkMeansSaved DEF Sends

\* A message table that does not grow keeps SentInv.
LEMMA NoSaveKeepsSent ==
    ASSUME PoolInv, RowsKept, NEW w \in Workers, processQueue(w),
           UNCHANGED submitted, SentInv, ~doSaveMessage(w)
    PROVE  SentInv'
<1>1. DOMAIN messages' = DOMAIN messages
  BY PoolTyped, OnlySavingAdds
<1>2. \A i \in DOMAIN messages : messages'[i].message = messages[i].message
  BY PoolTyped, KeptRows
<1>3. \A c \in Clients : (Sends(c)' <=> Sends(c)) /\ TextOf(c)' = TextOf(c)
  BY DEF Sends, Asked, TextOf
<1>4. \A c \in Clients : Sends(c) /\ Said(c, "ok")' => Said(c, "ok")
  BY NewOkIsSaved
<1>5. \A i \in DOMAIN messages : Stored(i)'
  BY StoredStays DEF SentInv, Stored
<1>6. QED
  BY <1>1, <1>2, <1>3, <1>4, <1>5 DEF SentInv, Stored

\* One that grows gets the message of a sender that had none there.
LEMMA SaveKeepsSent ==
    ASSUME PoolInv, RowsKept, NEW w \in Workers, processQueue(w),
           UNCHANGED submitted, SentInv, doSaveMessage(w)
    PROVE  SentInv'
<1>1. /\ task[w].cmd \in {"MESSAGE_SEND", "MESSAGE_SEND_CHAT"}
      /\ pc[w] = "save" /\ pc'[w] = "send" /\ task' = task
      /\ loc'[w].reply.status = "ok"
  BY PoolTyped, SavedMessage
<1>2. PICK row : /\ messages' = Append(messages, row)
                 /\ row.message = task[w].request.message
                 /\ row.user_from = task[w].request.uid
                 /\ IsTarget(task[w], row.chat_to)
  BY PoolTyped, SavedMessage
<1>3. PICK c \in Clients : w \in Serving(c)
  <2>1. task[w] # NoTask /\ task[w].client \in Clients
    <3>1. pc[w] \notin Waiting
      BY <1>1 DEF Waiting
    <3>2. task[w] \in Task
      BY <3>1, PoolTyped, ThreadTyped
    <3>3. QED
      BY <3>2, NoTaskIsNone DEF Task
  <2>2. QED
    BY <2>1 DEF Serving
<1>4. task[w] = submitted[c] /\ task[w] # NoTask
  BY <1>3, PoolTyped DEF Placed, OwnTask, Serving
<1>5. Answers(c) = {}
  <2>1. writes[c] = <<>> /\ \A v \in Serving(c) : v = w
    BY <1>3, PoolTyped DEF Placed, OnePlace
  <2>2. QED
    BY <1>1, <2>1 DEF Answers, At
<1>6. Said(c, "ok")'
  <2>1. w \in Serving(c)' /\ At(w, "send")'
    BY <1>1, <1>3 DEF Serving, At
  <2>2. loc'[w].reply \in Answers(c)'
    BY <2>1 DEF Answers
  <2>3. QED
    BY <1>1, <2>2 DEF Said
<1>7. \A d \in Clients : (Sends(d)' <=> Sends(d)) /\ TextOf(d)' = TextOf(d)
  BY DEF Sends, Asked, TextOf
<1>8. Sends(c) /\ row.message = TextOf(c)
  BY <1>1, <1>2, <1>4 DEF Sends, Asked, TextOf
<1>9. \A i \in DOMAIN messages : messages[i].message # TextOf(c)
  BY <1>5, <1>8 DEF SentInv, Said
<1>10. PICK n : n = Len(messages) + 1
  OBVIOUS
<1>11. /\ DOMAIN messages' = DOMAIN messages \cup {n} /\ n \notin DOMAIN messages
       /\ messages'[n] = row
       /\ \A i \in DOMAIN messages : messages'[i] = messages[i]
  BY <1>2, <1>10, PoolTyped DEF StorageTypeOK
<1>12. \A i \in DOMAIN messages : Stored(i)'
  BY StoredStays DEF SentInv, Stored
<1>13. Stored(n)'
  <2>1. PICK t, x : t = task[w] /\ x = row.chat_to
    OBVIOUS
  <2>2. IsTarget(t, x)
    BY <1>2, <2>1
  <2>3. IsTarget(t, x)'
    BY <2>2, PoolTyped, FactsKept
  <2>4. IsTarget(submitted[c], messages[n].chat_to)'
    BY <1>4, <1>11, <2>1, <2>3
  <2>5. messages'[n].user_from = submitted'[c].request.uid
    BY <1>2, <1>4, <1>11
  <2>6. messages'[n].message = TextOf(c)'
    BY <1>7, <1>8, <1>11
  <2>7. QED
    BY <1>6, <1>7, <1>8, <2>4, <2>5, <2>6 DEF Stored
<1>14. \A i, j \in DOMAIN messages' : messages'[i].message = messages'[j].message => i = j
  BY <1>8, <1>9, <1>11 DEF SentInv
<1>15. ASSUME NEW d \in Clients, Sends(d), Said(d, "ok")'
       PROVE  \E i \in DOMAIN messages' : messages'[i].message = TextOf(d)
  <2>1. CASE Said(d, "ok")
    BY <1>11, <1>15, <2>1 DEF SentInv
  <2>2. CASE ~Said(d, "ok")
    <3>1. d = c
      BY <1>3, <1>15, <2>2, NewOkIsSaved DEF Serving
    <3>2. QED
      BY <1>8, <1>11, <3>1
  <2>3. QED
    BY <2>1, <2>2
<1>16. \A d, e \in Clients : Sends(d)' /\ Sends(e)' /\ TextOf(d)' = TextOf(e)' => d = e
  BY <1>7 DEF SentInv
<1>17. \A d \in Clients : Sends(d)' /\ Said(d, "ok")' =>
         \E i \in DOMAIN messages' : messages'[i].message = TextOf(d)'
  BY <1>7, <1>15
<1>18. \A i \in DOMAIN messages' : Stored(i)'
  BY <1>11, <1>12, <1>13
<1>19. QED
  BY <1>14, <1>16, <1>17, <1>18 DEF SentInv, Stored

\* A new sender brings a text nobody else has.
LEMMA SubmitKeepsSent ==
    ASSUME PoolInv, DistinctTexts, SentInv, NEW c \in Clients, Submit(c)
    PROVE  SentInv'
<1>1. PICK load \in Workloads :
        /\ \A d \in Clients : submitted[d] # NoTask => submitted[d] \in load[d]
        /\ \E t \in load[c] :
             putTask(t) /\ submitted' = [submitted EXCEPT ![c] = t]
  BY DEF Submit
<1>2. PICK t \in load[c] : submitted' = [submitted EXCEPT ![c] = t]
  BY <1>1
<1>3. /\ submitted'[c] = t /\ submitted[c] = NoTask
      /\ \A d \in Clients : d # c => submitted'[d] = submitted[d]
  BY <1>2, PoolTyped DEF Submit
<1>4. \A d \in Clients : Sends(d)' => submitted'[d] \in load[d]
  BY <1>1, <1>2, <1>3 DEF Sends, Asked
<1>5. \A d, e \in Clients : Sends(d)' /\ Sends(e)' /\ TextOf(d)' = TextOf(e)' => d = e
  BY <1>4 DEF DistinctTexts, Sends, TextOf
<1>6. \A d \in Clients : Answers(d)' = Answers(d)
  BY SameAnswers DEF Submit
<1>7. Answers(c) = {}
  BY <1>3, NotAskedIsNowhere DEF Answers
<1>8. /\ \A d \in Clients : Said(d, "ok")' <=> Said(d, "ok")
      /\ ~Said(c, "ok")
  BY <1>6, <1>7 DEF Said
<1>9. \A d \in Clients : d # c =>
        (Sends(d)' <=> Sends(d)) /\ TextOf(d)' = TextOf(d)
  BY <1>3 DEF Sends, Asked, TextOf
<1>10. UNCHANGED <<users, chats, messages>>
  BY DEF Submit, storageVars
<1>11. ASSUME NEW i \in DOMAIN messages PROVE Stored(i)'
  <2>1. PICK d \in Clients :
        /\ Sends(d) /\ Said(d, "ok")
        /\ messages[i].message = TextOf(d)
        /\ messages[i].user_from = submitted[d].request.uid
        /\ IsTarget(submitted[d], messages[i].chat_to)
    BY DEF SentInv
  <2>2. d # c /\ submitted'[d] = submitted[d]
    BY <1>3, <1>8, <2>1
  <2>3. IsTarget(submitted[d], messages[i].chat_to)'
    BY <1>10, <2>1, <2>2 DEF IsTarget
  <2>4. QED
    BY <1>8, <1>9, <1>10, <2>1, <2>2, <2>3 DEF Stored
<1>12. \A d \in Clients : Sends(d)' /\ Said(d, "ok")' =>
         \E i \in DOMAIN messages' : messages'[i].message = TextOf(d)'
  BY <1>8, <1>9, <1>10 DEF SentInv
<1>13. \A i, j \in DOMAIN messages' : messages'[i].message = messages'[j].message => i = j
  BY <1>10 DEF SentInv
<1>14. QED
  BY <1>5, <1>10, <1>11, <1>12, <1>13 DEF SentInv, Stored

\* Where the tables, the answers and the requests stay as they are.
LEMMA QuietKeepsSent ==
    ASSUME SentInv, UNCHANGED <<storageVars, pc, task, loc, writes, submitted>>
    PROVE  SentInv'
BY DEF SentInv, Sends, Asked, TextOf, Said, Answers, Serving, At, IsTarget,
       storageVars

\* A sender that is told "ok" has one message in the table, from it and for the
\* chat that it named; one that is told otherwise, or nothing yet, has none.
THEOREM PoolSendIsStoredOnce == DistinctTexts /\ PoolSpec => []SendIsStoredOnce
<1> SUFFICES ASSUME DistinctTexts PROVE PoolSpec => []SendIsStoredOnce
  OBVIOUS
<1>1. ASSUME PoolInv, SentInv, [PoolNext]_poolVars PROVE SentInv'
  <2>1. RowsKept
    BY <1>1, PoolStepKeepsInv
  <2>2. ASSUME NEW w \in Workers, processQueue(w), UNCHANGED callerVars
        PROVE  SentInv'
    BY <1>1, <2>1, <2>2, NoSaveKeepsSent, SaveKeepsSent DEF callerVars
  <2>3. ASSUME UNCHANGED <<storageVars, pc, task, loc, writes, submitted>>
        PROVE  SentInv'
    BY <1>1, <2>3, QuietKeepsSent
  <2>4. ASSUME Tick, UNCHANGED callerVars PROVE SentInv'
    BY <2>3, <2>4 DEF Tick, callerVars
  <2>5. ASSUME UNCHANGED poolVars PROVE SentInv'
    BY <2>3, <2>5 DEF poolVars, workerVars, callerVars
  <2>6. QED
    BY <1>1, <2>2, <2>4, <2>5, SubmitKeepsSent DEF PoolNext
<1>2. StorageInit /\ PoolInit => SentInv
  BY DEF StorageInit, PoolInit, SentInv, Sends, Asked
<1>3. ASSUME PoolInv, SentInv, NEW c \in Clients, Sends(c),
             NEW stored, stored = {i \in DOMAIN messages :
                                     messages[i].message = TextOf(c)}
      PROVE  /\ Cardinality(stored) = IF Said(c, "ok") THEN 1 ELSE 0
             /\ \A i \in stored :
                  /\ messages[i].user_from = submitted[c].request.uid
                  /\ IsTarget(submitted[c], messages[i].chat_to)
  <2>1. ASSUME NEW i \in stored
        PROVE  /\ Said(c, "ok")
               /\ messages[i].user_from = submitted[c].request.uid
               /\ IsTarget(submitted[c], messages[i].chat_to)
    BY <1>3 DEF SentInv
  <2>2. CASE Said(c, "ok")
    <3>1. PICK i \in DOMAIN messages : messages[i].message = TextOf(c)
      BY <1>3, <2>2 DEF SentInv
    <3>2. \A j \in DOMAIN messages : messages[j].message = TextOf(c) => j = i
      BY <1>3, <3>1 DEF SentInv
    <3>3. stored = {i}
      BY <1>3, <3>1, <3>2
    <3>4. Cardinality(stored) = 1
      BY <3>3, FS_Singleton
    <3>5. QED
      BY <2>1, <2>2, <3>4
  <2>3. CASE ~Said(c, "ok")
    BY <2>1, <2>3, FS_EmptySet
  <2>4. QED
    BY <2>2, <2>3
<1>4. ASSUME PoolInv, SentInv PROVE SendIsStoredOnce
  <2>1. ASSUME NEW t, NEW chat, IsTarget(t, chat)
        PROVE  IF t.cmd = "MESSAGE_SEND"
               THEN \E u \in lookupUserByName(t.request.to_user) :
                      chat = users[u].self_chat_id
               ELSE \E d \in lookupChatByName(t.request.chatname) :
                      chat = chats[d].id
    BY <2>1 DEF IsTarget, lookupUserByName, lookupChatByName
  <2>2. ASSUME NEW c \in Clients, Sends(c), NEW stored,
               stored = {i \in DOMAIN messages :
                           messages[i].message = submitted[c].request.message}
        PROVE  /\ Cardinality(stored) = IF Said(c, "ok") THEN 1 ELSE 0
               /\ \A i \in stored :
                    /\ messages[i].user_from = submitted[c].request.uid
                    /\ IF submitted[c].cmd = "MESSAGE_SEND"
                       THEN \E u \in lookupUserByName(submitted[c].request.to_user) :
                              messages[i].chat_to = users[u].self_chat_id
                       ELSE \E d \in lookupChatByName(submitted[c].request.chatname) :
                              messages[i].chat_to = chats[d].id
    <3>1. stored = {i \in DOMAIN messages : messages[i].message = TextOf(c)}
      BY <2>2 DEF TextOf
    <3>2. QED
      BY <1>3, <1>4, <2>1, <2>2, <3>1
  <2>3. QED
    BY <2>2 DEF SendIsStoredOnce, Sends
<1>5. QED
  BY <1>1, <1>2, <1>4, PoolInvariant, PoolSpecRuns, PTL DEF PoolSpec
=============================================================================
