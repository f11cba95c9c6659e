# A TLA+ model of o2chat

o2chat is a chat server and a console client in C++ over boost.asio, talking
JSON in HTTP over TLS.  This directory holds TLA+ modules for its parts, the
TLC instances that check them and TLAPS proofs of their safety
properties.

## 1. The system

| Component | State | Operations | Interacts with |
|---|---|---|---|
| **In-memory storage** `server/src/inmemory_dbconn.cpp`, `database.hpp` | four tables (users, chats, chatuser, messages), two id counters, one static mutex | create user / chat, add to chat, save message, get and select messages, heartbit, lookups | called by the database threads; every call is one lock region |
| **Database worker** `server/src/database_worker.cpp`, `common/lock_queue.hpp` | the task queue; per thread, the task and the rows it copied | `putTask`, `processQueue` (one branch per command), `run`, `join` | takes tasks of `ApiClient`, answers by calling back into it from its own threads |
| **ApiClient** `server/src/apiclient.cpp` | per connection: request details, newest timestamp, last ping, timer, reads and writes under way, and the references that keep the object alive | completion handlers of handshake, read, write and timer | puts tasks; starts reads and writes on the HTTP connection |
| **HTTP connection** `net/client.cpp` | stream buffer, write buffer, socket | `asyncResponse`, `asyncRequest`, headers, body, chunks | used by server and client |
| **Connecting** `net/async_connect.hpp`, `net/sync_connect.hpp` | list of endpoints, index, timer | try the endpoints in turn | used by the client |
| **Server** `server/src/server.cpp`, `common/io_thread.hpp` | io threads, acceptor, signals, `g_NeedStop` | start, accept, stop, join | makes an `ApiClient` per connection |
| **Chat client** `client/src/client.cpp`, `event_worker.cpp` | two connections (requests, idle), last command, password, id, idle state, mode | input, connect, write and read handlers of both connections | the server, the console |
| **Commands and bodies** `client/src/apiclient_utils.cpp`, `ui.cpp` | none | parse a line, build the body of a request | called by the chat client |
| **Routing and parameters** `server/src/apiclient.cpp`, `request.hpp` | the parameters of a connection's requests | choose the command of a resource, `parse_meta`, `password_check` | part of `ApiClient` |
| Utilities `common/utils.cpp`, `sysutils.cpp` | none | strings, files, processes, crc32 | used everywhere |
| MySQL storage | none: a stub | | |

What is hard in this code:

* the storage mutex is taken several times per task, so other threads run
  between the lookup of a row and its use, and between the two halves of a
  history;
* a message is stamped before the mutex is taken, and polls resume from a
  timestamp;
* an idle connection is polled every 200 ms whether or not the last poll was
  answered, so answers overlap, and a ping resets the newest timestamp;
* the object of a connection lives as long as something refers to it: a task
  that is dropped closes the connection, a timer keeps it for ever;
* one variable holds the request of a connection, whatever else still uses it;
* the io thread that handles signals and accepts runs before the rest of the
  server is started;
* an answer is written from the one write buffer of its connection, and the next
  may be started before the write is complete;
* a line is cut into its parts twice, by different rules, and a request leaves
  the parameters it does not carry as an earlier one set them.

What makes each component correct:

* storage: ids are unique and never 0, references point to rows that exist,
  every user owns a mailbox it is a member of, names are unique as far as the
  code makes them, rows are never removed or rewritten;
* database worker: a task is answered exactly once; a message is stored exactly
  when its sender is told so; of several creators of a name one wins; a reader is
  given only what is its own; all in all, a request has one effect at one moment
  since it was made; stopping terminates;
* ApiClient: a connection does one thing at a time; the cursor of an idle
  connection follows what was written and never goes back; an idle connection
  catches up; a dead one is released;
* HTTP connection: the messages delivered are the messages sent, however the
  bytes are cut, and the blocking reads never block the io thread;
* server: every connection that can be used is served, whatever happened to
  others, and a stop ends the threads;
* commands: what the user typed is what the server takes it for;
* client: an answer is read as the answer to the command it belongs to, the
  acknowledgement of an idle connection is not shown as a message, one sequence
  of attempts connects each connection, nothing uses a connection after it was
  replaced, and after a failure the client gets back to listening, as far as the
  code lets it.

## 2. The modules

| Module | Models |
|---|---|
| `Storage` | the tables and every operation on them |
| `DatabaseWorker` (extends `Storage`) | `processQueue` for all ten commands, the queue, the clock and the stop flag |
| `ChatService` (extends `Storage`) | what the threads promise the callers: one effect per request |
| `WorkerPool` (extends `DatabaseWorker`, implements `ChatService`) | the threads closed by callers that put one task each |
| `Server` (extends `WorkerPool`) | the process from its first thread to its end: threads, signals, accepting |
| `ApiClient` (extends `DatabaseWorker`) | connections over the threads |
| `MessageStream` | what a connection promises its owner: the messages of the peer, whole and in order, or an error |
| `HttpConnection` (implements `MessageStream`) | `AsyncHttpClient`, writing in records and reading byte by byte |
| `Protocol` | the parser of the command line, the bodies, the router and `parse_meta` |
| `Client` (extends `Protocol`) | the console client, its two connections and their reconnects |
| `StorageProofs` | theorems about `Storage` |
| `DatabaseWorkerProofs` (extends `StorageProofs`) | lemmas about every step of a database thread, used by the next four |
| `WorkerPoolProofs` (extends `DatabaseWorkerProofs`) | theorems about `WorkerPool` |
| `ChatServiceProofs` (extends `WorkerPoolProofs`) | the threads implement `ChatService` |
| `ServerProofs` (extends `WorkerPoolProofs`) | theorems about `Server` |
| `ApiClientProofs` (extends `DatabaseWorkerProofs`) | theorems about `ApiClient` |
| `HttpConnectionProofs` | theorems about `HttpConnection` |
| `ClientProofs` (extends `Client`) | theorems about `Client`, and the reading of its requests by the server |
| `MCStorage`, `MCWorkerPool`, `MCServer`, `MCApiClient`, `MCHttpConnection`, `MCClient` | TLC instances |

The modules meet as the code does: `WorkerPool` and `ApiClient` are two
environments of the threads of `DatabaseWorker`, and `Server` starts and stops
them under the callers of `WorkerPool`; `ApiClient` and `Client` treat a read as
one operation that ends with a message or an error, which is what
`HttpConnection` is shown to provide (`ImplementsStream`); `Client` composes the
parser, the bodies, the router and `parse_meta` of `Protocol`, and knows the rest
of the server by the answers it can give.

**Storage.**  A table is a sequence, a lookup the set of positions of the rows
it copies.  Every operation holds the mutex from its first to its last line and
is one action.  `StorageNext` calls the operations as `database_worker.cpp`
does, with ids that an earlier lookup returned; `WorkerPool!StorageCalls` checks
that the threads do call them so.

**DatabaseWorker.**  A thread is in a stage (`pc`) of `processQueue`.  An action
is what the thread does up to and including its next access to shared state: a
lock region, the reading of the clock, taking a task, starting an answer.  Since
rows are append-only (`AppendOnly`, proved), the copy of a row is represented by
its position.  crc32 is a constant function that need not be injective.
`to_api_format` reads only names, which never change, and is left out.

**WorkerPool.**  Each client puts one task; what the threads promise each of
them is stated here.  `since` remembers, for the properties and the refinement,
how long the tables were, and what the clock showed, when it was put.

**ChatService.**  One action per outcome of a request.  The state is the storage
itself, so the refinement maps only the answers: `answer[c]` is the answer a
thread has ready or has written for c, and "silence" once a task is gone without
one.  What the code does not do at one moment is said there action by action:
names may be looked up in the tables as they were at any moment since the
request, a message carries any time since then, a poll reads one chat after the
other (`Polls` per chat, `EndPoll`), and a history its two directions each at a
moment of its own.  A poll returns the latest three unread messages of a chat, as
the code does.

**Server.**  `runAt` is where `run()` stands, one action per thread it starts;
the io thread of `m_MainIo` handles one thing at a time, `handleStop` and each
turn of its loop being actions of their own, so that it runs against `run()`.  An
iteration over `m_IoThreads` while `run()` pushes into the vector may crash or go
on.  `IoThread::start` resets the io_service, which forgets an earlier stop.  A
connection is served by the thread of the pool whose io_service its socket was
made with; reading its request and writing its answer are one step each.
`io_workers = 0`, for which `startAccept` divides by zero, is excluded by
`IoPoolAssumption`.

**ApiClient.**  The completion handlers of one connection run on one thread,
each is one action.  `reads` and `writes` are the operations under way, `armed`
and `fired` the timer's wait and the expired waits whose handler has not run.
`Outstanding` and `Alive` count what holds a `shared_ptr` to the object.  A
request is a record of the fields that `parse_meta` copies (`given`), those it
would leave as an earlier request set them, and whether it ends in an error.
`handler_impl` and the rest of `requestFromClientReadHandler` are one action,
`readRequest`.

**HttpConnection.**  The messages of the peer are written record by record
(`RecordSize` bytes, 16 KB in TLS) from its one write buffer; the first record is
taken before `asyncWrite` returns.  The peer may start the next message while
records are left (`overwritten`); what it sends then is undefined, and the model
ends.  The network delivers any prefix of what was written at any time and may
lose any suffix.  `op` is the
asynchronous read under way, with the place where its next search starts.
Letters and lines are abstracted: CR, LF and the bytes of a body are single
bytes, a header line or a chunk size is one.  The blocking `read` and
`read_until` wait for a completion on a thread that runs the io_service they
wait for; a read that would have to wait is the state `done = "blocked"`.  The
six kinds of defect of a message are one for each test of the parser.  gzip and
values of `Content-Length` beyond `size_t` are left out: no peer of this
repository sends them.  `MessagesAssumption` ties the parts of a message together:
without a body there are no chunks, a chunk is not empty (an empty one is the
last), and a bad `Content-Length` or chunk size needs a message that has one.

**Protocol.**  A line is a sequence of symbols: words (longest runs of the
characters `\w` of a regular expression), spaces and signs, which is what tells
`split` and the regular expression of `get_msg_after_command` apart.  Bodies are
records; `Huge` stands for the `size_t` of a negative count, which JSON readers
refuse as an unsigned.  `parse_meta` returns the parameters with whatever the
body does not have, or has unusable, left as it was; the tests of `parse` exclude one another, as its chain
of `if`s does.

**Client.**  What the user wants (`wish`), a command of the help text and its
arguments, goes with the line he types, the request and the answer as a ghost,
for `UnderstoodAsTyped` to compare with what the server took the request for
(`Hears`).  `Parsed` tabulates the parser over the lines that can be typed.
An `AsyncHttpClient` and its socket are an object of `Objects`; `net` holds the
sockets, their TLS streams (`tls`), the operations waiting for the network
(`pending`) and those waiting for their handler (`ready`, in the order of
completion).  A
handler is one action, including its `sleep_for`, because one io thread runs
them all; a command of the user is one action of the thread of the EventsWorker.
What is decided by the libraries is modelled thus: an operation on a stream that
is not connected fails at once; a connect closes the socket first and so aborts
what it was doing; a destroyed connection aborts its connect, while its reads
and writes keep the socket; of two overlapping reads either gets the answer; the
use of a destroyed `AsyncHttpClient` crashes (`crash`) or works as if it were
there.  An `ssl::stream` does one handshake.  A connect closes the TCP socket only
(`async_connect.hpp:85`, `net/client.cpp:453`), and a connect that is tried again
uses the same stream; so once a handshake has failed, or was cancelled by the timer
or by another connect, every later one on that object waits for ever or fails
("broken").  On a stream whose handshake is done another one ends at once, and the
server leaves the new connection, because what it reads is no handshake.  Only
`createConnect` makes a new stream.  The server is `Answers`: it accepts the right password, and an id that
LOGIN has returned; an idle request is acknowledged before its password is looked
at, and only its polls are rejected (`polls`), as `ApiClient` has it.
`handleStop` has no caller; QUIT ends the process.  Four
kinds of user (`Tempers`) are explored: one who "listens" waits for every answer
and types nothing while he is logged in; one who "chats" types commands then; one
who "types" tries every command with arguments of every shape, and one who "goes
on" types several in a row, both over a network without faults.
The guarantees about connections are stated for the first.  For one who chats
they do not hold, and what follows from that is the subject of `client_relogin`.
`UnderstoodAsTyped` is about all of them.

Definitions that begin with the comment "Slip" are variants of the definition
after them with one plausible mistake; they are used to test that each property
can fail and are part of no specification.

## 3. What is checked

`storage` is checked for deadlock.  The other runs say `CHECK_DEADLOCK FALSE`,
because their systems may really stop: database threads leave after a stop, or
wait for tasks nobody puts any more, connections end when the peer leaves, the
client quits.  That nothing stops too early is what the liveness properties say.

| Run | Shows |
|---|---|
| `storage` | All table invariants and `AppendOnly`.  At most 4 chats (so 4 users, or users and groups in any mix) and 2 messages: two names, two clients of one chat and a name clash of group and user all occur. |
| `pool` | Two threads and three clients, with one of two workloads: register, make groups of one name, invite, log in and send; or two senders and a reader who has three unread messages.  `TaskConserved`, `OneCreatorWins`, `SendIsStoredOnce`, `ReadIsHandedOver`, `OnlyOwnMessages`, `StorageCalls`, and `ImplementsChatService`, the refinement of `ChatService`. |
| `server` | Start, signals, two connections that may leave before they are accepted, failing accepts, one database thread, two io threads; under `ServerFairness`, `EveryConnectionIsServed`, `JoinReturns` and `StopEndsServer`. |
| `session` | Two connections from handshake to loss, up to two requests each, of every outcome, one possibly idle: `OneThingAtATime`, `CursorFollowsWrites`, `CursorMonotone`, `PollingGoesOn`. |
| `session_idle_live` | A sender and an idle connection under `Fairness`: `PeerGoneIsNoticed`, `CatchesUp`. |
| `http` | Up to two messages of ten kinds, written in records, cut and ended anywhere: `NeverBlocks`, `Aligned`, `EofComesLast`, `EveryMessageArrives`, and `ImplementsStream`, the refinement of `MessageStream`. |
| `client` | Three faults for a user who listens, one for one who chats, every command for one who types, two endpoints: `AnswerMatchesCommand`, `UnderstoodAsTyped`, `AckIsNoMessage`, `OneChainForListener`, `NothingDangles`, and under `Fairness` `ListenerComesBack`, which holds unless a connection stays on a broken stream; and, as an assumption TLC evaluates, `WishesAreRead` for every line that can be typed. |
| `pool_ambiguous_chat` | **Violated**: `ChatDoesNotExist`. |
| `session_duplicates` | **Violated**: `NotifyOnlyAboutNew`. |
| `session_closed` | **Violated**: `DontCloseConnect`. |
| `session_replayed` | **Violated**: `PollsForNewMessages`. |
| `client_relogin` | **Violated**: `ReloginWorks`. |

The five violations are disagreements between the code and its own words:

* A group whose name a user registers later cannot be addressed any more: two
  chats have the name, and the answer is "chat does not exist" (`database_worker.cpp:337`, `357`).
* "notify client only about new messages" (`apiclient.hpp:54`): the next poll is
  put before the write of the previous answer moved the cursor, so a message is
  sent twice.
* "don't close connect" (`apiclient.cpp:602`): `/v1/group/history` is routed to
  a task that no branch of `processQueue` takes; the connection is dropped
  without an answer.
* "start polling storage for new messages" (`apiclient.cpp:421`): when an idle
  request is rejected (a wrong password), the connection reads again while the
  timer goes on; the timer then repeats the next request, so a message is stored
  and answered again every 200 ms.
* "connection is broken, please relogin" (`client.cpp:413`): both connections are
  replaced and the new `m_Http` is connected.  When the write of a typed command
  was under way, its handler reads on the new `m_Http` (`client.cpp:260`), which is
  not connected yet; the read fails, and `onHttpRead` replaces `m_Http` again and
  starts a second sequence of connects.  Each of the two closes the socket the
  other is connecting, whose handler sleeps and does the same, for ever, and
  nobody can log in.  A stream left broken by a handshake has the same effect; the
  property excuses it, so that the run is about the two sequences.

**Bounds.**  Two threads are enough for every race of the pool, because a race
is between two lock regions; three clients allow two writers of a name and a
reader.  A client's request comes from one of two `Workloads`, whose requests
interfere with one another and not with those of the other.  The threads are
symmetric; that run has safety properties only, so the symmetry is sound.
`server` has one database thread, since what they do to one another is the
subject of `pool`, and two io threads (`IoPoolSize`), so that a stop may find the
first started and the second not.  `Time` is 0 .. 2: before, same second, later.  `Word` is 8 instead of
2^32.  In `ApiClient` the queue, and the reads and writes of a connection, are
bounded when the timer puts a poll (`MaxQueue`, `MaxWrites`), which is the one
place where the code is unbounded; two polls under way are enough for answers to
overlap.  `PingPeriod` is 0 so that pings occur.  The clock stops at the end of
`Time`, pings go on.  Two messages show what one leaves for the next.
`RecordSize` is 12: a short message is one record, a longer one is cut inside
its headers or its body.  In
`Client`, `MaxObjects` is the two connections in use and two, in
`client_relogin` three, that only the operations under way still use;
`MaxChains` is 2, since the question is whether there can be a second sequence
of connects; `MaxFaults` allows a break during the reconnect that follows a
break; `MaxTyped` does not count the way back to being logged in, so that the
liveness properties are not about a user who has run out of commands.  Who
types sends one command of every shape, who goes on two, which is what it takes
for one request to leave something for the next.  Two
endpoints make `RangeConnectOp` go on to the next one.

**Fairness.**  `ServerFairness` is weak fairness of each thread: the scheduler
runs it and a mutex is acquired; and a connection waiting in the backlog is
accepted in the end, although accepts may fail for want of descriptors any number
of times.  Clients and signals owe nothing.  `ApiClient!Fairness` is weak fairness of the handlers of the
io threads and of the database threads; the peer owes nothing.  The one further
assumption, `SomeWriteFailsInTime`, is that writes to a peer that has left fail,
now and then while the timer is waiting: `m_Timer.cancel()` does not reach a
wait that has expired already, so if every failure hit the microseconds between
the expiry of the timer and its handler, the connection would never end.
`HttpConnection!Fairness`: the network delivers what was written or reports the
end, handlers run, and the owner reads on after each message, as both programs
do.  `Client!Fairness`: the two threads run, operations that stay under way
complete, and the user leaves the chat and logs in when it is his turn; fairness
is per sequence of connects, because a handler that connects anew aborts the
connect under way, so that no particular one need complete.  A failed write is
only logged by the client, which then waits for ever; the liveness properties
exclude it (`logged`).  A handshake on a broken stream may fail at any time or
never: it owes nothing.  A user who stays on such a stream is excluded, too
(`Stuck`), which is no assumption about the network but a limit of the code: one
failed handshake of the idle connection is enough, and without that disjunct TLC
finds the user who has logged in and never receives a message.

## 4. What is proved

TLC checks a small instance; the theorems hold for any number of threads,
clients, names, messages and times.  Each is `Spec => []Inv` or an action
property, by an inductive invariant that TLC checked before it was proved.
Where a component starts from empty tables, the theorem is stated for a server
that begins with any tables satisfying `StorageInv` (`RunningSpec`,
`ServingSpec`, `ServerSpec`), which the specifications of the runs imply
(`PoolSpecRuns`, `ServerSpecServes`).

The assumptions are those of the modules: `StorageAssumption` (times are
naturals, 0 among them), `WorkerAssumption` (crc32 is a function of a password,
and the default `ts` of a poll, 1, is a time), `WorkloadsAssumption` (a client
puts tasks of its own), `SessionAssumption` (requests carry times, a command that
is none is invalid, and a connection begins with `ts` 0), `IoPoolAssumption` (at
least one io thread), `HttpConstants` (a record has at least one byte) and
`MessagesAssumption` (what the framing and the defect of a message say of its
chunks; the sequences of bytes themselves are arbitrary), `ClientConstants` (there
is an endpoint, two connections fit, the bounds are naturals) and
`ProtocolConstants` (numerals are naturals, and no word of the length of a
password is empty).

**Storage** (`StorageProofs`).

    StorageInv == StorageTypeOK /\ KeysUnique /\ UniqueUserNames /\ ForeignKeys
                    /\ OwnMailbox /\ NoDoubleMembership
                    /\ NameSharedByGroupAndUserOnly

The parts lean on each other: a new row is fresh only because all ids are below
the counters (`KeysUnique`), and the mailbox of a user stays its own only because
the id of the new chat is fresh and no new user takes an old chat.  One lemma per
operation shows that it keeps `StorageInv`.  Every property of the run `storage`
is a theorem, `AppendOnly` (`StepKeepsRows`) included.

**Database threads** (`DatabaseWorkerProofs`).  `processQueue` gives the mutex up
between a lookup and the use of what it found.  `ThreadOK` says, stage by stage,
what the task of a thread can be (`TaskFits`) and what its locals still mean
(`LocalsFit`): the author is the one user with the id and password of the
request, a target the id of the chat the request names, a batch consists of new
messages of the author's chats, an answer is one the task can have (`IsAnswer`).
All of it is about rows that exist, so the steps of other threads, which only add
rows (`RowsKept`), leave it true: `FactsKept`, `AnswerKept`, `LocalsKept`.  One
lemma per action then shows that a thread ends in the next stage with its facts,
and that what it did to the tables is a step of `StorageNext`
(`WorkerStepFits`); so

    WorkerInv == StorageInv /\ WorkerTypeOK /\ \A w \in Workers : ThreadOK(w)

is kept by every step of a thread (`WorkerStepKeepsInv`) and by everything else
that leaves the threads and the tables alone (`EnvironmentKeepsInv`).

**The pool** (`WorkerPoolProofs`).  `PoolInv` adds where a task is: in the queue,
with one thread, or answered (`OnePlace`), that it is the task its client has put
(`OwnTask`), that only a task without a branch is nowhere (`NotLost`), and that
two clients have not both created one name (`NotBothCreated`).  The last is the
deep one: an "ok" needs the name to be free in the lock region that creates it,
while an earlier "ok" means that it is taken, and rows stay.  From `PoolInv`
follow `StorageCalls`, `TaskConserved`, `OneCreatorWins`, `OnlyOwnMessages` and
`AppendOnly`.  Two need more:

* `ReadIsHandedOver`: `HandedOver` follows a READ message from the batch of the
  thread that marked it into the answer.  The theorem assumes that no message was
  READ at first, since who read those is not in the model.
* `SendIsStoredOnce`: a stored message is known to be that of a client only by its
  text, so the theorem is about clients that send different texts
  (`DistinctTexts`), from empty tables (`PoolSpec`).  `SentInv` counts the rows of
  each text along the stages of the thread that has the task.

**The service** (`ChatServiceProofs`).  That the threads implement `ChatService`
is proved for any number of threads and clients, any workloads and any tables
(`PoolImplementsService`).  `PoolInv` says what the locals of a thread mean now;
the service also says when they were found.  `SinceInv` remembers it stage by
stage (`SinceFits`): the chat found is the only one of its name that is older
than the request (`IsOnly`), the time was read since then, the batch of a poll
consists of the news of each chat read so far, each as of a moment of its own,
and the chats still to read complete those of one moment (`IsPolled`), and the
first direction of a history is the one of some moment (`IsSent`).  Tables only
grow, so what was true of a length stays true (`SinceKept`), and `ServiceInv ==
PoolInv /\ SinceInv` is inductive (`ServiceInvariant`).  The other half is the
refinement mapping: of the four things a step can do with a task (keep, take,
drop, answer it) only a kept task that comes to its answer, a dropped one and a
group history that is taken change the outcome of a client, and only of that
client (`KeepsOutcome`, `TakesOutcome`, `DropsOutcome`, `AnswersOutcome`).  So
every action of a thread is one action of the service or a stutter, one lemma
each (`AuthServes` ... `RespondServes`).

**The server** (`ServerProofs`).  `ServerInv` says what exists at each point of
`run()` (`Made`, `Joined`), that a thread leaves only after a stop
(`LeavesAfterStop`), and that a stop that finds the pool complete goes through
all of it (`GoesThrough`, `LoopInPool`).  Besides `ServerTypeOK` it gives two
safety statements no run checks, the safety half of `JoinReturns` and
`StopEndsServer`: `run()` returns only after a stop with every thread gone
(`ServerReturnsStopped`), and such a stop reaches every io thread
(`ServerStopTellsAll`).  A step of the server is a step of the pool, or lets a
thread leave (`ServerStepsPool`), so `PoolInv` and what follows from it hold in
the whole server (`ServerKeepsPromises`, `ServerCallsStorage`).

**Connections** (`ApiClientProofs`).  `SessionInv` adds to `WorkerInv`, for each
connection: nothing is under way before the handshake ends (`Unstarted`); one
that does not poll has at most one read, task or answer under way, for its last
request, and at least one while it is open (`OneThing`); only an IDLE request
starts the timer (`Polls`); what is being written exists (`RowsExist`); the
newest timestamp and the cursor are those of a message that was sent, or what the
peer asked for (`Cursor`).  From it: `OneThingAtATime`, `CursorFollowsWrites`,
`CursorMonotone`, `PollingGoesOn` and the types of the threads under the
connections.  `CursorMonotone` needs that `max_timestamp` of a non-empty answer
is a timestamp of it (`MaxTimestamp`), by the largest element of a finite set.

The second half of `OneThingAtATime`, about a connection whose peer has left, is
only about connections that never poll (`NeverIdles`): when a failed write ends
the polling, earlier polls may still be worked on.

**HTTP connection** (`HttpConnectionProofs`).  The proof is for any messages,
with any bytes in their bodies, in any number, written in records of any size,
cut anywhere and ended anywhere.  `Held(buf, w, t, r)` says that `r` is what is
buffered, what is on its way and what is neither, one behind the other.
`Expects(r)` says, for each read in progress, which bytes are still to come: the
rest of the message from the place where the reader is, and the messages behind
it.  With

    IInv == Typed /\ Searched /\ EndSeen /\ InPlace

`InPlace` says that the stream holds what is expected; `Searched` that the
condition of the read in progress holds exactly when it is complete; `EndSeen`
that the end of the stream is noticed behind the last message that arrived.  The
lemmas come in four groups: cutting and joining sequences (`Joins`, an operator
instead of an equation, so that the provers do not rewrite it at will),
`FlattenSeq`, the first place of a delimiter (`FirstDelimiter`, `ReadUntil`), and
what a message looks like (`BytesAre`, `ChunkIs`, `FirstLineIs`).  The deep one
is `FirstDelimiter`: `read_until` finds the empty line exactly behind the header
lines whatever the body contains, since no header line holds a CR (`TextEnds`);
so no byte of the body or of the next message is taken for the end of the
headers.  Induction over the chunks and the messages, which the library's
theorems cannot give (they take an operator), is done over sets of naturals
(`UpTo`).  From `IInv` follow `HttpTypeOK`, `NeverBlocks`, `Aligned` and
`EofComesLast`, and each handler is a step of `MessageStream` or a stutter
(`StepHolds`), hence `HttpImplementsStream`.

**Chat client** (`ClientProofs`).  `TypedInv` says what the record `net` of the
sockets, streams and operations, and the rest of the state, consist of; it is inductive for
every user, and gives `ClientTypeOK`.

For a user who listens, `Listener` says that at most one operation is under way
in the whole client, and which: for `m_Http` while he is `LoggedOut` (with one
line typed at most), for `m_HttpIdle` once he is `LoggedIn`.  Each handler
ends by starting the next operation, or none when the user is asked again; a
handler that connects anew closes an object no operation is under way for.  No
weaker statement is inductive: that an answer fits the last command
(`AnswerMatchesCommand`), that the first answer of an idle connection is its
acknowledgement (`AckIsNoMessage`), that a connection has one sequence of
connects (`OneChainForListener`), and that no operation is under way for an
object that was replaced (`NothingDangles`), all fail as soon as there may be a
second operation, which is what `client_relogin` shows for a user who does not
wait.  So the four are corollaries of `ListenerInvariant`.

What the server understands is proved for every user.  `TalkNow` says that no
connection is used both for commands and for messages, and that every request
being written, asked or answered on a connection for commands is `Understood`:
whatever parameters earlier requests of the connection left, `parse_meta`
refuses it or takes for each argument what the user typed.  Whether a body is
`Understood` (`UnderstoodIf`) is a fact about the names under which the client
writes a parameter and the server asks for it, command by command
(`RequiredAre`, `RouteIs`).  `RequestsAreUnderstood` concludes `UnderstoodAsTyped`
from one hypothesis on the constants, `WishesAreRead`: that the parser returns,
for every line of `Input`, the command and the arguments it was typed for.  What a
parser returns for every line is induction over data, so TLC evaluates the
hypothesis for the lines of its run (`LinesAreRead`, an assumption of
`MCClient`).

**Only model-checked:**

* liveness, which is out of the prover's reach (no rules for fairness with
  ENABLED): `EveryConnectionIsServed`, `JoinReturns`, `StopEndsServer`,
  `PeerGoneIsNoticed`, `CatchesUp`, `EveryMessageArrives`, `ListenerComesBack`;
* what the parser of `Protocol` returns for every line (`WishesAreRead`), which is
  induction over data.

## 5. Not modelled

* MySQL storage (a stub), JSON and console text, options and logging, third
  party code, and the helpers of `utils.cpp` and `sysutils.cpp` that no state
  depends on.
* gzip, the blocking `TcpClient::connect` and the blocking writes, which have no
  caller, and name resolution.
* What goes on the wire after a write has overtaken another (`overwritten`).
* Data races on objects that are not part of the model: the ssl stream used from
  a database thread, `m_HttpCode`, and the client's `m_Http` and `m_Password`,
  which the thread of the EventsWorker shares with the io thread.
* The destruction of the server after `run()` has returned, in which the members
  of `Server` go in the reverse order of their declaration.

Some behaviour is in the model and in no property, because no word of the
repository contradicts it: a name with a character other than letters, digits and
`_` may be registered, but of a message typed for it the regular expression
leaves a piece of the name in the text; HISTORY with a negative number uses the
number of an earlier request; HISTORY_G and STATUS_G are in the help text and
send nothing; `CHAT_STATUS` and `MESSAGE_RECENT` have a resource and no route; a
client goes on trying a stream whose handshake has failed and never replaces it
(excused by `ListenerComesBack` and `ReloginWorks`, see Fairness).

## 6. Plan

1. Storage, its proofs (done).
2. The database threads, the pool and the service they implement (done).
3. ApiClient (done).
4. The HTTP connection, both halves, and its abstract stream (done).
5. The chat client with its reconnects, its commands and their reading by the
   server (done).
6. Start and stop of the server (done).
7. Proofs about the storage, the threads, the pool, the server and the
   connections (done).
8. Proofs about the HTTP connection, with the simulation of `MessageStream`
   (done).
9. The simulation of `ChatService` by the pool, action by action (done).
10. Safety of the client: one operation at a time for a user who listens, and
    requests that are understood, for every user (done).
