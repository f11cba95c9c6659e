------------------------------- MODULE Client -------------------------------
(***************************************************************************)
(* The console client (src/client/src/client.cpp) with its two connections *)
(* to the server: m_Http carries the commands of the user, m_HttpIdle the  *)
(* messages for him.  Completion handlers run one after the other on the   *)
(* one io thread, commands on the thread of the EventsWorker.              *)
(*                                                                         *)
(* A connection is an AsyncHttpClient with its socket, here an object of   *)
(* `Objects'.  createConnect replaces one while operations of the old one  *)
(* may be under way; operation `pending' wait for the network, operations  *)
(* `ready' for their handler.  A connect that fails is started again by    *)
(* its own handler: such a sequence of attempts is a chain.                *)
(*                                                                         *)
(* What the user wants is a sequence, a command of the help text and its   *)
(* arguments; he types it as a line.  It goes with the line, the request   *)
(* and the answer, for the properties to compare them.                     *)
(***************************************************************************)
EXTENDS Protocol

CONSTANTS
    Endpoints,   \* how many addresses resolve() returns
    Typable,     \* for each user, what he may want: see Line
    Me, Right,   \* his name and password
    Tempers,     \* the users to consider; "listens" is one of a kind, see Type
    MaxObjects,  \* bound on the connections that exist at once
    MaxChains,   \* bound on the chains of one connection
    MaxFaults,   \* for each user, bound on what goes wrong in the network
    MaxTyped     \* for each user, bound on the commands, not counting the way to be logged in

ASSUME ClientConstants ==
    /\ Endpoints \in Nat \ {0}
    /\ MaxObjects \in Nat \ {0, 1}
    /\ MaxChains \in Nat \ {0}
    /\ DOMAIN Typable = Tempers
    /\ MaxFaults \in [Tempers -> Nat]
    /\ MaxTyped \in [Tempers -> Nat]

Objects == 1..MaxObjects
Slots == {"http", "idle"}

VARIABLES
    m_Http, m_HttpIdle, \* the current connections
    net,         \* sockets and operations: see NetInit
    m_LastCmd,   \* the command sent last
    m_User,      \* a user was named on the command line
    m_Password,
    m_SelfId,    \* 0, or the user of an answer to LOGIN: 1, or 2 for another
    m_IdleState, \* the server has acknowledged the idle request
    m_State,     \* mode, "USUAL" or "CHAT_U", and the user chatted with
    m_Timeout,   \* the timer of run(): "armed" or "off"
    m_Queue,     \* the events of the EventsWorker
    user,        \* which kind of user it is
    turn,        \* whose turn it is by what the screen shows
    told,        \* "out", "in" or "relogin", as the user was told
    faults, typed,
    alive,       \* "running", "quit" or "crashed"
    logged       \* a write has failed, which the client only logs

selfVars == <<m_LastCmd, m_User, m_Password, m_SelfId, m_IdleState, m_State>>
userVars == <<m_Queue, user, turn, told, typed>>
clientVars == <<m_Http, m_HttpIdle, net, selfVars, m_Timeout, userVars,
                faults, alive, logged>>

-----------------------------------------------------------------------------
(* Sockets and operations.                                                 *)

NoRequest == [cmd |-> "NONE", resource |-> "", body |-> [uid |-> 0], wish |-> <<>>]

(* An operation: i is the endpoint of a connect and numbers equal reads or *)
(* writes, chain belongs to connects, req is the request of a write, and   *)
(* of the read that follows a write.                                       *)
Op(op, slot, obj, chain, i, req) ==
    [op |-> op, slot |-> slot, obj |-> obj, chain |-> chain, i |-> i, req |-> req]
Connect(slot, obj, chain, i) == Op("connect", slot, obj, chain, i, NoRequest)
Handshake(slot, obj, chain) == Op("handshake", slot, obj, chain, 0, NoRequest)

(* A completion; of an answer, the request it answers, what the server     *)
(* took it for, and the id that the client finds in the answer.            *)
Nothing == [command |-> "NONE", params |-> Params, error |-> FALSE]
Answered(p, res, req, heard, id) ==
    [p |-> p, res |-> res, req |-> req, heard |-> heard, id |-> id]
Done(p, res) == Answered(p, res, NoRequest, Nothing, 0)

NetInit ==
    [sock |-> [o \in Objects |-> "closed"],
     tls |-> [o \in Objects |-> "new"],   \* the ssl::stream: see brokenOff
     m_IsOpen |-> [o \in Objects |-> FALSE],
     asked |-> [o \in Objects |-> <<>>],   \* requests the server has not answered
     params |-> [o \in Objects |-> Params], \* what it keeps of those it has
     polls |-> [o \in Objects |-> "no"],   \* its polls since an idle request:
                                           \* "accepted" or "rejected"
     pending |-> {},
     ready |-> <<>>]

(* The operations of A end with operation_aborted.                         *)
Abort(n, A) ==
    [n EXCEPT !.pending = @ \ A,
              !.ready = @ \o [i \in 1..Cardinality(A) |->
                                 Done(SetToSeq(A)[i], "aborted")]]

(* An ssl::stream does one handshake: "begun", then "done".  Nothing sets   *)
(* it back but createConnect, which makes a new one; with the TCP socket   *)
(* closed under it in the middle, or after a failure, it is "broken".      *)
underWay(tls) == IF tls = "new" THEN "begun" ELSE tls
brokenOff(tls) == IF tls = "begun" THEN "broken" ELSE tls

(* start_connect: close() aborts whatever the socket was doing.            *)
start_connect(n, p) ==
    LET closed == Abort(n, {q \in n.pending : q.obj = p.obj})
    IN  [closed EXCEPT !.sock[p.obj] = "connecting",
                       !.tls[p.obj] = brokenOff(@),
                       !.polls[p.obj] = "no",
                       !.params[p.obj] = Params,
                       !.asked[p.obj] = <<>>,
                       !.pending = @ \union {p}]

LeastOf(S) == CHOOSE x \in S : \A y \in S : x <= y

(* asyncRead and asyncWrite: a stream that is not connected fails at once. *)
StartIo(n, p) ==
    IF n.sock[p.obj] \in {"open", "gone"}
    THEN LET unused == {i \in 0..Cardinality(n.pending) :
                           [p EXCEPT !.i = i] \notin n.pending}
         IN  [n EXCEPT !.pending = @ \union {[p EXCEPT !.i = LeastOf(unused)]}]
    ELSE [n EXCEPT !.ready = Append(@, Done(p, "error"))]

(* BasicTcpClient::isOpen                                                  *)
isOpen(n, o) == n.m_IsOpen[o] /\ n.sock[o] # "closed"

(* Without an owner and a read or write to keep it, a socket is closed.    *)
Collect(n, o) ==
    IF \E p \in n.pending \union {n.ready[i].p : i \in DOMAIN n.ready} :
          p.obj = o /\ p.op \in {"read", "write"}
    THEN n
    ELSE [n EXCEPT !.sock[o] = "closed", !.tls[o] = "new", !.m_IsOpen[o] = FALSE,
                   !.asked[o] = <<>>, !.params[o] = Params, !.polls[o] = "no"]

(* The last shared_ptr to an AsyncHttpClient goes.  Its reads and writes   *)
(* keep the socket alive and go on, a connect or handshake is aborted.     *)
Destroy(n, o) ==
    Collect(Abort(n, {q \in n.pending : q.obj = o /\
                                        q.op \in {"connect", "handshake"}}), o)

InUse(n) == {p.obj : p \in n.pending} \union
            {n.ready[i].p.obj : i \in DOMAIN n.ready}

Unused(n) == Objects \ (InUse(n) \union {m_Http, m_HttpIdle})

\* Slip: the two connections made one after the other are one.
createConnectShared(n, taken) == LeastOf(Unused(n))

(* A new connection, other than those in `taken'.                          *)
createConnect(n, taken) == LeastOf(Unused(n) \ taken)

Chains(n, slot) ==
    ({p.chain : p \in {q \in n.pending : q.slot = slot}} \union
     {n.ready[i].p.chain : i \in {j \in DOMAIN n.ready : n.ready[j].p.slot = slot}})
        \ {0}
FreeChains(n, slot) == (1..MaxChains) \ Chains(n, slot)

-----------------------------------------------------------------------------
Init ==
    /\ m_Http = 1
    /\ m_HttpIdle = 2
    /\ net = start_connect(NetInit, Connect("http", 1, 1, 1))
    /\ m_LastCmd = "NONE"
    /\ m_User \in BOOLEAN
    /\ m_Password = IF m_User THEN Right ELSE <<>>
    /\ m_SelfId = 0
    /\ m_IdleState = FALSE
    /\ m_State = [mode |-> "USUAL", user |-> <<>>]
    /\ m_Timeout = "armed"
    /\ m_Queue = <<>>
    /\ user \in Tempers
    /\ turn = "client"
    /\ told = "out"
    /\ faults = 0
    /\ typed = 0
    /\ alive = "running"
    /\ logged = FALSE

-----------------------------------------------------------------------------
(* The user and the EventsWorker.                                          *)

(* What the user types for a command and its arguments, and what           *)
(* pollingUserInput makes of it.                                           *)
Line(wish) ==
    <<Space, UpperWord(wish[1])>> \o
    FlattenSeq([i \in 1..(Len(wish) - 1) |-> <<Space>> \o wish[i + 1]])
Input == [wish \in UNION {Typable[u] : u \in Tempers} |-> trimmed(Line(wish))]

(* The parser, tabulated.                                                  *)
Parsed == [msg \in {Input[wish] : wish \in DOMAIN Input} |-> parse(msg)]

Login == <<"login", Me, Right>>
Unchat == <<"unchat">>

(* A patient user types when the screen shows the answer to the command    *)
(* before, or that the client is connected.  One who "listens" types       *)
(* nothing more once he is logged in, until he is told to log in again.    *)
Type(wish) ==
    /\ turn = "user"
    /\ user = "listens" => told # "in"
    /\ wish \in Typable[user]
    /\ IF \/ wish = Unchat /\ m_State.mode = "CHAT_U"
          \/ wish = Login /\ m_State.mode = "USUAL" /\ told # "in"
       THEN UNCHANGED typed
       ELSE typed < MaxTyped[user] /\ typed' = typed + 1
    /\ m_Queue' = Append(m_Queue, [msg |-> Input[wish], wish |-> wish])
    /\ turn' = "client"
    /\ UNCHANGED <<m_Http, m_HttpIdle, net, selfVars, m_Timeout, user, told,
                   faults, alive, logged>>

Request(cmd, command, body, wish) ==
    [cmd |-> cmd, resource |-> cmd2string[command], body |-> body,
     wish |-> wish]

\* Slip: what was sent is not noted.
sendRequestUnnoted(n, req) ==
    /\ net' = StartIo(n, Op("write", "http", m_Http, 0, 0, req))
    /\ UNCHANGED m_LastCmd

sendRequest(n, req) ==
    /\ m_LastCmd' = req.cmd
    /\ net' = StartIo(n, Op("write", "http", m_Http, 0, 0, req))

(* Commands that only change the screen and the mode.                      *)
LocalCmds == {"NONE", "HELP", "UNCHAT", "QUIT", "CHAT_WITH_USER", "HISTORY_GROUP",
              "STATUS_GROUP"}

LocalCommand(args) ==
    /\ m_State' = CASE args.cmd = "UNCHAT" -> [mode |-> "USUAL", user |-> <<>>]
                    [] args.cmd = "CHAT_WITH_USER" ->
                         [mode |-> "CHAT_U", user |-> args.name]
                    [] OTHER -> m_State
    /\ alive' = IF args.cmd = "QUIT" THEN "quit" ELSE alive
    /\ turn' = "user"
    /\ UNCHANGED <<net, m_LastCmd, m_Password>>

(* The request of every other command.                                     *)
CommandRequest(args, wish) ==
    LET Req(command, body) == Request(args.cmd, command, body, wish)
        History(count) ==
            build_user_history_msg_body(m_SelfId, args.name, count, m_Password)
        Group(name, username, message) ==
            build_groups_msg_body(m_SelfId, name, username, message, m_Password)
    IN  CASE args.cmd = "LOGIN" ->
               Req("USER_LOGIN", build_user_pass_body(args.name, args.pass))
          [] args.cmd = "REGISTER_USER" ->
               Req("USER_CREATE", build_user_pass_body(args.name, args.pass))
          [] args.cmd = "DIRECT_MSG_USER" ->
               Req("MESSAGE_SEND", build_user_send_msg_body(m_SelfId, 0, args.name,
                                       args.message, m_Password))
          [] args.cmd = "HISTORY_USER" -> Req("USER_HISTORY", History(args.count))
          [] args.cmd = "STATUS_USER" -> Req("USER_STATUS", History(0))
          [] args.cmd = "REGISTER_GROUP" ->
               Req("CHAT_CREATE", Group(args.groupname, <<>>, <<>>))
          [] args.cmd = "ADD_TO_GROUP" ->
               Req("CHAT_ADDUSER", Group(args.groupname, args.name, <<>>))
          [] args.cmd = "DIRECT_MSG_GROUP" ->
               Req("MESSAGE_SEND_CHAT", Group(args.name, <<>>, args.message))

onUserInput(event) ==
    LET args == Parsed[event.msg]
        chat == m_State.mode = "CHAT_U" /\ args.cmd \notin {"UNCHAT", "DIRECT_MSG_USER"}
        local == args.cmd \in LocalCmds
    IN  \/ /\ chat
           /\ sendRequest(net, Request("DIRECT_MSG_USER", "MESSAGE_SEND",
                  build_user_send_msg_body(m_SelfId, 0, m_State.user, event.msg,
                                           m_Password),
                  <<"direct_msg", m_State.user, event.msg>>))
           /\ UNCHANGED <<m_Password, m_State, alive, turn>>
        \/ /\ ~chat /\ local
           /\ LocalCommand(args)
        \/ /\ ~chat /\ ~local
           /\ sendRequest(net, CommandRequest(args, event.wish))
           /\ m_Password' = IF args.cmd = "LOGIN" THEN args.pass ELSE m_Password
           /\ UNCHANGED <<m_State, alive, turn>>

processQueue ==
    /\ m_Queue # <<>>
    /\ m_Queue' = Tail(m_Queue)
    /\ onUserInput(Head(m_Queue))
    /\ UNCHANGED <<m_Http, m_HttpIdle, m_User, m_SelfId, m_IdleState, m_Timeout,
                   user, told, typed, faults, logged>>

-----------------------------------------------------------------------------
(* The network and the server.                                             *)

(* What the server takes the next request of a connection for, and whether *)
(* it knows the user by his name or id and his right password.             *)
Hears(o) ==
    LET req == Head(net.asked[o])
        command == Route(req.resource)
        meta == parse_meta(net.params[o], req.body, command)
    IN  [command |-> command, params |-> meta.params, error |-> meta.error]

Accepts(heard) ==
    /\ heard.params.password = Right
    /\ IF heard.command = "USER_LOGIN" THEN heard.params.user = Me
       ELSE heard.params.uid = 1

(* The answers it can give; the rest of its storage is not in the model.   *)
(* An idle request is acknowledged before the password is looked at.       *)
Answers(heard) ==
    CASE heard.command = "NOT_FOUND" \/ heard.error -> {"bad"}
      [] heard.command = "IDLE" -> {"ack"}
      [] heard.command = "USER_LOGIN" -> {IF Accepts(heard) THEN "200" ELSE "bad"}
      [] OTHER -> {"bad"} \union
                  (IF Accepts(heard) \/ heard.command = "USER_CREATE" THEN {"200"}
                   ELSE {})

(* The user an answer is about: the one logged in, created or asked for.   *)
AnswerId(heard) == IF heard.params.user = Me THEN 1 ELSE 2

(* Without faults an operation ends well, but on a peer that has gone.     *)
Connects(p) ==
    /\ p.op = "connect"
    /\ net' = [net EXCEPT !.pending = @ \ {p}, !.ready = Append(@, Done(p, "ok")),
                          !.sock[p.obj] = "connected"]

(* A handshake on a stream that is done ends at once without a byte; on a  *)
(* new connection the server does not understand what follows, and goes.   *)
(* On a broken stream a handshake never ends well.                         *)
ShakesHands(p) ==
    /\ p.op = "handshake"
    /\ net.tls[p.obj] # "broken"
    /\ net' = [net EXCEPT !.pending = @ \ {p}, !.ready = Append(@, Done(p, "ok")),
                          !.tls[p.obj] = "done",
                          !.sock[p.obj] = IF net.tls[p.obj] = "begun" THEN "open"
                                          ELSE IF @ = "connected" THEN "gone"
                                          ELSE @]

Writes(p) ==
    /\ p.op = "write"
    /\ net' = [net EXCEPT !.pending = @ \ {p}, !.ready = Append(@, Done(p, "ok")),
                          !.asked[p.obj] = Append(@, p.req)]

FailsOnGonePeer(p) ==
    /\ p.op \in {"write", "read"}
    /\ net.sock[p.obj] = "gone"
    /\ net' = [net EXCEPT !.pending = @ \ {p}, !.ready = Append(@, Done(p, "error"))]

(* The server answers the requests of a connection in order.               *)
ReadsAnswer(p) ==
    /\ p.op = "read"
    /\ net.sock[p.obj] = "open"
    /\ net.asked[p.obj] # <<>>
    /\ \E heard \in {Hears(p.obj)} : \E res \in Answers(heard) :
          net' = [net EXCEPT !.pending = @ \ {p},
                             !.ready = Append(@,
                                 Answered(p, res, Head(net.asked[p.obj]), heard,
                                          parse_response_aswer(heard.command,
                                                               AnswerId(heard)))),
                             !.asked[p.obj] = Tail(@),
                             !.params[p.obj] = heard.params,
                             !.polls[p.obj] = IF res # "ack" THEN @
                                              ELSE IF Accepts(heard) THEN "accepted"
                                              ELSE "rejected"]

(* Polling for an idle connection, it sends messages, or that the password *)
(* is wrong.                                                               *)
ReadsMessages(p) ==
    /\ p.op = "read"
    /\ net.sock[p.obj] = "open"
    /\ net.polls[p.obj] # "no"
    /\ net' = [net EXCEPT !.pending = @ \ {p},
                          !.ready = Append(@, Done(p,
                              IF net.polls[p.obj] = "accepted" THEN "msg" ELSE "bad"))]

NetworkDelivers(p) ==
    /\ Connects(p) \/ ShakesHands(p) \/ Writes(p) \/ FailsOnGonePeer(p)
         \/ ReadsAnswer(p) \/ ReadsMessages(p)
    /\ UNCHANGED <<m_Http, m_HttpIdle, selfVars, m_Timeout, userVars, faults,
                   alive, logged>>

(* A connect, a handshake or a write fails.  A handshake on a broken       *)
(* stream waits for ever for a peer that waits, too, or fails by itself.   *)
NetworkFails(p) ==
    /\ p.op # "read"
    /\ net' = [net EXCEPT !.pending = @ \ {p}, !.ready = Append(@, Done(p, "error")),
                          !.tls[p.obj] = IF p.op = "handshake" THEN brokenOff(@)
                                         ELSE @]
    /\ IF p.op = "handshake" /\ net.tls[p.obj] = "broken"
       THEN UNCHANGED faults
       ELSE faults < MaxFaults[user] /\ faults' = faults + 1
    /\ UNCHANGED <<m_Http, m_HttpIdle, selfVars, m_Timeout, userVars, alive, logged>>

(* The peer of a connection goes away.                                     *)
ConnectionDrops(o) ==
    /\ faults < MaxFaults[user]
    /\ net.sock[o] = "open"
    /\ net' = [net EXCEPT !.sock[o] = "gone"]
    /\ faults' = faults + 1
    /\ UNCHANGED <<m_Http, m_HttpIdle, selfVars, m_Timeout, userVars, alive, logged>>

(* The timer started by run() cancels what m_Http is doing.                *)
timeoutExpires ==
    /\ m_Timeout = "armed"
    /\ m_Timeout' = "off"
    /\ net' = Abort(net, {p \in net.pending : p.obj = m_Http})
    /\ UNCHANGED <<m_Http, m_HttpIdle, selfVars, userVars, faults, alive, logged>>

-----------------------------------------------------------------------------
(* The completion handlers, in the order the io thread finds them.         *)

Completion == Head(net.ready)
Handles(op, slot) ==
    net.ready # <<>> /\ Completion.p.op = op /\ Completion.p.slot = slot
Failed == Completion.res \in {"error", "aborted"}

Current(slot) == IF slot = "http" THEN m_Http ELSE m_HttpIdle
IsDestroyed(p) == p.obj # Current(p.slot)

(* What the handler finds: its operation is over.                          *)
Popped ==
    LET n == [net EXCEPT !.ready = Tail(@)]
    IN  IF IsDestroyed(Completion.p) THEN Collect(n, Completion.p.obj) ELSE n

(* What uses the AsyncHttpClient through `this' after it was destroyed.    *)
Dangling(d) ==
    /\ IsDestroyed(d.p)
    /\ \/ d.p.op = "connect" /\ d.res # "aborted"
       \/ d.p.op = "read" /\ d.res \notin {"error", "aborted"}

(* Such a use is undefined: it may crash, or find the object still there.  *)
crash ==
    /\ net.ready # <<>>
    /\ Dangling(Completion)
    /\ alive' = "crashed"
    /\ net' = Popped
    /\ UNCHANGED <<m_Http, m_HttpIdle, selfVars, m_Timeout, userVars, faults, logged>>

\* Slip: a failure ends the attempts.
ReconnectNever(slot, chain) == net' = Popped /\ UNCHANGED <<m_LastCmd, turn>>

(* onHttpConnect and onHttpIdleConnect after a failure: sleep, and connect *)
(* the connection that is current by then.                                 *)
Reconnect(slot, chain) ==
    /\ net' = start_connect(Popped, Connect(slot, Current(slot), chain, 1))
    /\ UNCHANGED <<m_LastCmd, turn>>

\* Slip: also with a password that the user typed.
LogsInByItselfAgain == m_Password # <<>>

(* Named on the command line, the user is logged in without typing.        *)
LogsInByItself == m_User /\ m_Password # <<>>

onHttpConnect ==
    /\ turn' = IF m_User THEN "client" ELSE "user"
    /\ IF LogsInByItself
       THEN sendRequest(Popped, Request("LOGIN", "USER_LOGIN",
                build_user_pass_body(Me, m_Password), <<"login", Me, m_Password>>))
       ELSE /\ net' = Popped
            /\ UNCHANGED m_LastCmd

(* m_HeartBit comes with m_SelfId, and is 0 as long as that is.            *)
m_HeartBit == m_SelfId

onHttpIdleConnect ==
    /\ net' = StartIo(Popped,
                      Op("write", "idle", m_HttpIdle, 0, 0,
                         Request("NONE", "IDLE",
                                 build_user_send_msg_body(m_SelfId, m_HeartBit,
                                     <<>>, <<>>, m_Password), <<"idle">>)))
    /\ UNCHANGED <<m_LastCmd, turn>>

(* RangeConnectOp, asyncConnect and handleConnect: the next endpoint, or   *)
(* the TLS handshake, or the handler.                                      *)
handleConnect(slot) ==
    /\ Handles("connect", slot)
    /\ LET p == Completion.p
       IN  \/ /\ Completion.res = "ok" /\ ~IsDestroyed(p)
              /\ net.sock[p.obj] = "connected"
              /\ net' = [Popped EXCEPT !.m_IsOpen[p.obj] = TRUE,
                                       !.tls[p.obj] = underWay(@),
                                       !.pending = @ \union
                                           {Handshake(slot, p.obj, p.chain)}]
              /\ UNCHANGED <<m_LastCmd, turn>>
           \/ /\ Completion.res = "error" /\ ~IsDestroyed(p)
              /\ p.i < Endpoints
              /\ net' = start_connect(Popped,
                            Connect(slot, p.obj, p.chain, p.i + 1))
              /\ UNCHANGED <<m_LastCmd, turn>>
           \/ /\ Completion.res = "ok" /\ ~IsDestroyed(p)
              /\ net.sock[p.obj] # "connected"  \* closed again meanwhile
              /\ net' = start_connect([Popped EXCEPT !.m_IsOpen[p.obj] = TRUE],
                            Connect(slot, p.obj, p.chain, 1))
              /\ UNCHANGED <<m_LastCmd, turn>>
           \/ /\ \/ Completion.res = "aborted"
                 \/ Completion.res = "error" /\ p.i = Endpoints
                 \/ IsDestroyed(p)
              /\ Reconnect(slot, p.chain)
    /\ UNCHANGED <<m_Http, m_HttpIdle, m_User, m_Password, m_SelfId, m_IdleState,
                   m_State, m_Timeout, m_Queue, user, told, typed, faults, alive,
                   logged>>

handleHandshake(slot) ==
    /\ Handles("handshake", slot)
    /\ IF Failed THEN Reconnect(slot, Completion.p.chain)
       ELSE IF slot = "http" THEN onHttpConnect ELSE onHttpIdleConnect
    /\ UNCHANGED <<m_Http, m_HttpIdle, m_User, m_Password, m_SelfId, m_IdleState,
                   m_State, m_Timeout, m_Queue, user, told, typed, faults, alive,
                   logged>>

(* onHttpWrite and onHttpIdleWrite: a failure is only logged.              *)
onWrite(slot) ==
    /\ Handles("write", slot)
    /\ IF Failed
       THEN /\ net' = Popped
            /\ logged' = TRUE
            /\ m_Timeout' = IF slot = "http" THEN "off" ELSE m_Timeout
       ELSE /\ net' = StartIo(Popped, Op("read", slot, Current(slot), 0, 0,
                                         Completion.p.req))
            /\ UNCHANGED <<logged, m_Timeout>>
    /\ UNCHANGED <<m_Http, m_HttpIdle, selfVars, userVars, faults, alive>>

(* The read of an answer failed: a new m_Http, connected by a new chain.   *)
onHttpReadError ==
    /\ Handles("read", "http")
    /\ Failed
    /\ Unused(Popped) # {}
    /\ LET new == createConnect(Popped, {})
           made == Destroy(Popped, m_Http)
       IN  /\ FreeChains(made, "http") # {}
           /\ net' = start_connect(made,
                         Connect("http", new, LeastOf(FreeChains(made, "http")), 1))
           /\ m_Http' = new
    /\ m_Timeout' = "off"
    /\ UNCHANGED <<m_HttpIdle, selfVars, userVars, faults, alive, logged>>

(* A status other than 200, or 200 to anything but LOGIN: it is shown.     *)
onHttpReadShow ==
    /\ Handles("read", "http")
    /\ \/ Completion.res = "bad"
       \/ Completion.res = "200" /\ m_LastCmd # "LOGIN"
    /\ net' = Popped
    /\ turn' = "user"
    /\ m_Timeout' = "off"
    /\ UNCHANGED <<m_Http, m_HttpIdle, selfVars, m_Queue, user, told, typed,
                   faults, alive, logged>>

(* The answer to LOGIN also starts the idle connection.                    *)
onHttpReadLogin ==
    /\ Handles("read", "http")
    /\ Completion.res = "200"
    /\ m_LastCmd = "LOGIN"
    /\ m_SelfId' = Completion.id
    /\ IF isOpen(Popped, m_HttpIdle)
       THEN net' = Popped
       ELSE /\ FreeChains(Popped, "idle") # {}
            /\ net' = start_connect(Popped,
                          Connect("idle", m_HttpIdle,
                                  LeastOf(FreeChains(Popped, "idle")), 1))
    /\ turn' = "user"
    /\ told' = "in"
    /\ m_Timeout' = "off"
    /\ UNCHANGED <<m_Http, m_HttpIdle, m_LastCmd, m_User, m_Password, m_IdleState,
                   m_State, m_Queue, user, typed, faults, alive, logged>>

\* Slip: the new idle connection inherits the acknowledgement.
forgetAckNot == UNCHANGED m_IdleState

(* The next idle connection is not acknowledged yet.                       *)
forgetAck == m_IdleState' = FALSE

(* "connection is broken, please relogin": both connections are replaced,  *)
(* m_Http is connected.                                                    *)
onHttpIdleReadError ==
    /\ Handles("read", "idle")
    /\ Failed \/ Completion.res = "bad"
    /\ Cardinality(Unused(Popped)) >= 2
    /\ LET newIdle == createConnect(Popped, {})
           newHttp == createConnect(Popped, {newIdle})
           n2 == Destroy(Destroy(Popped, m_HttpIdle), m_Http)
       IN  /\ FreeChains(n2, "http") # {}
           /\ net' = start_connect(n2, Connect("http", newHttp,
                                       LeastOf(FreeChains(n2, "http")), 1))
           /\ m_HttpIdle' = newIdle
           /\ m_Http' = newHttp
    /\ forgetAck
    /\ told' = "relogin"
    /\ turn' = "client"
    /\ UNCHANGED <<m_LastCmd, m_User, m_Password, m_SelfId, m_State, m_Timeout,
                   m_Queue, user, typed, faults, alive, logged>>

(* The acknowledgement, or messages: read on.                              *)
onHttpIdleRead ==
    /\ Handles("read", "idle")
    /\ Completion.res \in {"ack", "msg"}
    /\ m_IdleState' = TRUE
    /\ net' = StartIo(Popped, Op("read", "idle", m_HttpIdle, 0, 0,
                                 Completion.p.req))
    /\ UNCHANGED <<m_Http, m_HttpIdle, m_LastCmd, m_User, m_Password, m_SelfId,
                   m_State, m_Timeout, userVars, faults, alive, logged>>

Handler ==
    \/ \E slot \in Slots :
          handleConnect(slot) \/ handleHandshake(slot) \/ onWrite(slot)
    \/ onHttpReadError \/ onHttpReadShow \/ onHttpReadLogin
    \/ onHttpIdleReadError \/ onHttpIdleRead
    \/ crash

Next ==
    /\ alive = "running"
    /\ \/ \E wish \in Typable[user] : Type(wish)
       \/ processQueue
       \/ \E p \in net.pending : NetworkDelivers(p) \/ NetworkFails(p)
       \/ \E o \in Objects : ConnectionDrops(o)
       \/ timeoutExpires
       \/ Handler

Spec == Init /\ [][Next]_clientVars

(* Threads run, and an operation that stays under way is completed.  This  *)
(* is said of every chain by itself: a handler that starts a connect anew  *)
(* takes the place of the one under way, so that some connect being under  *)
(* way does not mean that any completes.  The user, when it is his turn,   *)
(* leaves the chat and logs in.                                            *)
Fairness ==
    /\ WF_clientVars(alive = "running" /\ processQueue)
    /\ WF_clientVars(alive = "running" /\ Handler)
    /\ \A slot \in Slots : \A chain \in 0..MaxChains :
          WF_clientVars(/\ alive = "running"
                        /\ \E p \in net.pending :
                              /\ p.slot = slot /\ p.chain = chain
                              /\ p.obj = Current(slot)
                              /\ NetworkDelivers(p))
    /\ WF_clientVars(/\ alive = "running"
                     /\ m_State.mode = "CHAT_U"
                     /\ Type(Unchat))
    /\ WF_clientVars(/\ alive = "running"
                     /\ m_State.mode = "USUAL"
                     /\ Type(Login))

FairSpec == Spec /\ Fairness

-----------------------------------------------------------------------------
(* Properties.                                                             *)

IsOp(p) ==
    /\ p.op \in {"connect", "handshake", "write", "read"}
    /\ p.slot \in Slots
    /\ p.obj \in Objects
    /\ p.chain \in 0..MaxChains
    /\ p.req.cmd \in DOMAIN Commands \union {"NONE"}

ClientTypeOK ==
    /\ {m_Http, m_HttpIdle} \subseteq Objects
    /\ m_Http # m_HttpIdle
    /\ \A p \in net.pending : IsOp(p)
    /\ \A i \in DOMAIN net.ready : IsOp(net.ready[i].p)
    /\ net.sock \in [Objects -> {"closed", "connecting", "connected", "open", "gone"}]
    /\ net.tls \in [Objects -> {"new", "begun", "broken", "done"}]
    /\ m_SelfId \in 0..2
    /\ m_State.mode \in {"USUAL", "CHAT_U"}
    /\ turn \in {"user", "client"}
    /\ told \in {"out", "in", "relogin"}
    /\ alive \in {"running", "quit", "crashed"}

(* An answer is read as the answer to the command it belongs to, although  *)
(* m_LastCmd is one variable that the keyboard's thread and the io thread  *)
(* write, so long as the user listens.                                     *)
AnswerMatchesCommand ==
    user = "listens" =>
        \A i \in DOMAIN net.ready :
            LET d == net.ready[i] IN
            d.p.slot = "http" /\ d.res \in {"200", "bad"} => d.req.cmd = m_LastCmd

(* The command of the server, and its parameters, that the help text has a *)
(* command of the user stand for.                                          *)
Synopsis ==
    [login |-> <<"USER_LOGIN", "user", "password">>,
     register |-> <<"USER_CREATE", "user", "password">>,
     register_g |-> <<"CHAT_CREATE", "chatname">>,
     add_to_g |-> <<"CHAT_ADDUSER", "adduser", "chatname">>,
     history |-> <<"USER_HISTORY", "user", "count">>,
     direct_msg |-> <<"MESSAGE_SEND", "to", "message">>,
     direct_msg_g |-> <<"MESSAGE_SEND_CHAT", "chatname", "message">>,
     status |-> <<"USER_STATUS", "user">>]

(* A number typed for a count that is none, or below zero, means nothing.  *)
Meant(param, arg) ==
    IF param # "count" THEN {arg}
    ELSE {Numeral[word] : word \in {w \in DOMAIN Numeral : arg = <<Word(w)>>}}

(* The server takes command and params for what was typed: the command,    *)
(* with every argument as the parameter it stands for.  HISTORY without a  *)
(* number is for ten messages.                                             *)
Understands(command, params, wish) ==
    /\ command = Synopsis[wish[1]][1]
    /\ \A k \in 2..Len(wish) :
          \A value \in Meant(Synopsis[wish[1]][k], wish[k]) :
             params[Synopsis[wish[1]][k]] = value
    /\ wish[1] = "history" /\ Len(wish) = 2 => params.count = 10

(* The server takes a request it does not refuse, as one without a         *)
(* password, for what the user typed, in the words of the help text        *)
(* (apiclient_utils.hpp:13), also in the chat mode, where the line is the  *)
(* message, and also when earlier requests of the connection left other    *)
(* parameters behind.                                                      *)
UnderstoodAsTyped ==
    \A i \in DOMAIN net.ready :
        LET d == net.ready[i] IN
        d.p.slot = "http" /\ d.heard # Nothing /\ ~d.heard.error =>
            Understands(d.heard.command, d.heard.params, d.req.wish)

(* The parser returns the command that was typed and its arguments.        *)
Reads(args, wish) ==
    \/ args.cmd = "LOGIN" /\ wish = <<"login", args.name, args.pass>>
    \/ args.cmd = "REGISTER_USER" /\ wish = <<"register", args.name, args.pass>>
    \/ args.cmd = "DIRECT_MSG_USER" /\ wish = <<"direct_msg", args.name, args.message>>
    \/ args.cmd = "DIRECT_MSG_GROUP" /\ wish = <<"direct_msg_g", args.name, args.message>>
    \/ args.cmd = "STATUS_USER" /\ wish = <<"status", args.name>>
    \/ args.cmd = "REGISTER_GROUP" /\ wish = <<"register_g", args.groupname>>
    \/ args.cmd = "ADD_TO_GROUP" /\ wish = <<"add_to_g", args.name, args.groupname>>
    \/ args.cmd = "HISTORY_USER" /\ wish = <<"history", args.name>> /\ args.count = 10
    \/ /\ args.cmd = "HISTORY_USER"
       /\ wish = <<"history", args.name, wish[3]>>
       /\ \A value \in Meant("count", wish[3]) : args.count = value

(* Every line that can be typed is read so, or sends nothing.  It is what  *)
(* UnderstoodAsTyped needs of the parser, and is about constants only.     *)
WishesAreRead ==
    \A wish \in DOMAIN Input :
       \/ Parsed[Input[wish]].cmd \in LocalCmds
       \/ Reads(Parsed[Input[wish]], wish)

(* The first answer of an idle connection is the acknowledgement and is    *)
(* never shown as a message; every later one is a message and shown,       *)
(* although one flag serves all the connections that follow one another.   *)
AckIsNoMessage ==
    /\ user = "listens"
    /\ net.ready # <<>>
    /\ Completion.p.slot = "idle"
    /\ Completion.res \in {"ack", "msg"}
    => (Completion.res = "ack" <=> ~m_IdleState)

(* A connection is being connected by one chain at most.                   *)
OneChain == \A slot \in Slots : Cardinality(Chains(net, slot)) <= 1
OneChainForListener == user = "listens" => OneChain

(* No answer arrives at an AsyncHttpClient that was destroyed.             *)
NothingDangles ==
    user = "listens" =>
        /\ alive # "crashed"
        /\ \A i \in DOMAIN net.ready : ~Dangling(net.ready[i])

Listening ==
    /\ m_IdleState
    /\ net.sock[m_HttpIdle] = "open"
    /\ net.polls[m_HttpIdle] = "accepted"
    /\ \E p \in net.pending : p.op = "read" /\ p.obj = m_HttpIdle

(* A connection in use has a stream that no handshake ends well on.        *)
Stuck == \E slot \in Slots : net.tls[Current(slot)] = "broken"

(* However connects fail and connections break, a user who listens gets    *)
(* back to receiving messages, unless he quits, a write failed, or from    *)
(* some moment on a connection is tried again and again on the stream of a *)
(* handshake that failed or was cancelled, which the code never replaces.  *)
ListenerComesBack ==
    user = "listens" =>
        []<>Listening \/ <>[]Stuck \/ <>(logged \/ alive # "running")

(* "connection is broken, please relogin" (client.cpp:413): whoever is     *)
(* told so can log in again, unless for a stream that is stuck.            *)
ReloginWorks ==
    told = "relogin" ~> (told = "in" \/ logged \/ Stuck \/ alive # "running")
=============================================================================
