---------------------------- MODULE ClientProofs ----------------------------
(***************************************************************************)
(* The console client, for any number of endpoints, connections, chains,   *)
(* faults and commands, and any users.                                     *)
(***************************************************************************)
EXTENDS Client, FiniteSetTheorems, WellFoundedInduction, TLAPS

-----------------------------------------------------------------------------
(* The type invariant, with what a proof needs to know of the record net.  *)

\* How an operation can end.
Results == {"ok", "error", "aborted", "200", "bad", "ack", "msg"}

\* An operation is a record of Op, and a completion one of Answered.
OpOK(p) == IsOp(p) /\ p = Op(p.op, p.slot, p.obj, p.chain, p.i, p.req)

DoneOK(d) ==
    /\ d = Answered(d.p, d.res, d.req, d.heard, d.id)
    /\ OpOK(d.p)
    /\ d.res \in Results
    /\ d.id \in 0..2

\* A sequence, of whatever its elements are.
IsSeq(s) == s \in Seq({s[i] : i \in DOMAIN s})

\* The record net.
Net(sock, tls, isopen, asked, params, polls, pending, ready) ==
    [sock |-> sock, tls |-> tls, m_IsOpen |-> isopen, asked |-> asked,
     params |-> params, polls |-> polls, pending |-> pending, ready |-> ready]

SockStates == {"closed", "connecting", "connected", "open", "gone"}
TlsStates == {"new", "begun", "broken", "done"}

OpsOK(pending, ready) ==
    /\ IsFiniteSet(pending)
    /\ \A p \in pending : OpOK(p)
    /\ IsSeq(ready)
    /\ \A i \in DOMAIN ready : DoneOK(ready[i])

PeersOK(sock, tls, asked, polls) ==
    /\ sock \in [Objects -> SockStates]
    /\ tls \in [Objects -> TlsStates]
    /\ asked = [o \in Objects |-> asked[o]]
    /\ polls = [o \in Objects |-> polls[o]]

NetOK(n) ==
    /\ n = Net(n.sock, n.tls, n.m_IsOpen, n.asked, n.params, n.polls, n.pending, n.ready)
    /\ PeersOK(n.sock, n.tls, n.asked, n.polls)
    /\ OpsOK(n.pending, n.ready)

\* The line that is typed for a wish, with the wish.
Events == {[msg |-> Input[wish], wish |-> wish] : wish \in DOMAIN Input}

RestOK ==
    /\ {m_Http, m_HttpIdle} \subseteq Objects
    /\ m_Http # m_HttpIdle
    /\ m_SelfId \in 0..2
    /\ m_State.mode \in {"USUAL", "CHAT_U"}
    /\ turn \in {"user", "client"}
    /\ told \in {"out", "in", "relogin"}
    /\ alive \in {"running", "quit", "crashed"}
    /\ m_Queue \in Seq(Events)
    /\ user \in Tempers

TypedInv == NetOK(net) /\ RestOK

-----------------------------------------------------------------------------
(* The conversation of one who listens.  Nothing, a request or the polls   *)
(* for his messages are before the server on connection o; his one         *)
(* operation under way says which.                                         *)
Silent(n, o) == n.polls[o] = "no" /\ n.asked[o] = <<>>
Asks(n, o) == n.polls[o] = "no" /\ n.asked[o] = <<n.asked[o][1]>>
Polled(n, o) == n.polls[o] # "no" /\ n.asked[o] = <<>>
AsksCmd(n) ==
    /\ Asks(n, m_Http)
    /\ n.asked[m_Http][1].cmd = m_LastCmd
    /\ n.asked[m_Http][1].resource # cmd2string["IDLE"]

HttpPends(n, p) ==
    /\ p.slot = "http" /\ p.obj = m_Http
    /\ IF p.op = "read" THEN AsksCmd(n) ELSE Silent(n, m_Http)
    /\ p.op = "write" => p.req.cmd = m_LastCmd /\ p.req.resource # cmd2string["IDLE"]

HttpReady(n, d) ==
    /\ d.p.slot = "http" /\ d.p.obj = m_Http
    /\ IF \/ d.p.op = "write" /\ d.res = "ok"
          \/ d.p.op = "read" /\ d.res \in {"error", "aborted"}
       THEN AsksCmd(n)
       ELSE Silent(n, m_Http)
    /\ d.p.op = "read" /\ d.res \notin {"error", "aborted"} => d.req.cmd = m_LastCmd
    /\ d.p.op # "read" => d.res \in {"ok", "error", "aborted"}

IdlePends(n, p) ==
    /\ p.slot = "idle" /\ p.obj = m_HttpIdle
    /\ IF p.op # "read" THEN Silent(n, m_HttpIdle) /\ ~m_IdleState
       ELSE IF m_IdleState THEN Polled(n, m_HttpIdle) ELSE Asks(n, m_HttpIdle)

IdleReady(n, d) ==
    /\ d.p.slot = "idle" /\ d.p.obj = m_HttpIdle
    /\ IF d.p.op = "write" /\ d.res = "ok" THEN Asks(n, m_HttpIdle) /\ ~m_IdleState
       ELSE IF d.p.op # "read" THEN Silent(n, m_HttpIdle) /\ ~m_IdleState
       ELSE d.res \in {"ack", "msg"} =>
              /\ Polled(n, m_HttpIdle)
              /\ m_IdleState <=> d.res = "msg"
    /\ d.p.op # "read" => d.res \in {"ok", "error", "aborted"}

NoOp(n) == n.pending = {} /\ n.ready = <<>>
Pends(n, p) == n.pending = {p} /\ n.ready = <<>>
Ready(n, d) == n.pending = {} /\ n.ready = <<d>>

\* ... of one who is not logged in: his command waits in the queue, or one
\* operation is under way for m_Http, or it is his turn (or his request is lost).
LoggedOut ==
    /\ ~m_IdleState
    /\ \/ NoOp(net) /\ Silent(net, m_Http) /\ m_Queue = <<>>
       \/ /\ NoOp(net) /\ Silent(net, m_Http)
          /\ m_Queue = <<m_Queue[1]>> /\ turn = "client"
       \/ /\ \E p \in net.pending : Pends(net, p) /\ HttpPends(net, p)
          /\ m_Queue = <<>> /\ turn = "client"
       \/ /\ \E d \in {net.ready[i] : i \in DOMAIN net.ready} :
                Ready(net, d) /\ HttpReady(net, d)
          /\ m_Queue = <<>> /\ turn = "client"

\* ... of one who is: at most one operation is under way, for m_HttpIdle.
LoggedIn ==
    /\ m_Queue = <<>>
    /\ \/ NoOp(net)
       \/ \E p \in net.pending : Pends(net, p) /\ IdlePends(net, p)
       \/ \E d \in {net.ready[i] : i \in DOMAIN net.ready} :
             Ready(net, d) /\ IdleReady(net, d)

Listener ==
    user = "listens" =>
        /\ alive # "crashed"
        /\ IF told = "in" THEN LoggedIn ELSE LoggedOut

-----------------------------------------------------------------------------
(* Naturals and sequences.                                                 *)

\* A set of naturals has a least one.
LEMMA LeastOfIn ==
    ASSUME NEW S \in SUBSET Nat, S # {}
    PROVE  LeastOf(S) \in S
<1>1. PICK n \in S : \A m \in S : <<m, n>> \notin OpToRel(<, Nat)
  BY NatLessThanWellFounded, WFMin
<1>2. ASSUME NEW m \in S PROVE n <= m
  <2>1. <<m, n>> \in Nat \X Nat /\ ~(m < n)
    BY <1>1 DEF OpToRel
  <2>2. QED
    BY <2>1
<1>3. QED
  BY <1>2 DEF LeastOf

\* A function on 1 .. n is a sequence.
LEMMA FunctionIsSeq ==
    ASSUME NEW S, NEW n \in Nat, NEW f \in [1 .. n -> S]
    PROVE  f \in Seq(S)
  OBVIOUS

\* A sequence is one of its own elements.
LEMMA SeqOfOwn ==
    ASSUME NEW S, NEW s \in Seq(S)
    PROVE  IsSeq(s)
<1>1. s \in [1 .. Len(s) -> S] /\ DOMAIN s = 1 .. Len(s) /\ Len(s) \in Nat
  OBVIOUS
<1>2. s \in [1 .. Len(s) -> {s[i] : i \in DOMAIN s}]
  BY <1>1
<1>3. QED
  BY <1>1, <1>2, FunctionIsSeq DEF IsSeq

\* What Append, Tail and concatenation make of a sequence.
LEMMA AppendIs ==
    ASSUME NEW s, IsSeq(s), NEW e
    PROVE  /\ IsSeq(Append(s, e))
           /\ \A i \in DOMAIN Append(s, e) :
                 \/ Append(s, e)[i] = e
                 \/ i \in DOMAIN s /\ Append(s, e)[i] = s[i]
           /\ s = <<>> => Append(s, e) = <<e>>
<1> DEFINE S == {s[i] : i \in DOMAIN s} \union {e}
<1>1. s \in Seq(S)
  BY DEF IsSeq
<1>2. Append(s, e) \in Seq(S)
  BY <1>1
<1>3. IsSeq(Append(s, e))
  BY <1>2, SeqOfOwn
<1>4. /\ DOMAIN s = 1 .. Len(s) /\ Len(s) \in Nat
      /\ DOMAIN Append(s, e) = 1 .. Len(s) + 1
      /\ \A i \in 1 .. Len(s) + 1 :
            Append(s, e)[i] = IF i = Len(s) + 1 THEN e ELSE s[i]
  BY <1>1
<1>5. s = <<>> => Append(s, e) = <<e>>
  OBVIOUS
<1>6. QED
  BY <1>3, <1>4, <1>5

\* ... and of all but the first ...
LEMMA TailIs ==
    ASSUME NEW s, IsSeq(s), s # <<>>
    PROVE  /\ IsSeq(Tail(s))
           /\ \A i \in DOMAIN Tail(s) : i + 1 \in DOMAIN s /\ Tail(s)[i] = s[i + 1]
           /\ 1 \in DOMAIN s /\ Head(s) = s[1]
<1> DEFINE S == {s[i] : i \in DOMAIN s}
<1>1. s \in Seq(S)
  BY DEF IsSeq
<1>2. Tail(s) \in Seq(S)
  BY <1>1
<1>3. IsSeq(Tail(s))
  BY <1>2, SeqOfOwn
<1>4. QED
  BY <1>1, <1>3

\* ... and of two, one after the other.
LEMMA ConcatIs ==
    ASSUME NEW s, NEW t, IsSeq(s), IsSeq(t)
    PROVE  /\ IsSeq(s \o t)
           /\ \A i \in DOMAIN (s \o t) :
                 \/ i \in DOMAIN s /\ (s \o t)[i] = s[i]
                 \/ i - Len(s) \in DOMAIN t /\ (s \o t)[i] = t[i - Len(s)]
           /\ t = <<>> => s \o t = s
           /\ s = <<>> => s \o t = t
<1> DEFINE S == {s[i] : i \in DOMAIN s} \union {t[i] : i \in DOMAIN t}
<1>1. s \in Seq(S) /\ t \in Seq(S)
  <2>1. Seq({s[i] : i \in DOMAIN s}) \subseteq Seq(S) /\ Seq({t[i] : i \in DOMAIN t}) \subseteq Seq(S)
    OBVIOUS
  <2>2. QED
    BY <2>1 DEF IsSeq
<1>2. s \o t \in Seq(S)
  BY <1>1
<1>3. IsSeq(s \o t)
  BY <1>2, SeqOfOwn
<1>4. QED
  BY <1>1, <1>3

\* SetToSeq lists the elements of a finite set.
LEMMA SetToSeqLists ==
    ASSUME NEW A, IsFiniteSet(A)
    PROVE  /\ Cardinality(A) \in Nat
           /\ SetToSeq(A) \in [1 .. Cardinality(A) -> A]
           /\ IsInjective(SetToSeq(A))
<1>1. Cardinality(A) \in Nat /\ ExistsBijection(1 .. Cardinality(A), A)
  BY FS_CardinalityType
<1>2. PICK f : f \in Bijection(1 .. Cardinality(A), A)
  BY <1>1 DEF ExistsBijection
<1>3. f \in [1 .. Cardinality(A) -> A] /\ IsInjective(f)
  BY <1>2 DEF Bijection, Injection, IsInjective
<1>4. QED
  BY <1>1, <1>3 DEF SetToSeq

-----------------------------------------------------------------------------
(* The commands a line can be read for, and the requests they make.        *)

\* The parser knows a command by its first word, which no two commands share.
LEMMA CommandWords ==
    ASSUME NEW c \in DOMAIN Commands, NEW d \in DOMAIN Commands,
           Commands[c][1] = Commands[d][1]
    PROVE  c = d
<1> DEFINE Named ==
       [help |-> "HELP", quit |-> "QUIT", unchat |-> "UNCHAT",
        chat_with |-> "CHAT_WITH_USER", register_g |-> "REGISTER_GROUP",
        history |-> "HISTORY_USER", history_g |-> "HISTORY_GROUP",
        status |-> "STATUS_USER", status_g |-> "STATUS_GROUP",
        login |-> "LOGIN", register |-> "REGISTER_USER",
        direct_msg |-> "DIRECT_MSG_USER", add_to_g |-> "ADD_TO_GROUP",
        direct_msg_g |-> "DIRECT_MSG_GROUP"]
<1>1. \A e \in DOMAIN Commands : Named[Commands[e][1]] = e
  BY DEF Commands
<1>2. QED
  BY <1>1

Parsable == DOMAIN Commands \union {"NONE"}

\* What parse returns has a command of the table, or none.
LEMMA ParseCmd ==
    ASSUME NEW line
    PROVE  parse(line).cmd \in Parsable
<1> DEFINE parts == split(line)
           Is(cmd) == /\ lowercased(parts[1]) = <<Word(Commands[cmd][1])>>
                      /\ Len(parts) >= Commands[cmd][2]
           known == {cmd \in DOMAIN Commands : Is(cmd)}
           ret == args_t(CHOOSE cmd \in known : TRUE)
<1>1. CASE known = {}
  <2>1. parse(line) = args_t("NONE")
    BY <1>1 DEF parse
  <2>2. QED
    BY <2>1 DEF args_t, Parsable
<1>2. CASE known # {}
  <2>1. PICK c \in DOMAIN Commands : Is(c)
    BY <1>2
  <2>2. \A d \in known : d = c
    <3>1. ASSUME NEW d \in known PROVE d = c
      <4>1. <<Word(Commands[c][1])>> = <<Word(Commands[d][1])>>
        BY <2>1
      <4>2. Word(Commands[c][1]).text = Word(Commands[d][1]).text
        BY <4>1
      <4>3. Commands[c][1] = Commands[d][1]
        BY <4>2 DEF Word, Symbol
      <4>4. QED
        BY <4>3, CommandWords
    <3>2. QED
      BY <3>1
  <2>3. known = {c}
    BY <2>1, <2>2
  <2>4. ret = args_t(c)
    BY <2>3
  <2>5. ret.cmd = c
    BY <2>4 DEF args_t
  <2>6. parse(line).cmd = c
    <3>1. c \in {"HELP", "QUIT", "UNCHAT", "CHAT_WITH_USER", "STATUS_USER",
                 "STATUS_GROUP", "REGISTER_GROUP", "HISTORY_USER", "HISTORY_GROUP",
                 "LOGIN", "REGISTER_USER", "DIRECT_MSG_USER", "DIRECT_MSG_GROUP",
                 "ADD_TO_GROUP"}
      BY DEF Commands
    <3>2. parse(line) =
            CASE known \subseteq {"HELP", "QUIT", "UNCHAT"} -> ret
              [] known \subseteq {"CHAT_WITH_USER", "STATUS_USER", "STATUS_GROUP"} ->
                   [ret EXCEPT !.name = parts[2]]
              [] known = {"REGISTER_GROUP"} -> [ret EXCEPT !.groupname = parts[2]]
              [] known \subseteq {"HISTORY_USER", "HISTORY_GROUP"} ->
                   [ret EXCEPT !.name = parts[2],
                               !.count = IF Len(parts) > 2 THEN Count(parts[3], @)
                                         ELSE @]
              [] known \subseteq {"LOGIN", "REGISTER_USER"} ->
                   [ret EXCEPT !.name = parts[2], !.pass = parts[3]]
              [] known \subseteq {"DIRECT_MSG_USER", "DIRECT_MSG_GROUP"} ->
                   [ret EXCEPT !.name = parts[2],
                               !.message = get_msg_after_command(line)]
              [] known = {"ADD_TO_GROUP"} ->
                   [ret EXCEPT !.name = parts[2], !.groupname = parts[3]]
      BY <1>2 DEF parse
    <3> HIDE DEF known, ret, parts
    <3>3. CASE c \in {"HELP", "QUIT", "UNCHAT"}
      <4>1. parse(line) = ret
        BY <2>3, <3>2, <3>3
      <4>2. QED
        BY <2>4, <4>1 DEF args_t
    <3>4. CASE c \in {"CHAT_WITH_USER", "STATUS_USER", "STATUS_GROUP"}
      <4>1. parse(line) = [ret EXCEPT !.name = parts[2]]
        BY <2>3, <3>2, <3>4
      <4>2. QED
        BY <2>4, <4>1 DEF args_t
    <3>5. CASE c \in {"REGISTER_GROUP"}
      <4>1. parse(line) = [ret EXCEPT !.groupname = parts[2]]
        BY <2>3, <3>2, <3>5
      <4>2. QED
        BY <2>4, <4>1 DEF args_t
    <3>6. CASE c \in {"HISTORY_USER", "HISTORY_GROUP"}
      <4>1. parse(line) = [ret EXCEPT
                           !.name = parts[2],
                           !.count = IF Len(parts) > 2 THEN Count(parts[3], @) ELSE @]
        BY <2>3, <3>2, <3>6
      <4>2. QED
        BY <2>4, <4>1 DEF args_t
    <3>7. CASE c \in {"LOGIN", "REGISTER_USER"}
      <4>1. parse(line) = [ret EXCEPT !.name = parts[2], !.pass = parts[3]]
        BY <2>3, <3>2, <3>7
      <4>2. QED
        BY <2>4, <4>1 DEF args_t
    <3>8. CASE c \in {"DIRECT_MSG_USER", "DIRECT_MSG_GROUP"}
      <4>1. parse(line) = [ret EXCEPT
                           !.name = parts[2], !.message = get_msg_after_command(line)]
        BY <2>3, <3>2, <3>8
      <4>2. QED
        BY <2>4, <4>1 DEF args_t
    <3>9. CASE c \in {"ADD_TO_GROUP"}
      <4>1. parse(line) = [ret EXCEPT !.name = parts[2], !.groupname = parts[3]]
        BY <2>3, <3>2, <3>9
      <4>2. QED
        BY <2>4, <4>1 DEF args_t
    <3>10. QED
      BY <3>1, <3>3, <3>4, <3>5, <3>6, <3>7, <3>8, <3>9
  <2>7. QED
    BY <2>6 DEF Parsable
<1>3. QED
  BY <1>1, <1>2

\* The request of a command carries it, and is not an idle request.
LEMMA RequestOfCommand ==
    ASSUME NEW args, NEW wish,
           args.cmd \in DOMAIN Commands \ {"HELP", "UNCHAT", "QUIT", "CHAT_WITH_USER",
                                           "HISTORY_GROUP", "STATUS_GROUP"}
    PROVE  /\ CommandRequest(args, wish).cmd = args.cmd
           /\ CommandRequest(args, wish).resource # cmd2string["IDLE"]
<1>1. \E command \in DOMAIN cmd2string \ {"IDLE"} : \E body :
         CommandRequest(args, wish) = Request(args.cmd, command, body, wish)
  <2>1. args.cmd \in {"LOGIN", "REGISTER_USER", "DIRECT_MSG_USER", "HISTORY_USER",
                      "STATUS_USER", "REGISTER_GROUP", "ADD_TO_GROUP",
                      "DIRECT_MSG_GROUP"}
    BY DEF Commands
  <2>2. {"USER_LOGIN", "USER_CREATE", "MESSAGE_SEND", "USER_HISTORY", "USER_STATUS",
         "CHAT_CREATE", "CHAT_ADDUSER", "MESSAGE_SEND_CHAT"}
           \subseteq DOMAIN cmd2string \ {"IDLE"}
    BY DEF cmd2string
  <2>3. QED
    BY <2>1, <2>2, Zenon DEF CommandRequest
<1>2. \A command \in DOMAIN cmd2string \ {"IDLE"} :
         cmd2string[command] # cmd2string["IDLE"]
  BY DEF cmd2string
<1>3. QED
  BY <1>1, <1>2 DEF Request

-----------------------------------------------------------------------------
(* The operators of the network keep its types.                            *)

\* What Op makes is an operation.
LEMMA OpIs ==
    ASSUME NEW op \in {"connect", "handshake", "write", "read"}, NEW slot \in Slots,
           NEW obj \in Objects, NEW chain \in 0 .. MaxChains, NEW i,
           NEW req, req.cmd \in Parsable
    PROVE  OpOK(Op(op, slot, obj, chain, i, req))
  BY DEF OpOK, IsOp, Op, Parsable

\* ... and what Done makes, a completion.
LEMMA DoneIs ==
    ASSUME NEW p, OpOK(p), NEW res \in Results
    PROVE  DoneOK(Done(p, res))
  BY DEF DoneOK, Done, Answered

\* A record of well typed parts is well typed.
LEMMA NetIs ==
    ASSUME NEW sock, NEW tls, NEW isopen, NEW asked, NEW params, NEW polls,
           NEW pending, NEW ready, PeersOK(sock, tls, asked, polls), OpsOK(pending, ready)
    PROVE  NetOK(Net(sock, tls, isopen, asked, params, polls, pending, ready))
  BY DEF NetOK, Net

\* One more completion is ready.
LEMMA AppendReady ==
    ASSUME NEW n, NetOK(n), NEW d, DoneOK(d)
    PROVE  /\ IsSeq(Append(n.ready, d))
           /\ \A i \in DOMAIN Append(n.ready, d) : DoneOK(Append(n.ready, d)[i])
<1>1. IsSeq(n.ready) /\ \A i \in DOMAIN n.ready : DoneOK(n.ready[i])
  BY DEF NetOK, OpsOK
<1>2. QED
  BY <1>1, AppendIs

\* The operations of A are over.
LEMMA AbortIs ==
    ASSUME NEW n, NetOK(n), NEW A \in SUBSET n.pending
    PROVE  /\ NetOK(Abort(n, A))
           /\ Abort(n, A).pending = n.pending \ A
           /\ A = {} => Abort(n, A) = n
           /\ \A f \in {"sock", "tls", "m_IsOpen", "asked", "params", "polls"} :
                 Abort(n, A)[f] = n[f]
<1> DEFINE c == Cardinality(A)
           t == [i \in 1 .. c |-> Done(SetToSeq(A)[i], "aborted")]
<1>1. IsFiniteSet(A) /\ IsFiniteSet(n.pending \ A)
  BY FS_Subset, FS_Difference DEF NetOK, OpsOK
<1>2. c \in Nat /\ SetToSeq(A) \in [1 .. c -> A] /\ IsInjective(SetToSeq(A))
  BY <1>1, SetToSeqLists
<1>3. \A i \in DOMAIN t : DoneOK(t[i])
  <2>1. \A p \in A : OpOK(p)
    BY DEF NetOK, OpsOK
  <2>2. QED
    BY <1>2, <2>1, DoneIs DEF Results
<1>4. IsSeq(t)
  <2>1. t \in [1 .. c -> {t[i] : i \in DOMAIN t}]
    OBVIOUS
  <2> HIDE DEF t
  <2>2. QED
    BY <1>2, <2>1, FunctionIsSeq DEF IsSeq
<1>5. IsSeq(n.ready) /\ \A i \in DOMAIN n.ready : DoneOK(n.ready[i])
  BY DEF NetOK, OpsOK
<1>6. IsSeq(n.ready \o t) /\ \A i \in DOMAIN (n.ready \o t) : DoneOK((n.ready \o t)[i])
  <2> HIDE DEF t
  <2>1. QED
    BY <1>3, <1>4, <1>5, ConcatIs
<1>7. Abort(n, A) = Net(n.sock, n.tls, n.m_IsOpen, n.asked, n.params, n.polls,
                        n.pending \ A, n.ready \o t)
  <2>1. Abort(n, A) = [n EXCEPT !.pending = n.pending \ A, !.ready = n.ready \o t]
    BY DEF Abort
  <2> HIDE DEF t
  <2>2. QED
    BY <2>1 DEF NetOK, Net
<1>8. NetOK(Abort(n, A)) /\ Abort(n, A).pending = n.pending \ A
      /\ \A f \in {"sock", "tls", "m_IsOpen", "asked", "params", "polls"} :
            Abort(n, A)[f] = n[f]
  <2>1. OpsOK(n.pending \ A, n.ready \o t)
    BY <1>1, <1>6 DEF NetOK, OpsOK
  <2>2. NetOK(Abort(n, A))
    BY <1>7, <2>1, NetIs DEF NetOK
  <2> HIDE DEF t
  <2>3. QED
    BY <1>7, <2>2 DEF Net
<1>9. ASSUME A = {} PROVE Abort(n, A) = n
  <2>1. c = 0
    BY <1>9, FS_EmptySet
  <2>2. t = <<>>
    BY <2>1
  <2>3. n.ready \o t = n.ready
    BY <1>4, <1>5, <2>2, ConcatIs
  <2> HIDE DEF t
  <2>4. QED
    BY <1>7, <1>9, <2>3 DEF NetOK, Net
<1>10. QED
  BY <1>8, <1>9

\* The peers' side of n is that of m but on object o.
SamePeers(m, n, o) ==
    \A x \in Objects \ {o} : m.asked[x] = n.asked[x] /\ m.polls[x] = n.polls[x]

\* A connect starts on a socket that is reset.
LEMMA start_connectIs ==
    ASSUME NEW n, NetOK(n), NEW p, OpOK(p)
    PROVE  /\ NetOK(start_connect(n, p))
           /\ Silent(start_connect(n, p), p.obj)
           /\ SamePeers(start_connect(n, p), n, p.obj)
           /\ n.pending = {} => /\ start_connect(n, p).pending = {p}
                                /\ start_connect(n, p).ready = n.ready
<1> DEFINE A == {q \in n.pending : q.obj = p.obj}
           c == Abort(n, A)
           m == start_connect(n, p)
<1>1. NetOK(c) /\ c.pending = n.pending \ A /\ c.asked = n.asked /\ c.polls = n.polls
      /\ (A = {} => c = n)
  BY AbortIs
<1>2. p.obj \in Objects
  BY DEF OpOK, IsOp
<1>3. m = Net([c.sock EXCEPT ![p.obj] = "connecting"],
              [c.tls EXCEPT ![p.obj] = brokenOff(@)], c.m_IsOpen,
              [c.asked EXCEPT ![p.obj] = <<>>], [c.params EXCEPT ![p.obj] = Params],
              [c.polls EXCEPT ![p.obj] = "no"], c.pending \union {p}, c.ready)
  <2>1. c = Net(c.sock, c.tls, c.m_IsOpen, c.asked, c.params, c.polls, c.pending, c.ready)
    BY <1>1 DEF NetOK
  <2>2. m = [c EXCEPT !.sock[p.obj] = "connecting", !.tls[p.obj] = brokenOff(@),
                      !.polls[p.obj] = "no",
                      !.params[p.obj] = Params, !.asked[p.obj] = <<>>,
                      !.pending = @ \union {p}]
    BY DEF start_connect
  <2> HIDE DEF c, m
  <2>3. QED
    BY <2>1, <2>2 DEF Net
<1> HIDE DEF c, m
<1>4. PeersOK(m.sock, m.tls, m.asked, m.polls)
  BY <1>1, <1>2, <1>3 DEF NetOK, PeersOK, Net, SockStates, TlsStates, brokenOff
<1>5. OpsOK(m.pending, m.ready)
  <2>1. OpsOK(c.pending, c.ready) /\ m.pending = c.pending \union {p} /\ m.ready = c.ready
    BY <1>1, <1>3 DEF NetOK, Net
  <2>2. IsFiniteSet(c.pending \union {p})
    BY <2>1, FS_AddElement DEF OpsOK
  <2>3. QED
    BY <2>1, <2>2 DEF OpsOK
<1>6. NetOK(m)
  BY <1>3, <1>4, <1>5 DEF NetOK, Net
<1>7. Silent(m, p.obj) /\ SamePeers(m, n, p.obj)
  BY <1>1, <1>2, <1>3 DEF Silent, SamePeers, Net, NetOK, PeersOK
<1>8. ASSUME n.pending = {} PROVE m.pending = {p} /\ m.ready = n.ready
  <2>1. A = {}
    BY <1>8
  <2>2. QED
    BY <1>1, <1>3, <1>8, <2>1 DEF Net
<1>9. QED
  BY <1>6, <1>7, <1>8 DEF m

\* A read or write is under way, or it has failed at once.
LEMMA StartIoIs ==
    ASSUME NEW n, NetOK(n), NEW p, OpOK(p)
    PROVE  /\ NetOK(StartIo(n, p))
           /\ \A f \in {"sock", "tls", "m_IsOpen", "asked", "params", "polls"} :
                 StartIo(n, p)[f] = n[f]
           /\ \/ /\ \E x : StartIo(n, p).pending = n.pending \union {[p EXCEPT !.i = x]}
                 /\ StartIo(n, p).ready = n.ready
              \/ /\ StartIo(n, p).pending = n.pending
                 /\ StartIo(n, p).ready = Append(n.ready, Done(p, "error"))
<1> DEFINE m == StartIo(n, p)
<1>1. CASE n.sock[p.obj] \in {"open", "gone"}
  <2>1. PICK x : m = [n EXCEPT !.pending = @ \union {[p EXCEPT !.i = x]}]
    BY <1>1 DEF StartIo
  <2> DEFINE q == [p EXCEPT !.i = x]
  <2>2. OpOK(q)
    BY DEF OpOK, IsOp, Op
  <2> HIDE DEF q, m
  <2>3. m = Net(n.sock, n.tls, n.m_IsOpen, n.asked, n.params, n.polls, n.pending \union {q}, n.ready)
    BY <2>1 DEF NetOK, Net, q
  <2>4. OpsOK(n.pending \union {q}, n.ready)
    <3>1. IsFiniteSet(n.pending \union {q})
      BY FS_AddElement DEF NetOK, OpsOK
    <3>2. QED
      BY <2>2, <3>1 DEF NetOK, OpsOK
  <2>5. NetOK(m)
    BY <2>3, <2>4, NetIs DEF NetOK
  <2>6. /\ \A f \in {"sock", "tls", "m_IsOpen", "asked", "params", "polls"} : m[f] = n[f]
        /\ m.pending = n.pending \union {q} /\ m.ready = n.ready
    BY <2>3 DEF Net
  <2>7. \E y : m.pending = n.pending \union {[p EXCEPT !.i = y]}
    BY <2>6 DEF q
  <2>8. QED
    BY <2>5, <2>6, <2>7 DEF m
<1>2. CASE n.sock[p.obj] \notin {"open", "gone"}
  <2>1. m = [n EXCEPT !.ready = Append(@, Done(p, "error"))]
    BY <1>2 DEF StartIo
  <2> HIDE DEF m
  <2>2. m = Net(n.sock, n.tls, n.m_IsOpen, n.asked, n.params, n.polls, n.pending,
                Append(n.ready, Done(p, "error")))
    BY <2>1 DEF NetOK, Net
  <2>3. OpsOK(n.pending, Append(n.ready, Done(p, "error")))
    <3>1. DoneOK(Done(p, "error"))
      BY DoneIs DEF Results
    <3>2. QED
      BY <3>1, AppendReady DEF NetOK, OpsOK
  <2>4. NetOK(m)
    BY <2>2, <2>3, NetIs DEF NetOK
  <2>5. QED
    BY <2>2, <2>4 DEF Net, m
<1>3. QED
  BY <1>1, <1>2

\* A socket without an owner may be closed.
LEMMA CollectIs ==
    ASSUME NEW n, NetOK(n), NEW o \in Objects
    PROVE  /\ NetOK(Collect(n, o))
           /\ Collect(n, o).pending = n.pending /\ Collect(n, o).ready = n.ready
           /\ SamePeers(Collect(n, o), n, o)
<1> DEFINE m == [n EXCEPT !.sock[o] = "closed", !.tls[o] = "new", !.m_IsOpen[o] = FALSE,
                          !.asked[o] = <<>>, !.params[o] = Params, !.polls[o] = "no"]
<1>1. Collect(n, o) \in {n, m}
  BY DEF Collect
<1>2. m = Net([n.sock EXCEPT ![o] = "closed"], [n.tls EXCEPT ![o] = "new"],
              [n.m_IsOpen EXCEPT ![o] = FALSE],
              [n.asked EXCEPT ![o] = <<>>], [n.params EXCEPT ![o] = Params],
              [n.polls EXCEPT ![o] = "no"], n.pending, n.ready)
  <2>1. n = Net(n.sock, n.tls, n.m_IsOpen, n.asked, n.params, n.polls, n.pending, n.ready)
    BY DEF NetOK
  <2>2. m = [n EXCEPT !.sock[o] = "closed", !.tls[o] = "new", !.m_IsOpen[o] = FALSE,
                      !.asked[o] = <<>>, !.params[o] = Params, !.polls[o] = "no"]
    OBVIOUS
  <2> HIDE DEF m
  <2>3. QED
    BY <2>1, <2>2 DEF Net
<1> HIDE DEF m
<1>3. PeersOK(m.sock, m.tls, m.asked, m.polls) /\ SamePeers(m, n, o)
  BY <1>2 DEF NetOK, PeersOK, Net, SockStates, TlsStates, SamePeers
<1>4. m.pending = n.pending /\ m.ready = n.ready
  BY <1>2 DEF Net
<1>5. NetOK(m)
  BY <1>2, <1>3, <1>4 DEF NetOK, Net
<1>6. QED
  BY <1>1, <1>3, <1>4, <1>5 DEF SamePeers

\* The operations of a connection whose owner goes.
LEMMA DestroyIs ==
    ASSUME NEW n, NetOK(n), NEW o \in Objects
    PROVE  /\ NetOK(Destroy(n, o))
           /\ SamePeers(Destroy(n, o), n, o)
           /\ n.pending = {} => Destroy(n, o).pending = {} /\ Destroy(n, o).ready = n.ready
<1> DEFINE A == {q \in n.pending : q.obj = o /\ q.op \in {"connect", "handshake"}}
           c == Abort(n, A)
<1>1. NetOK(c) /\ c.pending = n.pending \ A /\ c.asked = n.asked /\ c.polls = n.polls
      /\ (A = {} => c = n)
  BY AbortIs
<1>2. Destroy(n, o) = Collect(c, o)
  BY DEF Destroy
<1> HIDE DEF A, c
<1>3. NetOK(Destroy(n, o)) /\ SamePeers(Destroy(n, o), c, o)
      /\ Destroy(n, o).pending = c.pending /\ Destroy(n, o).ready = c.ready
  BY <1>1, <1>2, CollectIs
<1>4. n.pending = {} => A = {}
  BY DEF A
<1>5. QED
  BY <1>1, <1>3, <1>4 DEF SamePeers

\* What a handler finds when its operation is over.
LEMMA PoppedIs ==
    ASSUME NetOK(net), net.ready # <<>>
    PROVE  /\ NetOK(Popped)
           /\ DoneOK(Completion)
           /\ Popped.pending = net.pending
           /\ Popped.ready = Tail(net.ready)
           /\ ~IsDestroyed(Completion.p) =>
                 \A f \in {"sock", "tls", "m_IsOpen", "asked", "params", "polls"} :
                    Popped[f] = net[f]
<1> DEFINE n == [net EXCEPT !.ready = Tail(@)]
<1>1. /\ IsSeq(Tail(net.ready)) /\ DoneOK(Completion)
      /\ \A i \in DOMAIN Tail(net.ready) : DoneOK(Tail(net.ready)[i])
  BY TailIs DEF NetOK, OpsOK, Completion
<1>2. n = Net(net.sock, net.tls, net.m_IsOpen, net.asked, net.params, net.polls,
              net.pending, Tail(net.ready))
  <2>1. net = Net(net.sock, net.tls, net.m_IsOpen, net.asked, net.params, net.polls,
                  net.pending, net.ready)
    BY DEF NetOK
  <2>2. n = [net EXCEPT !.ready = Tail(@)]
    OBVIOUS
  <2> HIDE DEF n
  <2>3. QED
    BY <2>1, <2>2 DEF Net
<1> HIDE DEF n
<1>3. OpsOK(net.pending, Tail(net.ready))
  BY <1>1 DEF NetOK, OpsOK
<1>4. NetOK(n) /\ n.pending = net.pending /\ n.ready = Tail(net.ready)
      /\ \A f \in {"sock", "tls", "m_IsOpen", "asked", "params", "polls"} : n[f] = net[f]
  <2>1. NetOK(n)
    BY <1>2, <1>3, NetIs DEF NetOK
  <2>2. QED
    BY <1>2, <2>1 DEF Net
<1>5. Popped = IF IsDestroyed(Completion.p) THEN Collect(n, Completion.p.obj) ELSE n
  BY DEF Popped, n
<1>6. Completion.p.obj \in Objects
  BY <1>1 DEF DoneOK, OpOK, IsOp
<1>7. QED
  BY <1>1, <1>4, <1>5, <1>6, CollectIs

-----------------------------------------------------------------------------
(* Every action keeps the types.                                           *)

\* What TypedInv adds to the type invariant is the shape of net.
LEMMA TypedIsTypeOK ==
    ASSUME TypedInv
    PROVE  ClientTypeOK
  BY DEF TypedInv, NetOK, PeersOK, OpsOK, OpOK, DoneOK, RestOK, SockStates, TlsStates, ClientTypeOK

\* What the constants are used for.
LEMMA ConstantsAre ==
    /\ {1, 2} \subseteq Objects /\ 1 \in 0 .. MaxChains /\ MaxChains \in Nat
    /\ Slots = {"http", "idle"} /\ 0 \in 0 .. MaxChains
  BY ClientConstants DEF Objects, Slots

\* Before the first connect, the network is well typed, ...
LEMMA NetInitTyped ==
    NetOK(NetInit)
<1>1. NetInit = Net([o \in Objects |-> "closed"], [o \in Objects |-> "new"],
                    [o \in Objects |-> FALSE],
                    [o \in Objects |-> <<>>], [o \in Objects |-> Params],
                    [o \in Objects |-> "no"], {}, <<>>)
  BY DEF NetInit, Net
<1>2. OpsOK({}, <<>>)
  <2>1. IsFiniteSet({})
    BY FS_EmptySet
  <2>2. <<>> \in Seq({})
    OBVIOUS
  <2>3. IsSeq(<<>>)
    BY <2>2, SeqOfOwn
  <2>4. QED
    BY <2>1, <2>3 DEF OpsOK
<1>3. PeersOK([o \in Objects |-> "closed"], [o \in Objects |-> "new"],
              [o \in Objects |-> <<>>], [o \in Objects |-> "no"])
  BY DEF PeersOK, SockStates, TlsStates
<1>4. QED
  BY <1>1, <1>2, <1>3, NetIs

\* ... and so is the client that makes it.
LEMMA InitTyped ==
    ASSUME Init
    PROVE  TypedInv
<1> USE ConstantsAre
<1>1. NetOK(NetInit)
  BY NetInitTyped
<1>2. OpOK(Connect("http", 1, 1, 1))
  BY OpIs DEF Connect, NoRequest, Parsable
<1>3. NetOK(net)
  BY <1>1, <1>2, start_connectIs DEF Init
<1>4. <<>> \in Seq(Events)
  OBVIOUS
<1>5. RestOK
  BY <1>4 DEF Init, RestOK
<1>6. QED
  BY <1>3, <1>5 DEF TypedInv

\* The events of the queue are what the users type.
LEMMA TypeTyped ==
    ASSUME TypedInv, NEW wish, Type(wish)
    PROVE  TypedInv'
<1>1. user \in Tempers /\ DOMAIN Typable = Tempers /\ wish \in Typable[user]
  BY ClientConstants DEF TypedInv, RestOK, Type
<1>2. wish \in DOMAIN Input
  BY <1>1 DEF Input
<1>3. [msg |-> Input[wish], wish |-> wish] \in Events
  BY <1>2 DEF Events
<1>4. m_Queue' \in Seq(Events)
  BY <1>3 DEF TypedInv, RestOK, Type
<1>5. QED
  BY <1>4 DEF TypedInv, RestOK, Type, selfVars

\* A request is sent on m_Http.
LEMMA SendTyped ==
    ASSUME TypedInv, NEW n, NetOK(n), NEW req, req.cmd \in Parsable, sendRequest(n, req)
    PROVE  NetOK(net')
<1>1. OpOK(Op("write", "http", m_Http, 0, 0, req))
  BY OpIs, ConstantsAre DEF TypedInv, RestOK
<1>2. QED
  BY <1>1, StartIoIs DEF sendRequest

\* An event and its wish.
LEMMA EventIs ==
    ASSUME NEW event \in Events
    PROVE  event.wish \in DOMAIN Input /\ event.msg = Input[event.wish]
  BY DEF Events

\* The commands the parser returns for the events of the queue.
LEMMA EventCmd ==
    ASSUME NEW event \in Events
    PROVE  Parsed[event.msg].cmd \in Parsable
<1>1. event.msg \in {Input[wish] : wish \in DOMAIN Input}
  BY EventIs
<1>2. Parsed[event.msg] = parse(event.msg)
  BY <1>1 DEF Parsed
<1>3. QED
  BY <1>2, ParseCmd

\* The three ways a line goes.
LEMMA InputWays ==
    ASSUME NEW event \in Events, onUserInput(event)
    PROVE  \/ \E req : /\ sendRequest(net, req)
                       /\ req.cmd \in Parsable
                       /\ req.resource # cmd2string["IDLE"]
                       /\ UNCHANGED <<m_State, alive, turn>>
           \/ LocalCommand(Parsed[event.msg])
<1> DEFINE args == Parsed[event.msg]
           chat == m_State.mode = "CHAT_U" /\ args.cmd \notin {"UNCHAT", "DIRECT_MSG_USER"}
           body == build_user_send_msg_body(m_SelfId, 0, m_State.user, event.msg, m_Password)
           wish == <<"direct_msg", m_State.user, event.msg>>
<1>1. \/ /\ chat
         /\ sendRequest(net, Request("DIRECT_MSG_USER", "MESSAGE_SEND", body, wish))
         /\ UNCHANGED <<m_Password, m_State, alive, turn>>
      \/ ~chat /\ args.cmd \in LocalCmds /\ LocalCommand(args)
      \/ /\ ~chat /\ args.cmd \notin LocalCmds
         /\ sendRequest(net, CommandRequest(args, event.wish))
         /\ UNCHANGED <<m_State, alive, turn>>
  BY DEF onUserInput, LocalCmds
<1>2. ASSUME sendRequest(net, Request("DIRECT_MSG_USER", "MESSAGE_SEND", body, wish)),
             UNCHANGED <<m_State, alive, turn>>
      PROVE  \E req : /\ sendRequest(net, req)
                      /\ req.cmd \in Parsable
                      /\ req.resource # cmd2string["IDLE"]
                      /\ UNCHANGED <<m_State, alive, turn>>
  <2> DEFINE req == Request("DIRECT_MSG_USER", "MESSAGE_SEND", body, wish)
  <2>1. req.cmd \in Parsable /\ req.resource # cmd2string["IDLE"]
    BY DEF Request, Parsable, Commands, cmd2string
  <2> HIDE DEF req
  <2>2. QED
    BY <1>2, <2>1 DEF req
<1>3. ASSUME args.cmd \notin LocalCmds, sendRequest(net, CommandRequest(args, event.wish)),
             UNCHANGED <<m_State, alive, turn>>
      PROVE  \E req : /\ sendRequest(net, req)
                      /\ req.cmd \in Parsable
                      /\ req.resource # cmd2string["IDLE"]
                      /\ UNCHANGED <<m_State, alive, turn>>
  <2> DEFINE req == CommandRequest(args, event.wish)
  <2>1. args.cmd \in Parsable
    BY EventCmd
  <2>2. args.cmd \in DOMAIN Commands \ {"HELP", "UNCHAT", "QUIT", "CHAT_WITH_USER",
                                        "HISTORY_GROUP", "STATUS_GROUP"}
    BY <1>3, <2>1 DEF Parsable, LocalCmds
  <2> HIDE DEF args
  <2>3. req.cmd \in Parsable /\ req.resource # cmd2string["IDLE"]
    BY <2>1, <2>2, RequestOfCommand
  <2> HIDE DEF req
  <2>4. QED
    BY <1>3, <2>3 DEF req
<1> HIDE DEF chat, body, wish, args
<1>4. QED
  BY <1>1, <1>2, <1>3 DEF args

\* A command of the user.
LEMMA processQueueTyped ==
    ASSUME TypedInv, processQueue
    PROVE  TypedInv'
<1>1. m_Queue \in Seq(Events) /\ m_Queue # <<>>
  BY DEF TypedInv, RestOK, processQueue
<1>2. Head(m_Queue) \in Events /\ Tail(m_Queue) \in Seq(Events)
  BY <1>1
<1>3. /\ NetOK(net') /\ m_State.mode' \in {"USUAL", "CHAT_U"} /\ turn' \in {"user", "client"}
      /\ alive' \in {"running", "quit", "crashed"}
  <2>1. onUserInput(Head(m_Queue))
    BY DEF processQueue
  <2>2. CASE \E req : /\ sendRequest(net, req)
                      /\ req.cmd \in Parsable
                      /\ UNCHANGED <<m_State, alive, turn>>
    BY <2>2, SendTyped DEF TypedInv, RestOK
  <2>3. CASE LocalCommand(Parsed[Head(m_Queue).msg])
    BY <2>3 DEF LocalCommand, TypedInv, RestOK
  <2>4. QED
    BY <1>2, <2>1, <2>2, <2>3, InputWays
<1>4. QED
  BY <1>2, <1>3 DEF TypedInv, RestOK, processQueue

\* An operation under way is completed.
LEMMA CompleteTyped ==
    ASSUME NEW n, NetOK(n), NEW p \in n.pending, NEW d, DoneOK(d)
    PROVE  OpsOK(n.pending \ {p}, Append(n.ready, d))
<1>1. IsFiniteSet(n.pending \ {p})
  BY FS_RemoveElement DEF NetOK, OpsOK
<1>2. QED
  BY <1>1, AppendReady DEF NetOK, OpsOK

\* What the server makes of an answer is the completion of a read.
LEMMA AnswerTyped ==
    ASSUME NEW p, OpOK(p), NEW heard, NEW res \in Answers(heard), NEW req
    PROVE  DoneOK(Answered(p, res, req, heard,
                           parse_response_aswer(heard.command, AnswerId(heard))))
<1>1. res \in {"bad", "ack", "200"}
  BY DEF Answers
<1>2. parse_response_aswer(heard.command, AnswerId(heard)) \in 0 .. 2
  BY DEF parse_response_aswer, AnswerId
<1>3. QED
  BY <1>1, <1>2 DEF DoneOK, Answered, Results

\* What a delivery does to net, in all its cases.
Delivery(p, sock, tls, asked, params, polls, d) ==
    /\ net' = Net(sock, tls, net.m_IsOpen, asked, params, polls,
                  net.pending \ {p}, Append(net.ready, d))
    /\ PeersOK(sock, tls, asked, polls)
    /\ DoneOK(d)
    /\ d.p = p
    /\ \A x \in Objects \ {p.obj} : asked[x] = net.asked[x] /\ polls[x] = net.polls[x]
    /\ \/ /\ p.op \in {"connect", "handshake"} /\ d.res = "ok" /\ d.heard = Nothing
          /\ asked = net.asked /\ polls = net.polls
       \/ /\ p.op = "write" /\ d.res = "ok" /\ d.heard = Nothing
          /\ asked[p.obj] = Append(net.asked[p.obj], p.req) /\ polls = net.polls
       \/ /\ p.op \in {"write", "read"} /\ d.res = "error" /\ d.heard = Nothing
          /\ asked = net.asked /\ polls = net.polls
       \/ /\ p.op = "read" /\ d.res \in {"bad", "ack", "200"}
          /\ net.asked[p.obj] # <<>>
          /\ d.req = Head(net.asked[p.obj]) /\ d.heard = Hears(p.obj)
          /\ asked[p.obj] = Tail(net.asked[p.obj])
          /\ d.res = "ack" => Route(d.req.resource) = "IDLE"
          /\ polls[p.obj] = (IF d.res # "ack" THEN net.polls[p.obj]
                             ELSE IF Accepts(d.heard) THEN "accepted"
                             ELSE "rejected")
       \/ /\ p.op = "read" /\ d.res \in {"msg", "bad"} /\ d.heard = Nothing
          /\ net.polls[p.obj] # "no"
          /\ asked = net.asked /\ polls = net.polls

\* A delivery removes p, appends its completion, and what it does to the talk.
LEMMA DeliveryIs ==
    ASSUME NetOK(net), NEW p \in net.pending, NetworkDelivers(p)
    PROVE  \E sock, tls, asked, params, polls, d :
              Delivery(p, sock, tls, asked, params, polls, d)
<1>1. net = Net(net.sock, net.tls, net.m_IsOpen, net.asked, net.params, net.polls,
                net.pending, net.ready)
  BY DEF NetOK
<1>2. OpOK(p) /\ p.obj \in Objects
  BY DEF NetOK, OpsOK, OpOK, IsOp
<1>3. PeersOK(net.sock, net.tls, net.asked, net.polls)
  BY DEF NetOK
<1>4. CASE Connects(p)
  <2> DEFINE d == Done(p, "ok")
             sock == [net.sock EXCEPT ![p.obj] = "connected"]
  <2>1. net' = [net EXCEPT !.pending = @ \ {p}, !.ready = Append(@, d),
                           !.sock[p.obj] = "connected"]
    BY <1>4 DEF Connects
  <2>2. DoneOK(d) /\ d.p = p /\ d.res = "ok" /\ d.heard = Nothing
    BY <1>2, DoneIs DEF Results, Done, Answered
  <2>3. PeersOK(sock, net.tls, net.asked, net.polls)
    BY <1>2, <1>3 DEF PeersOK, SockStates
  <2> HIDE DEF d
  <2>4. net' = Net(sock, net.tls, net.m_IsOpen, net.asked, net.params, net.polls,
                   net.pending \ {p}, Append(net.ready, d))
    BY <1>1, <2>1 DEF Net
  <2>5. p.op \in {"connect", "handshake"}
    BY <1>4 DEF Connects
  <2> HIDE DEF sock
  <2>6. Delivery(p, sock, net.tls, net.asked, net.params, net.polls, d)
    BY <2>2, <2>3, <2>4, <2>5 DEF Delivery
  <2>7. QED
    BY <2>6
<1>5. CASE ShakesHands(p)
  <2> DEFINE d == Done(p, "ok")
             state == IF net.tls[p.obj] = "begun" THEN "open"
                      ELSE IF net.sock[p.obj] = "connected" THEN "gone"
                      ELSE net.sock[p.obj]
             sock == [net.sock EXCEPT ![p.obj] = state]
             tls == [net.tls EXCEPT ![p.obj] = "done"]
  <2>1. net' = [net EXCEPT !.pending = @ \ {p}, !.ready = Append(@, d),
                           !.tls[p.obj] = "done", !.sock[p.obj] = state]
    BY <1>5 DEF ShakesHands
  <2>2. DoneOK(d) /\ d.p = p /\ d.res = "ok" /\ d.heard = Nothing
    BY <1>2, DoneIs DEF Results, Done, Answered
  <2>3. PeersOK(sock, tls, net.asked, net.polls)
    BY <1>2, <1>3 DEF PeersOK, SockStates, TlsStates
  <2> HIDE DEF d, state
  <2>4. net' = Net(sock, tls, net.m_IsOpen, net.asked, net.params, net.polls,
                   net.pending \ {p}, Append(net.ready, d))
    BY <1>1, <2>1 DEF Net
  <2>5. p.op \in {"connect", "handshake"}
    BY <1>5 DEF ShakesHands
  <2> HIDE DEF sock, tls
  <2>6. Delivery(p, sock, tls, net.asked, net.params, net.polls, d)
    BY <2>2, <2>3, <2>4, <2>5 DEF Delivery
  <2>7. QED
    BY <2>6
<1>6. CASE Writes(p)
  <2> DEFINE d == Done(p, "ok")
             asked == [net.asked EXCEPT ![p.obj] = Append(@, p.req)]
  <2>1. net' = [net EXCEPT !.pending = @ \ {p}, !.ready = Append(@, d),
                           !.asked[p.obj] = Append(@, p.req)]
    BY <1>6 DEF Writes
  <2>2. DoneOK(d) /\ d.p = p /\ d.res = "ok" /\ d.heard = Nothing
    BY <1>2, DoneIs DEF Results, Done, Answered
  <2>3. /\ PeersOK(net.sock, net.tls, asked, net.polls)
        /\ asked[p.obj] = Append(net.asked[p.obj], p.req)
        /\ \A x \in Objects \ {p.obj} : asked[x] = net.asked[x]
    BY <1>2, <1>3 DEF PeersOK
  <2> HIDE DEF d
  <2>4. net' = Net(net.sock, net.tls, net.m_IsOpen, asked, net.params, net.polls,
                   net.pending \ {p}, Append(net.ready, d))
    BY <1>1, <2>1 DEF Net
  <2>5. p.op = "write"
    BY <1>6 DEF Writes
  <2> HIDE DEF asked
  <2>6. Delivery(p, net.sock, net.tls, asked, net.params, net.polls, d)
    BY <2>2, <2>3, <2>4, <2>5 DEF Delivery
  <2>7. QED
    BY <2>6
<1>7. CASE FailsOnGonePeer(p)
  <2> DEFINE d == Done(p, "error")
  <2>1. net' = [net EXCEPT !.pending = @ \ {p}, !.ready = Append(@, d)]
    BY <1>7 DEF FailsOnGonePeer
  <2>2. DoneOK(d) /\ d.p = p /\ d.res = "error" /\ d.heard = Nothing
    BY <1>2, DoneIs DEF Results, Done, Answered
  <2> HIDE DEF d
  <2>4. net' = Net(net.sock, net.tls, net.m_IsOpen, net.asked, net.params, net.polls,
                   net.pending \ {p}, Append(net.ready, d))
    BY <1>1, <2>1 DEF Net
  <2>5. p.op \in {"write", "read"}
    BY <1>7 DEF FailsOnGonePeer
  <2>6. Delivery(p, net.sock, net.tls, net.asked, net.params, net.polls, d)
    BY <1>3, <2>2, <2>4, <2>5 DEF Delivery
  <2>7. QED
    BY <2>6
<1>8. CASE ReadsAnswer(p)
  <2> DEFINE req == Head(net.asked[p.obj])
  <2>0. PICK heard \in {Hears(p.obj)} : \E res \in Answers(heard) :
          net' = [net EXCEPT !.pending = @ \ {p},
                             !.ready = Append(@, Answered(p, res, req, heard,
                                 parse_response_aswer(heard.command, AnswerId(heard)))),
                             !.asked[p.obj] = Tail(@),
                             !.params[p.obj] = heard.params,
                             !.polls[p.obj] = IF res # "ack" THEN @
                                              ELSE IF Accepts(heard) THEN "accepted"
                                              ELSE "rejected"]
    BY <1>8 DEF ReadsAnswer
  <2>1. PICK res \in Answers(heard) :
          net' = [net EXCEPT !.pending = @ \ {p},
                             !.ready = Append(@, Answered(p, res, req, heard,
                                 parse_response_aswer(heard.command, AnswerId(heard)))),
                             !.asked[p.obj] = Tail(@),
                             !.params[p.obj] = heard.params,
                             !.polls[p.obj] = IF res # "ack" THEN @
                                              ELSE IF Accepts(heard) THEN "accepted"
                                              ELSE "rejected"]
    BY <2>0
  <2> DEFINE d == Answered(p, res, req, heard,
                           parse_response_aswer(heard.command, AnswerId(heard)))
             poll == IF res # "ack" THEN net.polls[p.obj]
                     ELSE IF Accepts(heard) THEN "accepted" ELSE "rejected"
             asked == [net.asked EXCEPT ![p.obj] = Tail(@)]
             params == [net.params EXCEPT ![p.obj] = heard.params]
             polls == [net.polls EXCEPT ![p.obj] = poll]
  <2>2. DoneOK(d) /\ d.p = p /\ d.res = res /\ d.req = req /\ d.heard = heard
    BY <1>2, AnswerTyped DEF Answered
  <2>3. /\ res \in {"bad", "ack", "200"}
        /\ res = "ack" => heard.command = "IDLE"
    BY DEF Answers
  <2>4. heard.command = Route(req.resource)
    BY <2>0 DEF Hears
  <2>5. p.op = "read" /\ net.asked[p.obj] # <<>>
    BY <1>8 DEF ReadsAnswer
  <2>6. /\ PeersOK(net.sock, net.tls, asked, polls)
        /\ asked[p.obj] = Tail(net.asked[p.obj])
        /\ polls[p.obj] = poll
        /\ \A x \in Objects \ {p.obj} : asked[x] = net.asked[x] /\ polls[x] = net.polls[x]
    BY <1>2, <1>3 DEF PeersOK
  <2>7. net' = Net(net.sock, net.tls, net.m_IsOpen, asked, params, polls,
                   net.pending \ {p}, Append(net.ready, d))
    <3>1. net' = [net EXCEPT !.pending = @ \ {p}, !.ready = Append(@, d),
                             !.asked[p.obj] = Tail(@), !.params[p.obj] = heard.params,
                             !.polls[p.obj] = IF res # "ack" THEN @
                                              ELSE IF Accepts(heard) THEN "accepted"
                                              ELSE "rejected"]
      BY <2>1
    <3> HIDE DEF d
    <3>2. QED
      BY <1>1, <3>1 DEF Net
  <2> HIDE DEF asked, params, polls, d, req
  <2>8. poll = IF d.res # "ack" THEN net.polls[p.obj]
               ELSE IF Accepts(d.heard) THEN "accepted" ELSE "rejected"
    BY <2>2
  <2> HIDE DEF poll
  <2>9. d.res = "ack" => Route(d.req.resource) = "IDLE"
    BY <2>2, <2>3, <2>4
  <2>10. /\ p.op = "read" /\ d.res \in {"bad", "ack", "200"}
         /\ net.asked[p.obj] # <<>>
         /\ d.req = Head(net.asked[p.obj]) /\ d.heard = Hears(p.obj)
         /\ asked[p.obj] = Tail(net.asked[p.obj])
         /\ d.res = "ack" => Route(d.req.resource) = "IDLE"
         /\ polls[p.obj] = (IF d.res # "ack" THEN net.polls[p.obj]
                            ELSE IF Accepts(d.heard) THEN "accepted"
                            ELSE "rejected")
    BY <2>0, <2>2, <2>3, <2>5, <2>6, <2>8, <2>9 DEF req
  <2>11. Delivery(p, net.sock, net.tls, asked, params, polls, d)
    BY <2>2, <2>6, <2>7, <2>10 DEF Delivery
  <2>12. QED
    BY <2>11
<1>9. CASE ReadsMessages(p)
  <2> DEFINE res == IF net.polls[p.obj] = "accepted" THEN "msg" ELSE "bad"
             d == Done(p, res)
  <2>1. net' = [net EXCEPT !.pending = @ \ {p}, !.ready = Append(@, d)]
    BY <1>9 DEF ReadsMessages
  <2>2. DoneOK(d) /\ d.p = p /\ d.res = res /\ d.heard = Nothing
    BY <1>2, DoneIs DEF Results, Done, Answered
  <2> HIDE DEF d
  <2>4. net' = Net(net.sock, net.tls, net.m_IsOpen, net.asked, net.params, net.polls,
                   net.pending \ {p}, Append(net.ready, d))
    BY <1>1, <2>1 DEF Net
  <2>5. p.op = "read" /\ net.polls[p.obj] # "no"
    BY <1>9 DEF ReadsMessages
  <2>6. Delivery(p, net.sock, net.tls, net.asked, net.params, net.polls, d)
    BY <1>3, <2>2, <2>4, <2>5 DEF Delivery
  <2>7. QED
    BY <2>6
<1>10. QED
  BY <1>4, <1>5, <1>6, <1>7, <1>8, <1>9 DEF NetworkDelivers

\* Whatever the network delivers, ...
LEMMA DeliversTyped ==
    ASSUME TypedInv, NEW p \in net.pending, NetworkDelivers(p)
    PROVE  TypedInv'
<1>1. NetOK(net)
  BY DEF TypedInv
<1>2. PICK sock, tls, asked, params, polls, d :
         Delivery(p, sock, tls, asked, params, polls, d)
  BY <1>1, DeliveryIs
<1>3. NetOK(net')
  BY <1>1, <1>2, CompleteTyped, NetIs DEF Delivery
<1>4. QED
  BY <1>3 DEF TypedInv, RestOK, NetworkDelivers, selfVars, userVars

\* A connect, handshake or write fails.
LEMMA FailureIs ==
    ASSUME NetOK(net), NEW p \in net.pending, NetworkFails(p)
    PROVE  /\ \E tls : net' = Net(net.sock, tls, net.m_IsOpen, net.asked, net.params,
                                  net.polls, net.pending \ {p},
                                  Append(net.ready, Done(p, "error")))
           /\ NetOK(net')
<1> DEFINE state == IF p.op = "handshake" THEN brokenOff(net.tls[p.obj])
                    ELSE net.tls[p.obj]
           tls == [net.tls EXCEPT ![p.obj] = state]
<1>1. net = Net(net.sock, net.tls, net.m_IsOpen, net.asked, net.params, net.polls,
                net.pending, net.ready)
  BY DEF NetOK
<1>2. net' = [net EXCEPT !.pending = @ \ {p}, !.ready = Append(@, Done(p, "error")),
                         !.tls[p.obj] = state]
  BY DEF NetworkFails
<1>3. OpOK(p) /\ p.obj \in Objects
  BY DEF NetOK, OpsOK, OpOK, IsOp
<1>4. PeersOK(net.sock, tls, net.asked, net.polls)
  BY <1>3 DEF NetOK, PeersOK, TlsStates, brokenOff
<1> HIDE DEF state
<1>5. net' = Net(net.sock, tls, net.m_IsOpen, net.asked, net.params, net.polls,
                 net.pending \ {p}, Append(net.ready, Done(p, "error")))
  BY <1>1, <1>2 DEF Net
<1>6. DoneOK(Done(p, "error"))
  BY <1>3, DoneIs DEF Results
<1> HIDE DEF tls
<1>7. QED
  BY <1>4, <1>5, <1>6, CompleteTyped, NetIs DEF NetOK

\* ... or fails to, the types are kept.
LEMMA FailsTyped ==
    ASSUME TypedInv, NEW p \in net.pending, NetworkFails(p)
    PROVE  TypedInv'
<1>1. NetOK(net')
  BY FailureIs DEF TypedInv
<1>2. QED
  BY <1>1 DEF TypedInv, RestOK, NetworkFails, selfVars, userVars

\* A peer goes.
LEMMA DropIs ==
    ASSUME NetOK(net), NEW o \in Objects, ConnectionDrops(o)
    PROVE  NetOK(net') /\ \A f \in {"pending", "ready", "asked", "polls"} : net'[f] = net[f]
<1>1. net = Net(net.sock, net.tls, net.m_IsOpen, net.asked, net.params, net.polls,
                net.pending, net.ready)
  BY DEF NetOK
<1>2. net' = [net EXCEPT !.sock[o] = "gone"]
  BY DEF ConnectionDrops
<1>3. net' = Net([net.sock EXCEPT ![o] = "gone"], net.tls, net.m_IsOpen, net.asked, net.params,
                 net.polls, net.pending, net.ready)
  BY <1>1, <1>2 DEF Net
<1>4. PeersOK([net.sock EXCEPT ![o] = "gone"], net.tls, net.asked, net.polls)
  BY DEF NetOK, PeersOK, SockStates
<1>5. NetOK(net')
  BY <1>3, <1>4, NetIs DEF NetOK
<1>6. QED
  BY <1>3, <1>5 DEF Net

\* The types when it goes.
LEMMA DropsTyped ==
    ASSUME TypedInv, NEW o \in Objects, ConnectionDrops(o)
    PROVE  TypedInv'
<1>1. NetOK(net')
  BY DropIs DEF TypedInv
<1>2. QED
  BY <1>1 DEF TypedInv, RestOK, ConnectionDrops, selfVars, userVars

\* The timer.
LEMMA TimeoutTyped ==
    ASSUME TypedInv, timeoutExpires
    PROVE  TypedInv'
<1>1. NetOK(net')
  BY AbortIs DEF TypedInv, timeoutExpires
<1>2. QED
  BY <1>1 DEF TypedInv, RestOK, timeoutExpires, selfVars, userVars

\* A use of what was destroyed.
LEMMA crashTyped ==
    ASSUME TypedInv, crash
    PROVE  TypedInv'
<1>1. NetOK(net')
  BY PoppedIs DEF TypedInv, crash
<1>2. QED
  BY <1>1 DEF TypedInv, RestOK, crash, selfVars, userVars

\* The handler of what is first in net.ready.
LEMMA HandledIs ==
    ASSUME TypedInv, NEW op, NEW slot \in Slots, Handles(op, slot)
    PROVE  /\ NetOK(Popped)
           /\ DoneOK(Completion) /\ OpOK(Completion.p) /\ Completion.p.obj \in Objects
           /\ Completion.p.op = op /\ Completion.p.slot = slot
           /\ Completion.p.chain \in 0 .. MaxChains
           /\ Completion.p.req.cmd \in Parsable
           /\ Current(slot) \in Objects
<1>1. NetOK(Popped) /\ DoneOK(Completion)
  BY PoppedIs DEF TypedInv, Handles
<1>2. QED
  BY <1>1 DEF DoneOK, OpOK, IsOp, Parsable, TypedInv, RestOK, Current, Handles

\* A connect is begun.
LEMMA ConnectTyped ==
    ASSUME NEW n, NetOK(n), NEW slot \in Slots, NEW o \in Objects,
           NEW chain \in 0 .. MaxChains, NEW i
    PROVE  /\ OpOK(Connect(slot, o, chain, i))
           /\ NetOK(start_connect(n, Connect(slot, o, chain, i)))
<1>1. OpOK(Connect(slot, o, chain, i))
  BY OpIs DEF Connect, NoRequest, Parsable
<1>2. QED
  BY <1>1, start_connectIs

\* n with the connection of o open, and perhaps a handshake.
LEMMA OpenedIs ==
    ASSUME NEW n, NetOK(n), NEW o \in Objects, NEW q, OpOK(q)
    PROVE  /\ NetOK([n EXCEPT !.m_IsOpen[o] = TRUE])
           /\ NetOK([n EXCEPT !.m_IsOpen[o] = TRUE, !.tls[o] = underWay(@),
                              !.pending = @ \union {q}])
           /\ \A f \in {"pending", "ready", "asked", "polls"} :
                 [n EXCEPT !.m_IsOpen[o] = TRUE][f] = n[f]
           /\ \A f \in {"ready", "asked", "polls"} :
                 [n EXCEPT !.m_IsOpen[o] = TRUE, !.tls[o] = underWay(@),
                           !.pending = @ \union {q}][f] = n[f]
           /\ [n EXCEPT !.m_IsOpen[o] = TRUE, !.tls[o] = underWay(@),
                        !.pending = @ \union {q}].pending
                 = n.pending \union {q}
<1> DEFINE a == [n EXCEPT !.m_IsOpen[o] = TRUE]
           b == [n EXCEPT !.m_IsOpen[o] = TRUE, !.tls[o] = underWay(@),
                          !.pending = @ \union {q}]
           open == [n.m_IsOpen EXCEPT ![o] = TRUE]
           tls == [n.tls EXCEPT ![o] = underWay(@)]
<1>1. n = Net(n.sock, n.tls, n.m_IsOpen, n.asked, n.params, n.polls, n.pending, n.ready)
  BY DEF NetOK
<1>2. /\ a = [n EXCEPT !.m_IsOpen[o] = TRUE]
      /\ b = [n EXCEPT !.m_IsOpen[o] = TRUE, !.tls[o] = underWay(@),
                       !.pending = @ \union {q}]
  OBVIOUS
<1> HIDE DEF a, b
<1>3. a = Net(n.sock, n.tls, open, n.asked, n.params, n.polls, n.pending, n.ready)
  BY <1>1, <1>2 DEF Net
<1>4. b = Net(n.sock, tls, open, n.asked, n.params, n.polls, n.pending \union {q}, n.ready)
  BY <1>1, <1>2 DEF Net
<1>5. OpsOK(n.pending \union {q}, n.ready)
  <2>1. IsFiniteSet(n.pending \union {q})
    BY FS_AddElement DEF NetOK, OpsOK
  <2>2. QED
    BY <2>1 DEF NetOK, OpsOK
<1>6. PeersOK(n.sock, tls, n.asked, n.polls)
  BY DEF NetOK, PeersOK, TlsStates, underWay
<1> HIDE DEF open, tls
<1>7. NetOK(a) /\ NetOK(b)
  BY <1>3, <1>4, <1>5, <1>6, NetIs DEF NetOK
<1>8. /\ \A f \in {"pending", "ready", "asked", "polls"} : a[f] = n[f]
      /\ \A f \in {"ready", "asked", "polls"} : b[f] = n[f]
      /\ b.pending = n.pending \union {q}
  BY <1>3, <1>4 DEF Net
<1>9. QED
  BY <1>2, <1>7, <1>8

\* A connect has ended.
LEMMA handleConnectTyped ==
    ASSUME TypedInv, NEW slot \in Slots, handleConnect(slot)
    PROVE  TypedInv'
<1> DEFINE p == Completion.p
<1>1. Handles("connect", slot)
  BY DEF handleConnect
<1>2. /\ NetOK(Popped) /\ p.obj \in Objects /\ p.chain \in 0 .. MaxChains
      /\ Current(slot) \in Objects
  BY <1>1, HandledIs
<1>3. OpOK(Handshake(slot, p.obj, p.chain))
  BY <1>2, OpIs DEF Handshake, NoRequest, Parsable
<1>4. \/ net' = [Popped EXCEPT !.m_IsOpen[p.obj] = TRUE, !.tls[p.obj] = underWay(@),
                               !.pending = @ \union {Handshake(slot, p.obj, p.chain)}]
      \/ net' = start_connect(Popped, Connect(slot, p.obj, p.chain, p.i + 1))
      \/ net' = start_connect([Popped EXCEPT !.m_IsOpen[p.obj] = TRUE],
                              Connect(slot, p.obj, p.chain, 1))
      \/ net' = start_connect(Popped, Connect(slot, Current(slot), p.chain, 1))
  BY DEF handleConnect, Reconnect
<1>5. UNCHANGED turn
  BY DEF handleConnect, Reconnect
<1> HIDE DEF p
<1>6. NetOK(net')
  <2>1. NetOK([Popped EXCEPT !.m_IsOpen[p.obj] = TRUE])
    BY <1>2, <1>3, OpenedIs
  <2> DEFINE opened == [Popped EXCEPT !.m_IsOpen[p.obj] = TRUE]
             begun == [Popped EXCEPT !.m_IsOpen[p.obj] = TRUE, !.tls[p.obj] = underWay(@),
                                     !.pending = @ \union {Handshake(slot, p.obj, p.chain)}]
  <2>2. NetOK(begun)
    BY <1>2, <1>3, OpenedIs
  <2> HIDE DEF opened, begun
  <2>3. /\ NetOK(start_connect(Popped, Connect(slot, p.obj, p.chain, p.i + 1)))
        /\ NetOK(start_connect(Popped, Connect(slot, Current(slot), p.chain, 1)))
        /\ NetOK(start_connect(opened, Connect(slot, p.obj, p.chain, 1)))
    BY <1>2, <2>1, ConnectTyped DEF opened
  <2>4. QED
    BY <1>4, <2>2, <2>3 DEF opened, begun
<1>7. QED
  BY <1>5, <1>6 DEF TypedInv, RestOK, handleConnect

\* A handshake has ended.
LEMMA handleHandshakeTyped ==
    ASSUME TypedInv, NEW slot \in Slots, handleHandshake(slot)
    PROVE  TypedInv'
<1>1. Handles("handshake", slot)
  BY DEF handleHandshake
<1>2. /\ NetOK(Popped) /\ Completion.p.chain \in 0 .. MaxChains
      /\ Current(slot) \in Objects
  BY <1>1, HandledIs
<1>3. m_Http \in Objects /\ m_HttpIdle \in Objects
  BY DEF TypedInv, RestOK
<1>4. CASE Reconnect(slot, Completion.p.chain)
  <2>1. NetOK(net')
    BY <1>2, <1>4, ConnectTyped DEF Reconnect
  <2>2. QED
    BY <1>4, <2>1 DEF TypedInv, RestOK, handleHandshake, Reconnect
<1>5. CASE onHttpConnect
  <2>1. NetOK(net')
    <3>1. CASE LogsInByItself
      <4> DEFINE req == Request("LOGIN", "USER_LOGIN",
                                build_user_pass_body(Me, m_Password),
                                <<"login", Me, m_Password>>)
      <4>1. sendRequest(Popped, req)
        BY <1>5, <3>1 DEF onHttpConnect
      <4>2. req.cmd \in Parsable
        BY DEF Request, Parsable, Commands
      <4>3. QED
        BY <1>2, <4>1, <4>2, SendTyped
    <3>2. CASE ~LogsInByItself
      BY <1>2, <1>5, <3>2 DEF onHttpConnect
    <3>3. QED
      BY <3>1, <3>2
  <2>2. turn' \in {"user", "client"}
    BY <1>5 DEF onHttpConnect
  <2>3. QED
    BY <2>1, <2>2 DEF TypedInv, RestOK, handleHandshake
<1>6. CASE onHttpIdleConnect
  <2> DEFINE req == Request("NONE", "IDLE",
                            build_user_send_msg_body(m_SelfId, m_HeartBit, <<>>, <<>>,
                                                     m_Password), <<"idle">>)
  <2>1. net' = StartIo(Popped, Op("write", "idle", m_HttpIdle, 0, 0, req))
    BY <1>6 DEF onHttpIdleConnect
  <2>2. req.cmd \in Parsable
    BY DEF Request, Parsable
  <2> HIDE DEF req
  <2>3. OpOK(Op("write", "idle", m_HttpIdle, 0, 0, req))
    BY <1>3, <2>2, OpIs, ConstantsAre
  <2>4. NetOK(net')
    BY <1>2, <2>1, <2>3, StartIoIs
  <2>5. QED
    BY <1>6, <2>4 DEF TypedInv, RestOK, handleHandshake, onHttpIdleConnect
<1>7. QED
  BY <1>4, <1>5, <1>6 DEF handleHandshake

\* A write has ended.
LEMMA onWriteTyped ==
    ASSUME TypedInv, NEW slot \in Slots, onWrite(slot)
    PROVE  TypedInv'
<1>1. Handles("write", slot)
  BY DEF onWrite
<1>2. /\ NetOK(Popped) /\ Completion.p.req.cmd \in Parsable /\ Current(slot) \in Objects
  BY <1>1, HandledIs
<1>3. OpOK(Op("read", slot, Current(slot), 0, 0, Completion.p.req))
  BY <1>2, OpIs, ConstantsAre
<1>4. net' \in {Popped, StartIo(Popped, Op("read", slot, Current(slot), 0, 0, Completion.p.req))}
  BY DEF onWrite
<1>5. NetOK(net')
  BY <1>2, <1>3, <1>4, StartIoIs
<1>6. QED
  BY <1>5 DEF TypedInv, RestOK, onWrite, selfVars, userVars

\* A chain and a connection that are free.
LEMMA FreeChain ==
    ASSUME NEW n, NEW slot, FreeChains(n, slot) # {}
    PROVE  LeastOf(FreeChains(n, slot)) \in 0 .. MaxChains
<1>1. FreeChains(n, slot) \subseteq 1 .. MaxChains
  BY DEF FreeChains
<1>2. FreeChains(n, slot) \in SUBSET Nat
  BY <1>1, ConstantsAre
<1>3. LeastOf(FreeChains(n, slot)) \in FreeChains(n, slot)
  BY <1>2, LeastOfIn
<1>4. QED
  BY <1>1, <1>3, ConstantsAre

\* The connection that createConnect makes is neither taken nor current.
LEMMA NewConnect ==
    ASSUME NEW n, NEW taken, Unused(n) \ taken # {}
    PROVE  /\ createConnect(n, taken) \in Objects
           /\ createConnect(n, taken) \notin taken \union {m_Http, m_HttpIdle}
<1>1. Unused(n) \ taken \in SUBSET Nat /\ Unused(n) \subseteq Objects \ {m_Http, m_HttpIdle}
  BY DEF Unused, Objects
<1>2. createConnect(n, taken) \in Unused(n) \ taken
  BY <1>1, LeastOfIn DEF createConnect
<1>3. QED
  BY <1>1, <1>2

\* Of two free connections, the second is another one.
LEMMA TwoNew ==
    ASSUME NEW n, Cardinality(Unused(n)) >= 2, NEW x
    PROVE  Unused(n) \ {x} # {}
<1>1. IsFiniteSet(Unused(n))
  <2>1. IsFiniteSet(Objects) /\ Unused(n) \subseteq Objects
    BY FS_Interval, ClientConstants DEF Objects, Unused
  <2>2. QED
    BY <2>1, FS_Subset
<1>2. Unused(n) \ {x} = {} => Unused(n) \in {{}, {x}}
  OBVIOUS
<1>3. Unused(n) = {} => Cardinality(Unused(n)) = 0
  BY FS_EmptySet
<1>4. Unused(n) = {x} => Cardinality(Unused(n)) = 1
  BY FS_Singleton
<1>5. QED
  BY <1>2, <1>3, <1>4

\* m_Http is replaced.
LEMMA onHttpReadErrorTyped ==
    ASSUME TypedInv, onHttpReadError
    PROVE  TypedInv'
<1> DEFINE new == createConnect(Popped, {})
           made == Destroy(Popped, m_Http)
           chain == LeastOf(FreeChains(made, "http"))
<1>1. NetOK(Popped) /\ m_Http \in Objects
  BY HandledIs, ConstantsAre DEF onHttpReadError, TypedInv, RestOK
<1>2. NetOK(made)
  BY <1>1, DestroyIs
<1>3. /\ FreeChains(made, "http") # {}
      /\ net' = start_connect(made, Connect("http", new, chain, 1))
      /\ m_Http' = new
      /\ Unused(Popped) # {}
  BY DEF onHttpReadError
<1>4. new \in Objects /\ new # m_HttpIdle
  <2>1. Unused(Popped) \ {} # {}
    BY <1>3
  <2>2. QED
    BY <2>1, NewConnect
<1>5. chain \in 0 .. MaxChains
  BY <1>3, FreeChain
<1> HIDE DEF new, made, chain
<1>6. NetOK(net')
  BY <1>2, <1>3, <1>4, <1>5, ConnectTyped, ConstantsAre
<1>7. QED
  BY <1>3, <1>4, <1>6 DEF TypedInv, RestOK, onHttpReadError, selfVars, userVars

\* An answer is shown.
LEMMA onHttpReadShowTyped ==
    ASSUME TypedInv, onHttpReadShow
    PROVE  TypedInv'
<1>1. NetOK(Popped)
  BY HandledIs, ConstantsAre DEF onHttpReadShow
<1>2. QED
  BY <1>1 DEF TypedInv, RestOK, onHttpReadShow, selfVars

\* The answer to LOGIN.
LEMMA onHttpReadLoginTyped ==
    ASSUME TypedInv, onHttpReadLogin
    PROVE  TypedInv'
<1> DEFINE chain == LeastOf(FreeChains(Popped, "idle"))
<1>1. NetOK(Popped) /\ m_HttpIdle \in Objects /\ Completion.id \in 0 .. 2
  BY HandledIs, ConstantsAre DEF onHttpReadLogin, TypedInv, RestOK, DoneOK
<1>2. \/ net' = Popped
      \/ /\ FreeChains(Popped, "idle") # {}
         /\ net' = start_connect(Popped, Connect("idle", m_HttpIdle, chain, 1))
  BY DEF onHttpReadLogin
<1>3. FreeChains(Popped, "idle") # {} => chain \in 0 .. MaxChains
  BY FreeChain
<1> HIDE DEF chain
<1>4. NetOK(net')
  BY <1>1, <1>2, <1>3, ConnectTyped, ConstantsAre
<1>5. QED
  BY <1>1, <1>4 DEF TypedInv, RestOK, onHttpReadLogin

\* Both connections are replaced.
LEMMA onHttpIdleReadErrorTyped ==
    ASSUME TypedInv, onHttpIdleReadError
    PROVE  TypedInv'
<1> DEFINE newIdle == createConnect(Popped, {})
           newHttp == createConnect(Popped, {newIdle})
           n2 == Destroy(Destroy(Popped, m_HttpIdle), m_Http)
           chain == LeastOf(FreeChains(n2, "http"))
<1>1. NetOK(Popped) /\ m_Http \in Objects /\ m_HttpIdle \in Objects
  BY HandledIs, ConstantsAre DEF onHttpIdleReadError, TypedInv, RestOK
<1>2. NetOK(n2)
  BY <1>1, DestroyIs
<1>3. /\ FreeChains(n2, "http") # {}
      /\ net' = start_connect(n2, Connect("http", newHttp, chain, 1))
      /\ m_Http' = newHttp /\ m_HttpIdle' = newIdle
      /\ Cardinality(Unused(Popped)) >= 2
  BY DEF onHttpIdleReadError
<1>4. newIdle \in Objects
  <2>1. Unused(Popped) \ {0} # {}
    BY <1>3, TwoNew
  <2>2. Unused(Popped) \ {} # {}
    BY <2>1
  <2>3. QED
    BY <2>2, NewConnect
<1>5. newHttp \in Objects /\ newHttp # newIdle
  <2>1. Unused(Popped) \ {newIdle} # {}
    BY <1>3, TwoNew
  <2>2. QED
    BY <2>1, NewConnect
<1>6. chain \in 0 .. MaxChains
  BY <1>3, FreeChain
<1> HIDE DEF newIdle, newHttp, n2, chain
<1>7. NetOK(net')
  BY <1>2, <1>3, <1>5, <1>6, ConnectTyped, ConstantsAre
<1>8. QED
  BY <1>3, <1>4, <1>5, <1>7 DEF TypedInv, RestOK, onHttpIdleReadError

\* An acknowledgement, or messages.
LEMMA onHttpIdleReadTyped ==
    ASSUME TypedInv, onHttpIdleRead
    PROVE  TypedInv'
<1>1. NetOK(Popped) /\ Completion.p.req.cmd \in Parsable /\ m_HttpIdle \in Objects
  BY HandledIs, ConstantsAre DEF onHttpIdleRead, TypedInv, RestOK
<1>2. OpOK(Op("read", "idle", m_HttpIdle, 0, 0, Completion.p.req))
  BY <1>1, OpIs, ConstantsAre
<1>3. NetOK(net')
  BY <1>1, <1>2, StartIoIs DEF onHttpIdleRead
<1>4. QED
  BY <1>3 DEF TypedInv, RestOK, onHttpIdleRead, userVars

\* Every step.
LEMMA StepTyped ==
    ASSUME TypedInv, [Next]_clientVars
    PROVE  TypedInv'
<1>1. CASE UNCHANGED clientVars
  BY <1>1 DEF clientVars, selfVars, userVars, TypedInv, RestOK
<1>2. ASSUME NEW wish, Type(wish) PROVE TypedInv'
  BY <1>2, TypeTyped
<1>3. CASE processQueue
  BY <1>3, processQueueTyped
<1>4. ASSUME NEW p \in net.pending, NetworkDelivers(p) \/ NetworkFails(p) PROVE TypedInv'
  BY <1>4, DeliversTyped, FailsTyped
<1>5. ASSUME NEW o \in Objects, ConnectionDrops(o) PROVE TypedInv'
  BY <1>5, DropsTyped
<1>6. CASE timeoutExpires
  BY <1>6, TimeoutTyped
<1>7. CASE Handler
  <2>1. ASSUME NEW slot \in Slots, handleConnect(slot) \/ handleHandshake(slot) \/ onWrite(slot)
        PROVE  TypedInv'
    BY <2>1, handleConnectTyped, handleHandshakeTyped, onWriteTyped
  <2>2. QED
    BY <1>7, <2>1, onHttpReadErrorTyped, onHttpReadShowTyped, onHttpReadLoginTyped,
       onHttpIdleReadErrorTyped, onHttpIdleReadTyped, crashTyped DEF Handler
<1>8. QED
  BY <1>1, <1>2, <1>3, <1>4, <1>5, <1>6, <1>7 DEF Next

-----------------------------------------------------------------------------
(* One who listens has one operation under way, or none.                   *)

\* The conversation of n is that of m.
SameTalk(n, m) == n.asked = m.asked /\ n.polls = m.polls

\* What is ready is one of what is ready.
LEMMA ReadyIn ==
    ASSUME NEW n, NEW d, Ready(n, d)
    PROVE  d \in {n.ready[i] : i \in DOMAIN n.ready}
  BY DEF Ready

\* How the states of one who is logged out are shown, ...
LEMMA OutNoOp ==
    ASSUME ~m_IdleState', NoOp(net'), Silent(net', m_Http'), m_Queue' = <<>>
    PROVE  LoggedOut'
  BY DEF LoggedOut

\* ... with an operation under way, ...
LEMMA OutPends ==
    ASSUME ~m_IdleState', m_Queue' = <<>>, turn' = "client",
           NEW p, Pends(net', p), HttpPends(net, p)'
    PROVE  LoggedOut'
<1>1. p \in net'.pending /\ Pends(net, p)'
  BY DEF Pends
<1>2. QED
  BY <1>1 DEF LoggedOut

\* ... or completed, ...
LEMMA OutReady ==
    ASSUME ~m_IdleState', m_Queue' = <<>>, turn' = "client",
           NEW d, Ready(net', d), HttpReady(net, d)'
    PROVE  LoggedOut'
<1>1. d \in {net'.ready[i] : i \in DOMAIN net'.ready} /\ Ready(net, d)'
  BY ReadyIn DEF Ready
<1>2. QED
  BY <1>1 DEF LoggedOut

\* ... and of one who is logged in.
LEMMA InPends ==
    ASSUME m_Queue' = <<>>, NEW p, Pends(net', p), IdlePends(net, p)'
    PROVE  LoggedIn'
<1>1. p \in net'.pending /\ Pends(net, p)'
  BY DEF Pends
<1>2. QED
  BY <1>1 DEF LoggedIn

\* The completion of it.
LEMMA InReady ==
    ASSUME m_Queue' = <<>>, NEW d, Ready(net', d), IdleReady(net, d)'
    PROVE  LoggedIn'
<1>1. d \in {net'.ready[i] : i \in DOMAIN net'.ready} /\ Ready(net, d)'
  BY ReadyIn DEF Ready
<1>2. QED
  BY <1>1 DEF LoggedIn

\* A step that leaves all of it alone, but perhaps the sockets.
LEMMA SameListener ==
    ASSUME Listener,
           net'.pending = net.pending, net'.ready = net.ready, SameTalk(net', net),
           UNCHANGED <<m_Http, m_HttpIdle, selfVars, userVars, alive>>
    PROVE  Listener'
  BY DEF Listener, LoggedOut, LoggedIn, NoOp, Pends, Ready, HttpPends, HttpReady, IdlePends,
         IdleReady, Silent, Asks, Polled, AsksCmd, SameTalk, selfVars, userVars

\* What the operation under way of one who listens is.
LEMMA OnePending ==
    ASSUME Listener, user = "listens", NEW p \in net.pending
    PROVE  /\ Pends(net, p) /\ m_Queue = <<>>
           /\ told # "in" => HttpPends(net, p) /\ turn = "client" /\ ~m_IdleState
           /\ told = "in" => IdlePends(net, p)
<1>1. CASE told # "in"
  <2>1. LoggedOut
    BY <1>1 DEF Listener
  <2>2. PICK q \in net.pending : Pends(net, q) /\ HttpPends(net, q)
    BY <2>1 DEF LoggedOut, NoOp, Ready
  <2>3. p = q
    BY <2>2 DEF Pends
  <2>4. QED
    BY <1>1, <2>1, <2>2, <2>3 DEF LoggedOut, NoOp, Ready
<1>2. CASE told = "in"
  <2>1. LoggedIn
    BY <1>2 DEF Listener
  <2>2. PICK q \in net.pending : Pends(net, q) /\ IdlePends(net, q)
    BY <2>1 DEF LoggedIn, NoOp, Ready
  <2>3. p = q
    BY <2>2 DEF Pends
  <2>4. QED
    BY <1>2, <2>1, <2>2, <2>3 DEF LoggedIn
<1>3. QED
  BY <1>1, <1>2

\* What his handler finds.
LEMMA OneReady ==
    ASSUME Listener, user = "listens", net.ready # <<>>
    PROVE  /\ Ready(net, Completion) /\ m_Queue = <<>> /\ ~IsDestroyed(Completion.p)
           /\ told # "in" => HttpReady(net, Completion) /\ turn = "client" /\ ~m_IdleState
           /\ told = "in" => IdleReady(net, Completion)
<1>1. CASE told # "in"
  <2>1. LoggedOut
    BY <1>1 DEF Listener
  <2>2. PICK d : Ready(net, d) /\ HttpReady(net, d)
    BY <2>1 DEF LoggedOut, NoOp, Pends
  <2>3. d = Completion
    BY <2>2 DEF Ready, Completion
  <2>4. m_Queue = <<>> /\ turn = "client" /\ ~m_IdleState
    BY <2>1 DEF LoggedOut, NoOp, Pends
  <2>5. QED
    BY <1>1, <2>2, <2>3, <2>4 DEF HttpReady, IsDestroyed, Current
<1>2. CASE told = "in"
  <2>1. LoggedIn
    BY <1>2 DEF Listener
  <2>2. PICK d : Ready(net, d) /\ IdleReady(net, d)
    BY <2>1 DEF LoggedIn, NoOp, Pends
  <2>3. d = Completion
    BY <2>2 DEF Ready, Completion
  <2>4. QED
    BY <1>2, <2>1, <2>2, <2>3 DEF LoggedIn, IdleReady, IsDestroyed, Current
<1>3. QED
  BY <1>1, <1>2

\* While his handler runs, nothing is under way.
LEMMA PoppedTalk ==
    ASSUME TypedInv, Listener, user = "listens", net.ready # <<>>
    PROVE  NetOK(Popped) /\ NoOp(Popped) /\ SameTalk(Popped, net)
<1>1. Ready(net, Completion) /\ ~IsDestroyed(Completion.p)
  BY OneReady
<1>2. /\ NetOK(Popped) /\ Popped.pending = net.pending /\ Popped.ready = Tail(net.ready)
      /\ SameTalk(Popped, net)
  BY <1>1, PoppedIs DEF TypedInv, SameTalk
<1>3. Tail(<<Completion>>) = <<>>
  OBVIOUS
<1>4. QED
  BY <1>1, <1>2, <1>3 DEF Ready, NoOp

\* A read or a write that is started when nothing is under way.
LEMMA StartOne ==
    ASSUME NEW n, NetOK(n), NoOp(n), NEW p, OpOK(p)
    PROVE  /\ SameTalk(StartIo(n, p), n)
           /\ \/ Ready(StartIo(n, p), Done(p, "error"))
              \/ \E q : /\ Pends(StartIo(n, p), q)
                        /\ q.op = p.op /\ q.slot = p.slot /\ q.obj = p.obj /\ q.req = p.req
<1> DEFINE m == StartIo(n, p)
<1>1. SameTalk(m, n)
  BY StartIoIs DEF SameTalk
<1>2. CASE m.pending = n.pending /\ m.ready = Append(n.ready, Done(p, "error"))
  <2>1. Append(<<>>, Done(p, "error")) = <<Done(p, "error")>>
    OBVIOUS
  <2>2. Ready(m, Done(p, "error"))
    BY <1>2, <2>1 DEF NoOp, Ready
  <2>3. QED
    BY <1>1, <2>2
<1>3. CASE (\E x : m.pending = n.pending \union {[p EXCEPT !.i = x]}) /\ m.ready = n.ready
  <2>1. PICK x : m.pending = n.pending \union {[p EXCEPT !.i = x]}
    BY <1>3
  <2> DEFINE q == [p EXCEPT !.i = x]
  <2>2. q.op = p.op /\ q.slot = p.slot /\ q.obj = p.obj /\ q.req = p.req
    BY DEF OpOK, Op
  <2> HIDE DEF q, m
  <2>3. Pends(m, q)
    BY <1>3, <2>1 DEF q, NoOp, Pends
  <2>4. QED
    BY <1>1, <2>2, <2>3 DEF m
<1>4. QED
  BY <1>2, <1>3, StartIoIs

\* A connect that is started when nothing is under way.
LEMMA ConnectOne ==
    ASSUME NEW n, NetOK(n), NoOp(n), NEW p, OpOK(p)
    PROVE  /\ Pends(start_connect(n, p), p)
           /\ Silent(start_connect(n, p), p.obj)
  BY start_connectIs DEF NoOp, Pends

\* The first connect of m_Http is under way.
LEMMA InitListener ==
    ASSUME Init
    PROVE  Listener
<1> DEFINE p == Connect("http", 1, 1, 1)
<1>1. NetOK(NetInit) /\ NetInit.pending = {} /\ NetInit.ready = <<>>
  BY NetInitTyped DEF NetInit
<1>2. OpOK(p)
  BY OpIs, ConstantsAre DEF Connect, NoRequest, Parsable
<1>3. Pends(net, p) /\ Silent(net, 1)
  <2>1. p.obj = 1
    BY DEF Connect, Op
  <2>2. QED
    BY <1>1, <1>2, <2>1, ConnectOne DEF Init, NoOp
<1>4. HttpPends(net, p)
  BY <1>3 DEF HttpPends, Connect, Op, Init
<1>5. p \in net.pending
  BY <1>3 DEF Pends
<1> HIDE DEF p
<1>6. LoggedOut
  BY <1>3, <1>4, <1>5 DEF Init, LoggedOut
<1>7. QED
  BY <1>6 DEF Init, Listener

\* He types when it is his turn, and nothing is under way then.
LEMMA TypeListens ==
    ASSUME TypedInv, Listener, NEW wish, Type(wish)
    PROVE  Listener'
<1> SUFFICES ASSUME user = "listens" PROVE Listener'
  BY DEF Type, Listener
<1>1. told # "in" /\ turn = "user"
  BY DEF Type
<1>2. NoOp(net) /\ Silent(net, m_Http) /\ m_Queue = <<>> /\ ~m_IdleState
  BY <1>1 DEF Listener, LoggedOut
<1> DEFINE e == [msg |-> Input[wish], wish |-> wish]
<1>3. m_Queue' = Append(<<>>, e) /\ turn' = "client"
  BY <1>2 DEF Type
<1> HIDE DEF e
<1>4. m_Queue' = <<m_Queue'[1]>>
  BY <1>3
<1>5. QED
  BY <1>1, <1>2, <1>3, <1>4
  DEF Type, Listener, LoggedOut, NoOp, Silent, selfVars

\* His request is the only one under way.
LEMMA SendListens ==
    ASSUME TypedInv, NEW n, NetOK(n), NoOp(n), Silent(n, m_Http),
           NEW req, req.cmd \in Parsable, req.resource # cmd2string["IDLE"],
           sendRequest(n, req),
           UNCHANGED m_Http, ~m_IdleState', m_Queue' = <<>>, turn' = "client"
    PROVE  LoggedOut'
<1>0. PICK w : w = Op("write", "http", m_Http, 0, 0, req)
  OBVIOUS
<1>1. OpOK(w)
  BY <1>0, OpIs, ConstantsAre DEF TypedInv, RestOK
<1>2. net' = StartIo(n, w) /\ m_LastCmd' = req.cmd
  BY <1>0 DEF sendRequest
<1>3. w.op = "write" /\ w.slot = "http" /\ w.obj = m_Http /\ w.req = req
  BY <1>0 DEF Op
<1>4. SameTalk(net', n)
  BY <1>1, <1>2, StartOne
<1>5. Silent(net', m_Http')
  BY <1>4 DEF Silent, SameTalk
<1>6. ASSUME NEW q, Pends(net', q), q.op = w.op, q.slot = w.slot, q.obj = w.obj, q.req = w.req
      PROVE  LoggedOut'
  <2>1. HttpPends(net, q)'
    BY <1>2, <1>3, <1>5, <1>6 DEF HttpPends
  <2>2. QED
    BY <1>6, <2>1, OutPends
<1>7. ASSUME Ready(net', Done(w, "error"))
      PROVE  LoggedOut'
  <2>1. HttpReady(net, Done(w, "error"))'
    BY <1>3, <1>5 DEF HttpReady, Done, Answered
  <2>2. QED
    BY <1>7, <2>1, OutReady
<1>8. QED
  BY <1>1, <1>2, <1>6, <1>7, StartOne

\* His command is sent, or shown.
LEMMA processQueueListens ==
    ASSUME TypedInv, Listener, processQueue
    PROVE  Listener'
<1> SUFFICES ASSUME user = "listens" PROVE Listener'
  BY DEF processQueue, Listener
<1>1. m_Queue # <<>> /\ m_Queue \in Seq(Events)
  BY DEF processQueue, TypedInv, RestOK
<1>2. told # "in" /\ LoggedOut
  BY <1>1 DEF Listener, LoggedIn
<1>3. /\ NoOp(net) /\ Silent(net, m_Http) /\ m_Queue = <<m_Queue[1]>> /\ turn = "client"
      /\ ~m_IdleState
  BY <1>1, <1>2 DEF LoggedOut
<1>4. m_Queue' = <<>> /\ Head(m_Queue) \in Events
  BY <1>1, <1>3 DEF processQueue
<1>5. onUserInput(Head(m_Queue)) /\ UNCHANGED <<m_Http, m_IdleState, user, told>>
  BY DEF processQueue
<1>6. CASE \E req : /\ sendRequest(net, req)
                    /\ req.cmd \in Parsable
                    /\ req.resource # cmd2string["IDLE"]
                    /\ UNCHANGED <<m_State, alive, turn>>
  <2>1. PICK req : /\ sendRequest(net, req)
                   /\ req.cmd \in Parsable
                   /\ req.resource # cmd2string["IDLE"]
                   /\ UNCHANGED <<m_State, alive, turn>>
    BY <1>6
  <2>2. LoggedOut'
    BY <1>3, <1>4, <1>5, <2>1, SendListens DEF TypedInv
  <2>3. QED
    BY <1>2, <1>5, <2>1, <2>2 DEF Listener
<1>7. CASE LocalCommand(Parsed[Head(m_Queue).msg])
  <2>1. UNCHANGED net /\ alive' # "crashed"
    BY <1>7 DEF LocalCommand, Listener
  <2>2. LoggedOut'
    BY <1>3, <1>4, <1>5, <2>1 DEF LoggedOut, NoOp, Silent
  <2>3. QED
    BY <1>2, <1>5, <2>1, <2>2 DEF Listener
<1>8. QED
  BY <1>4, <1>5, <1>6, <1>7, InputWays

\* Only an idle request is routed to IDLE.
LEMMA RouteIdle ==
    ASSUME NEW resource, Route(resource) = "IDLE"
    PROVE  resource = cmd2string["IDLE"]
<1> DEFINE routed == {command \in DOMAIN cmd2string \ {"CHAT_STATUS", "MESSAGE_RECENT"} :
                         cmd2string[command] = resource}
<1>1. routed # {} /\ (CHOOSE command \in routed : TRUE) = "IDLE"
  BY DEF Route
<1>2. "IDLE" \in routed
  BY <1>1
<1>3. QED
  BY <1>2

\* What the network delivers.
LEMMA DeliversListens ==
    ASSUME TypedInv, Listener, NEW p \in net.pending, NetworkDelivers(p)
    PROVE  Listener'
<1> SUFFICES ASSUME user = "listens" PROVE Listener'
  BY DEF NetworkDelivers, Listener, userVars
<1>1. PICK sock, tls, asked, params, polls, d :
         Delivery(p, sock, tls, asked, params, polls, d)
  BY DeliveryIs DEF TypedInv
<1>2. Pends(net, p) /\ m_Queue = <<>>
  BY OnePending
<1>3. /\ Ready(net', d) /\ d.p = p
      /\ net'.asked = asked /\ net'.polls = polls
  <2>1. Append(<<>>, d) = <<d>> /\ {p} \ {p} = {}
    OBVIOUS
  <2>2. QED
    BY <1>1, <1>2, <2>1 DEF Delivery, Ready, Pends, Net
<1>4. UNCHANGED <<m_Http, m_HttpIdle, m_LastCmd, m_IdleState, m_Queue, user, turn, told, alive>>
  BY DEF NetworkDelivers, selfVars, userVars
<1>5. p.op \in {"connect", "handshake", "write", "read"} /\ p.obj \in Objects
  BY DEF TypedInv, NetOK, OpsOK, OpOK, IsOp
<1>6. CASE told # "in"
  <2> SUFFICES LoggedOut'
    BY <1>4, <1>6 DEF Listener
  <2>1. HttpPends(net, p) /\ turn = "client" /\ ~m_IdleState
    BY <1>6, OnePending
  <2>2. p.slot = "http" /\ p.obj = m_Http
    BY <2>1 DEF HttpPends
  <2>3. CASE p.op \in {"connect", "handshake"}
    <3>1. d.res = "ok" /\ asked = net.asked /\ polls = net.polls
      BY <1>1, <2>3 DEF Delivery
    <3>2. HttpReady(net, d)'
      BY <1>3, <1>4, <2>1, <2>3, <3>1 DEF HttpPends, HttpReady, Silent
    <3>3. QED
      BY <1>2, <1>3, <1>4, <2>1, <3>2, OutReady
  <2>4. CASE p.op = "write"
    <3>1. Silent(net, m_Http) /\ p.req.cmd = m_LastCmd /\ p.req.resource # cmd2string["IDLE"]
      BY <2>1, <2>4 DEF HttpPends
    <3>2. /\ polls = net.polls
          /\ \/ d.res = "ok" /\ asked[p.obj] = Append(net.asked[p.obj], p.req)
             \/ d.res = "error" /\ asked = net.asked
      BY <1>1, <2>4 DEF Delivery
    <3>3. Append(<<>>, p.req) = <<p.req>> /\ <<p.req>>[1] = p.req
      OBVIOUS
    <3>4. HttpReady(net, d)'
      BY <1>3, <1>4, <2>2, <2>4, <3>1, <3>2, <3>3 DEF HttpReady, Silent, AsksCmd, Asks
    <3>5. QED
      BY <1>2, <1>3, <1>4, <2>1, <3>4, OutReady
  <2>5. CASE p.op = "read"
    <3> DEFINE r == net.asked[m_Http][1]
    <3>1. /\ net.asked[m_Http] = <<r>> /\ r.cmd = m_LastCmd /\ r.resource # cmd2string["IDLE"]
          /\ net.polls[m_Http] = "no"
      BY <2>1, <2>5 DEF HttpPends, AsksCmd, Asks
    <3> HIDE DEF r
    <3>2. CASE d.res = "error" /\ asked = net.asked /\ polls = net.polls
      <4>1. HttpReady(net, d)'
        BY <1>3, <1>4, <2>2, <2>5, <3>1, <3>2 DEF HttpReady, AsksCmd, Asks
      <4>2. QED
        BY <1>2, <1>3, <1>4, <2>1, <4>1, OutReady
    <3>3. CASE /\ d.res \in {"bad", "ack", "200"}
               /\ d.req = Head(net.asked[p.obj])
               /\ asked[p.obj] = Tail(net.asked[p.obj])
               /\ d.res = "ack" => Route(d.req.resource) = "IDLE"
               /\ polls[p.obj] = (IF d.res # "ack" THEN net.polls[p.obj]
                                  ELSE IF Accepts(d.heard) THEN "accepted"
                                  ELSE "rejected")
      <4>1. d.req = r /\ asked[m_Http] = <<>>
        <5>1. Head(<<r>>) = r /\ Tail(<<r>>) = <<>>
          OBVIOUS
        <5>2. QED
          BY <2>2, <3>1, <3>3, <5>1
      <4>2. d.res # "ack"
        BY <3>1, <3>3, <4>1, RouteIdle
      <4>3. polls[m_Http] = "no"
        BY <2>2, <3>1, <3>3, <4>2
      <4>4. HttpReady(net, d)'
        BY <1>3, <1>4, <2>2, <2>5, <3>1, <3>3, <4>1, <4>3 DEF HttpReady, Silent
      <4>5. QED
        BY <1>2, <1>3, <1>4, <2>1, <4>4, OutReady
    <3>4. QED
      BY <1>1, <2>2, <2>5, <3>1, <3>2, <3>3 DEF Delivery
  <2>6. QED
    BY <1>5, <2>3, <2>4, <2>5
<1>7. CASE told = "in"
  <2> SUFFICES LoggedIn'
    BY <1>4, <1>7 DEF Listener
  <2>1. IdlePends(net, p)
    BY <1>7, OnePending
  <2>2. p.slot = "idle" /\ p.obj = m_HttpIdle
    BY <2>1 DEF IdlePends
  <2>3. CASE p.op \in {"connect", "handshake"}
    <3>1. d.res = "ok" /\ asked = net.asked /\ polls = net.polls
      BY <1>1, <2>3 DEF Delivery
    <3>2. IdleReady(net, d)'
      BY <1>3, <1>4, <2>1, <2>3, <3>1 DEF IdlePends, IdleReady, Silent
    <3>3. QED
      BY <1>2, <1>3, <1>4, <3>2, InReady
  <2>4. CASE p.op = "write"
    <3>1. Silent(net, m_HttpIdle) /\ ~m_IdleState
      BY <2>1, <2>4 DEF IdlePends
    <3>2. /\ polls = net.polls
          /\ \/ d.res = "ok" /\ asked[p.obj] = Append(net.asked[p.obj], p.req)
             \/ d.res = "error" /\ asked = net.asked
      BY <1>1, <2>4 DEF Delivery
    <3>3. Append(<<>>, p.req) = <<p.req>> /\ <<p.req>>[1] = p.req
      OBVIOUS
    <3>4. IdleReady(net, d)'
      BY <1>3, <1>4, <2>2, <2>4, <3>1, <3>2, <3>3 DEF IdleReady, Silent, Asks
    <3>5. QED
      BY <1>2, <1>3, <1>4, <3>4, InReady
  <2>5. CASE p.op = "read"
    <3>1. IF m_IdleState THEN Polled(net, m_HttpIdle) ELSE Asks(net, m_HttpIdle)
      BY <2>1, <2>5 DEF IdlePends
    <3>2. CASE d.res = "error"
      <4>1. IdleReady(net, d)'
        BY <1>3, <1>4, <2>2, <2>5, <3>2 DEF IdleReady
      <4>2. QED
        BY <1>2, <1>3, <1>4, <4>1, InReady
    <3>3. CASE /\ d.res \in {"bad", "ack", "200"}
               /\ net.asked[p.obj] # <<>>
               /\ asked[p.obj] = Tail(net.asked[p.obj])
               /\ polls[p.obj] = (IF d.res # "ack" THEN net.polls[p.obj]
                                  ELSE IF Accepts(d.heard) THEN "accepted"
                                  ELSE "rejected")
      <4>1. ~m_IdleState /\ Asks(net, m_HttpIdle)
        BY <2>2, <3>1, <3>3 DEF Polled
      <4>2. asked[m_HttpIdle] = <<>>
        <5>1. Tail(<<net.asked[m_HttpIdle][1]>>) = <<>>
          OBVIOUS
        <5>2. QED
          BY <2>2, <3>3, <4>1, <5>1 DEF Asks
      <4>3. IdleReady(net, d)'
        BY <1>3, <1>4, <2>2, <2>5, <3>3, <4>1, <4>2 DEF IdleReady, Polled
      <4>4. QED
        BY <1>2, <1>3, <1>4, <4>3, InReady
    <3>4. CASE /\ d.res \in {"msg", "bad"} /\ net.polls[p.obj] # "no"
               /\ asked = net.asked /\ polls = net.polls
      <4>1. m_IdleState /\ Polled(net, m_HttpIdle)
        BY <2>2, <3>1, <3>4 DEF Asks
      <4>2. IdleReady(net, d)'
        BY <1>3, <1>4, <2>2, <2>5, <3>4, <4>1 DEF IdleReady, Polled
      <4>3. QED
        BY <1>2, <1>3, <1>4, <4>2, InReady
    <3>5. QED
      BY <1>1, <2>5, <3>2, <3>3, <3>4 DEF Delivery
  <2>6. QED
    BY <1>5, <2>3, <2>4, <2>5
<1>8. QED
  BY <1>6, <1>7

\* What it fails to.
LEMMA FailsListens ==
    ASSUME TypedInv, Listener, NEW p \in net.pending, NetworkFails(p)
    PROVE  Listener'
<1> SUFFICES ASSUME user = "listens" PROVE Listener'
  BY DEF NetworkFails, Listener, userVars
<1> DEFINE d == Done(p, "error")
<1>1. Pends(net, p) /\ m_Queue = <<>>
  BY OnePending
<1>2. PICK tls : /\ net' = Net(net.sock, tls, net.m_IsOpen, net.asked, net.params,
                               net.polls, net.pending \ {p}, Append(net.ready, d))
                 /\ p.op # "read"
  BY FailureIs DEF TypedInv, NetworkFails
<1>3. d.p = p /\ d.res = "error"
  BY DEF Done, Answered
<1> HIDE DEF d
<1>4. Ready(net', d) /\ SameTalk(net', net)
  <2>1. Append(<<>>, d) = <<d>> /\ {p} \ {p} = {}
    OBVIOUS
  <2>2. QED
    BY <1>1, <1>2, <2>1 DEF Ready, Pends, Net, SameTalk
<1>5. UNCHANGED <<m_Http, m_HttpIdle, m_LastCmd, m_IdleState, m_Queue, user, turn, told, alive>>
  BY DEF NetworkFails, selfVars, userVars
<1>6. CASE told # "in"
  <2>1. HttpPends(net, p) /\ turn = "client" /\ ~m_IdleState
    BY <1>6, OnePending
  <2>2. HttpReady(net, d)'
    BY <1>2, <1>3, <1>4, <1>5, <2>1 DEF HttpPends, HttpReady, Silent, SameTalk, d
  <2>3. LoggedOut'
    BY <1>1, <1>4, <1>5, <2>1, <2>2, OutReady
  <2>4. QED
    BY <1>5, <1>6, <2>3 DEF Listener
<1>7. CASE told = "in"
  <2>1. IdlePends(net, p)
    BY <1>7, OnePending
  <2>2. IdleReady(net, d)'
    BY <1>2, <1>3, <1>4, <1>5, <2>1 DEF IdlePends, IdleReady, Silent, SameTalk, d
  <2>3. LoggedIn'
    BY <1>1, <1>4, <1>5, <2>2, InReady
  <2>4. QED
    BY <1>5, <1>7, <2>3 DEF Listener
<1>8. QED
  BY <1>6, <1>7

\* A peer that goes is not noticed before the next read or write.
LEMMA DropsListens ==
    ASSUME TypedInv, Listener, NEW o \in Objects, ConnectionDrops(o)
    PROVE  Listener'
<1>1. net'.pending = net.pending /\ net'.ready = net.ready /\ SameTalk(net', net)
  BY DropIs DEF TypedInv, SameTalk
<1>2. QED
  BY <1>1, SameListener DEF ConnectionDrops

\* The operation under way is aborted.
LEMMA AbortOne ==
    ASSUME NEW n, NetOK(n), NEW p, Pends(n, p)
    PROVE  /\ Abort(n, {p}).pending = {} /\ Abort(n, {p}).ready = <<Done(p, "aborted")>>
           /\ SameTalk(Abort(n, {p}), n)
<1> DEFINE A == {p}
           t == [i \in 1 .. Cardinality(A) |-> Done(SetToSeq(A)[i], "aborted")]
<1>1. Cardinality(A) = 1 /\ IsFiniteSet(A)
  BY FS_Singleton
<1>2. SetToSeq(A) \in [1 .. 1 -> A]
  BY <1>1, SetToSeqLists
<1>3. t = <<Done(p, "aborted")>>
  <2>1. SetToSeq(A)[1] = p
    BY <1>2
  <2>2. QED
    BY <1>1, <2>1
<1>4. Abort(n, A) = [n EXCEPT !.pending = n.pending \ A, !.ready = n.ready \o t]
  BY DEF Abort
<1> HIDE DEF t
<1>5. Abort(n, A) = Net(n.sock, n.tls, n.m_IsOpen, n.asked, n.params, n.polls,
                        n.pending \ A, n.ready \o t)
  BY <1>4 DEF NetOK, Net
<1>6. <<>> \o t = t
  BY <1>3
<1>7. n.pending \ A = {} /\ n.ready \o t = t
  BY <1>6 DEF Pends
<1> HIDE DEF A
<1>8. Abort(n, A).pending = {} /\ Abort(n, A).ready = t
  BY <1>5, <1>7 DEF Net
<1>9. Abort(n, A).asked = n.asked /\ Abort(n, A).polls = n.polls
  BY <1>5 DEF Net
<1>10. QED
  BY <1>3, <1>8, <1>9 DEF A, SameTalk

\* The timer may abort the operation of m_Http.
LEMMA TimeoutListens ==
    ASSUME TypedInv, Listener, timeoutExpires
    PROVE  Listener'
<1> SUFFICES ASSUME user = "listens" PROVE Listener'
  BY DEF timeoutExpires, Listener, userVars
<1> DEFINE A == {p \in net.pending : p.obj = m_Http}
<1>1. net' = Abort(net, A) /\ NetOK(net)
  BY DEF timeoutExpires, TypedInv
<1>2. UNCHANGED <<m_Http, m_HttpIdle, selfVars, userVars, alive>>
  BY DEF timeoutExpires
<1>3. CASE A = {}
  <2>1. net' = net
    BY <1>1, <1>3, AbortIs
  <2>2. QED
    BY <1>2, <2>1, SameListener DEF SameTalk
<1>4. CASE A # {}
  <2>1. PICK p \in net.pending : p.obj = m_Http
    BY <1>4
  <2>2. Pends(net, p) /\ m_Queue = <<>>
    BY OnePending
  <2>3. told # "in"
    <3>1. told = "in" => p.obj = m_HttpIdle
      BY OnePending DEF IdlePends
    <3>2. QED
      BY <2>1, <3>1 DEF TypedInv, RestOK
  <2>4. HttpPends(net, p) /\ turn = "client" /\ ~m_IdleState
    BY <2>3, OnePending
  <2>5. A = {p}
    BY <2>1, <2>2 DEF Pends
  <2>6. /\ net'.pending = {} /\ net'.ready = <<Done(p, "aborted")>>
        /\ SameTalk(net', net)
    BY <1>1, <2>2, <2>5, AbortOne
  <2>7. PICK d : d = Done(p, "aborted")
    OBVIOUS
  <2>8. d.p = p /\ d.res = "aborted"
    BY <2>7 DEF Done, Answered
  <2>9. Ready(net', d)
    BY <2>6, <2>7 DEF Ready
  <2>10. HttpReady(net, d)'
    <3>1. p.op \in {"connect", "handshake", "write", "read"}
      BY DEF TypedInv, NetOK, OpsOK, OpOK, IsOp
    <3>2. QED
      BY <1>2, <2>4, <2>6, <2>8, <3>1
      DEF HttpPends, HttpReady, Silent, AsksCmd, Asks, SameTalk, selfVars
  <2>11. LoggedOut'
    BY <1>2, <2>2, <2>4, <2>9, <2>10, OutReady DEF selfVars, userVars
  <2>12. QED
    BY <1>2, <2>3, <2>11 DEF Listener, userVars
<1>5. QED
  BY <1>3, <1>4

\* No operation of his is on a connection that was destroyed.
LEMMA crashListens ==
    ASSUME TypedInv, Listener, crash
    PROVE  Listener'
<1> SUFFICES ASSUME user = "listens" PROVE FALSE
  BY DEF crash, Listener, userVars
<1>1. net.ready # <<>> /\ IsDestroyed(Completion.p)
  BY DEF crash, Dangling
<1>2. QED
  BY <1>1, OneReady

\* A connection that is being made, from where nothing is under way.
LEMMA ConnectOut ==
    ASSUME NEW n, NetOK(n), NoOp(n), NEW o \in Objects, NEW chain \in 0 .. MaxChains, NEW i,
           net' = start_connect(n, Connect("http", o, chain, i)), m_Http' = o,
           ~m_IdleState', m_Queue' = <<>>, turn' = "client"
    PROVE  LoggedOut'
<1>1. PICK p : p = Connect("http", o, chain, i)
  OBVIOUS
<1>2. OpOK(p) /\ p.op = "connect" /\ p.slot = "http" /\ p.obj = o
  BY <1>1, ConnectTyped, ConstantsAre DEF Connect, Op
<1>3. Pends(net', p) /\ Silent(net', m_Http')
  BY <1>1, <1>2, ConnectOne
<1>4. HttpPends(net, p)'
  BY <1>2, <1>3 DEF HttpPends
<1>5. QED
  BY <1>3, <1>4, OutPends

\* The same for the idle connection.
LEMMA ConnectIn ==
    ASSUME NEW n, NetOK(n), NoOp(n), NEW o \in Objects, NEW chain \in 0 .. MaxChains, NEW i,
           net' = start_connect(n, Connect("idle", o, chain, i)), m_HttpIdle' = o,
           ~m_IdleState', m_Queue' = <<>>
    PROVE  LoggedIn'
<1>1. PICK p : p = Connect("idle", o, chain, i)
  OBVIOUS
<1>2. OpOK(p) /\ p.op = "connect" /\ p.slot = "idle" /\ p.obj = o
  BY <1>1, ConnectTyped, ConstantsAre DEF Connect, Op
<1>3. Pends(net', p) /\ Silent(net', m_HttpIdle')
  BY <1>1, <1>2, ConnectOne
<1>4. IdlePends(net, p)'
  BY <1>2, <1>3 DEF IdlePends
<1>5. QED
  BY <1>3, <1>4, InPends

\* What a handler of either connection may count on.
LEMMA HttpHandler ==
    ASSUME TypedInv, Listener, user = "listens", NEW op, Handles(op, "http")
    PROVE  /\ told # "in" /\ turn = "client" /\ ~m_IdleState /\ m_Queue = <<>>
           /\ HttpReady(net, Completion)
           /\ Completion.p.op = op /\ Completion.p.obj = m_Http
           /\ NetOK(Popped) /\ NoOp(Popped) /\ SameTalk(Popped, net)
<1>1. net.ready # <<>> /\ Completion.p.op = op /\ Completion.p.slot = "http"
  BY DEF Handles
<1>2. told # "in"
  <2>1. told = "in" => Completion.p.slot = "idle"
    BY <1>1, OneReady DEF IdleReady
  <2>2. QED
    BY <1>1, <2>1
<1>3. QED
  BY <1>1, <1>2, OneReady, PoppedTalk DEF HttpReady

\* The handlers of the idle connection.
LEMMA IdleHandler ==
    ASSUME TypedInv, Listener, user = "listens", NEW op, Handles(op, "idle")
    PROVE  /\ told = "in" /\ m_Queue = <<>>
           /\ IdleReady(net, Completion)
           /\ Completion.p.op = op /\ Completion.p.obj = m_HttpIdle
           /\ NetOK(Popped) /\ NoOp(Popped) /\ SameTalk(Popped, net)
<1>1. net.ready # <<>> /\ Completion.p.op = op /\ Completion.p.slot = "idle"
  BY DEF Handles
<1>2. told = "in"
  <2>1. told # "in" => Completion.p.slot = "http"
    BY <1>1, OneReady DEF HttpReady
  <2>2. QED
    BY <1>1, <2>1
<1>3. QED
  BY <1>1, <1>2, OneReady, PoppedTalk DEF IdleReady

\* A handshake follows a connect.
LEMMA BegunIs ==
    ASSUME NEW n, NetOK(n), NoOp(n), NEW o \in Objects, NEW q, OpOK(q), NEW b,
           b = [n EXCEPT !.m_IsOpen[o] = TRUE, !.tls[o] = underWay(@),
                         !.pending = @ \union {q}]
    PROVE  Pends(b, q) /\ SameTalk(b, n)
<1>1. n = Net(n.sock, n.tls, n.m_IsOpen, n.asked, n.params, n.polls, n.pending, n.ready)
  BY DEF NetOK
<1>2. PICK open, tls : /\ open = [n.m_IsOpen EXCEPT ![o] = TRUE]
                       /\ tls = [n.tls EXCEPT ![o] = underWay(@)]
  OBVIOUS
<1>3. b = Net(n.sock, tls, open, n.asked, n.params, n.polls, n.pending \union {q}, n.ready)
  BY <1>1, <1>2 DEF Net
<1>4. b.pending = {} \union {q}
  BY <1>3 DEF NoOp, Net
<1>5. b.ready = n.ready /\ b.asked = n.asked /\ b.polls = n.polls
  BY <1>3 DEF Net
<1>6. QED
  BY <1>4, <1>5 DEF NoOp, Pends, SameTalk

\* A connect is followed by a handshake or by another connect of its chain.
LEMMA handleConnectListens ==
    ASSUME TypedInv, Listener, NEW slot \in Slots, handleConnect(slot)
    PROVE  Listener'
<1> SUFFICES ASSUME user = "listens" PROVE Listener'
  BY DEF handleConnect, Listener
<1>1. PICK p : p = Completion.p
  OBVIOUS
<1>2. Handles("connect", slot) /\ net.ready # <<>>
  BY DEF handleConnect, Handles
<1>3. /\ p.obj \in Objects /\ p.chain \in 0 .. MaxChains /\ p.op = "connect" /\ p.slot = slot
      /\ NetOK(Popped) /\ NoOp(Popped) /\ SameTalk(Popped, net)
  BY <1>1, <1>2, HandledIs, PoppedTalk
<1>4. PICK opened, q, begun :
         /\ opened = [Popped EXCEPT !.m_IsOpen[p.obj] = TRUE]
         /\ q = Handshake(slot, p.obj, p.chain)
         /\ begun = [Popped EXCEPT !.m_IsOpen[p.obj] = TRUE, !.tls[p.obj] = underWay(@),
                                   !.pending = @ \union {q}]
  OBVIOUS
<1>5. OpOK(q) /\ q.op = "handshake" /\ q.slot = slot /\ q.obj = p.obj
  BY <1>3, <1>4, OpIs DEF Handshake, NoRequest, Parsable, Op
<1>6. /\ NetOK(opened) /\ NoOp(opened)
      /\ Pends(begun, q) /\ SameTalk(begun, net)
  <2>1. NetOK(opened)
    BY <1>3, <1>4, <1>5, OpenedIs
  <2>2. opened.pending = Popped.pending /\ opened.ready = Popped.ready
    BY <1>3, <1>4, <1>5, OpenedIs
  <2>3. Pends(begun, q) /\ SameTalk(begun, Popped)
    BY <1>3, <1>4, <1>5, BegunIs
  <2>4. QED
    BY <1>3, <2>1, <2>2, <2>3 DEF NoOp, SameTalk
<1>7. UNCHANGED <<m_Http, m_HttpIdle, m_LastCmd, m_IdleState, m_Queue, user, turn, told, alive>>
  BY DEF handleConnect, Reconnect
<1>8. \/ net' = begun
      \/ net' = start_connect(Popped, Connect(slot, p.obj, p.chain, p.i + 1))
      \/ net' = start_connect(opened, Connect(slot, p.obj, p.chain, 1))
      \/ net' = start_connect(Popped, Connect(slot, Current(slot), p.chain, 1))
  BY <1>1, <1>4 DEF handleConnect, Reconnect
<1>9. CASE slot = "http"
  <2>1. /\ told # "in" /\ turn = "client" /\ ~m_IdleState /\ m_Queue = <<>>
        /\ HttpReady(net, Completion) /\ p.obj = m_Http /\ Current(slot) = m_Http
    BY <1>1, <1>2, <1>9, HttpHandler DEF Current
  <2> SUFFICES LoggedOut'
    BY <1>7, <2>1 DEF Listener
  <2>2. CASE net' = begun
    <3>1. Silent(net, m_Http)
      BY <1>1, <1>3, <2>1 DEF HttpReady
    <3>2. HttpPends(net, q)'
      BY <1>5, <1>6, <1>7, <1>9, <2>1, <2>2, <3>1 DEF HttpPends, SameTalk, Silent
    <3>3. QED
      BY <1>6, <1>7, <2>1, <2>2, <3>2, OutPends
  <2>3. CASE net' # begun
    BY <1>3, <1>6, <1>7, <1>8, <1>9, <2>1, <2>3, ConnectOut
  <2>4. QED
    BY <2>2, <2>3
<1>10. CASE slot = "idle"
  <2>1. /\ told = "in" /\ m_Queue = <<>>
        /\ IdleReady(net, Completion) /\ p.obj = m_HttpIdle /\ Current(slot) = m_HttpIdle
    BY <1>1, <1>2, <1>10, IdleHandler DEF Current
  <2> SUFFICES LoggedIn'
    BY <1>7, <2>1 DEF Listener
  <2>2. Silent(net, m_HttpIdle) /\ ~m_IdleState
    BY <1>1, <1>3, <2>1 DEF IdleReady
  <2>3. CASE net' = begun
    <3>1. IdlePends(net, q)'
      BY <1>5, <1>6, <1>7, <1>10, <2>1, <2>2, <2>3 DEF IdlePends, SameTalk, Silent
    <3>2. QED
      BY <1>6, <1>7, <2>1, <2>3, <3>1, InPends
  <2>4. CASE net' # begun
    BY <1>3, <1>6, <1>7, <1>8, <1>10, <2>1, <2>2, <2>4, ConnectIn
  <2>5. QED
    BY <2>3, <2>4
<1>11. QED
  BY <1>9, <1>10, ConstantsAre

\* A handshake is followed by a write, by a connect, or by the turn of the user.
LEMMA handleHandshakeListens ==
    ASSUME TypedInv, Listener, NEW slot \in Slots, handleHandshake(slot)
    PROVE  Listener'
<1> SUFFICES ASSUME user = "listens" PROVE Listener'
  BY DEF handleHandshake, Listener
<1>1. Handles("handshake", slot)
  BY DEF handleHandshake
<1>2. /\ Completion.p.chain \in 0 .. MaxChains /\ m_Http \in Objects /\ m_HttpIdle \in Objects
  BY <1>1, HandledIs DEF TypedInv, RestOK
<1>3. UNCHANGED <<m_Http, m_HttpIdle, m_IdleState, m_Queue, user, told, alive>>
  BY DEF handleHandshake
<1>4. CASE slot = "http"
  <2>1. /\ told # "in" /\ turn = "client" /\ ~m_IdleState /\ m_Queue = <<>>
        /\ HttpReady(net, Completion) /\ Completion.p.op = "handshake"
        /\ NetOK(Popped) /\ NoOp(Popped) /\ SameTalk(Popped, net)
    BY <1>1, <1>4, HttpHandler
  <2>2. Silent(Popped, m_Http)
    BY <2>1 DEF HttpReady, SameTalk, Silent
  <2> SUFFICES LoggedOut'
    BY <1>3, <2>1 DEF Listener
  <2>3. CASE Reconnect(slot, Completion.p.chain)
    <3>1. net' = start_connect(Popped, Connect("http", m_Http, Completion.p.chain, 1))
          /\ UNCHANGED turn
      BY <1>4, <2>3 DEF Reconnect, Current
    <3>2. QED
      BY <1>2, <1>3, <2>1, <3>1, ConnectOut
  <2>4. CASE onHttpConnect
    <3>1. CASE LogsInByItself
      <4>1. PICK req : req = Request("LOGIN", "USER_LOGIN",
                                     build_user_pass_body(Me, m_Password),
                                     <<"login", Me, m_Password>>)
        OBVIOUS
      <4>2. sendRequest(Popped, req) /\ turn' = "client"
        BY <2>4, <3>1, <4>1 DEF onHttpConnect, LogsInByItself
      <4>3. req.cmd \in Parsable /\ req.resource # cmd2string["IDLE"]
        BY <4>1 DEF Request, Parsable, Commands, cmd2string
      <4>4. QED
        BY <1>3, <2>1, <2>2, <4>2, <4>3, SendListens
    <3>2. CASE ~LogsInByItself
      <4>1. net' = Popped
        BY <2>4, <3>2 DEF onHttpConnect
      <4>2. NoOp(net') /\ Silent(net', m_Http')
        BY <1>3, <2>1, <2>2, <4>1
      <4>3. QED
        BY <1>3, <2>1, <4>2, OutNoOp
    <3>3. QED
      BY <3>1, <3>2
  <2>5. QED
    BY <1>4, <2>3, <2>4 DEF handleHandshake
<1>5. CASE slot = "idle"
  <2>1. /\ told = "in" /\ m_Queue = <<>>
        /\ IdleReady(net, Completion) /\ Completion.p.op = "handshake"
        /\ NetOK(Popped) /\ NoOp(Popped) /\ SameTalk(Popped, net)
    BY <1>1, <1>5, IdleHandler
  <2>2. Silent(Popped, m_HttpIdle) /\ ~m_IdleState
    BY <2>1 DEF IdleReady, SameTalk, Silent
  <2> SUFFICES LoggedIn'
    BY <1>3, <2>1 DEF Listener
  <2>3. CASE Reconnect(slot, Completion.p.chain)
    <3>1. net' = start_connect(Popped, Connect("idle", m_HttpIdle, Completion.p.chain, 1))
      BY <1>5, <2>3 DEF Reconnect, Current
    <3>2. QED
      BY <1>2, <1>3, <2>1, <2>2, <3>1, ConnectIn
  <2>4. CASE onHttpIdleConnect
    <3>1. PICK req : req = Request("NONE", "IDLE",
                               build_user_send_msg_body(m_SelfId, m_HeartBit, <<>>, <<>>,
                                                        m_Password), <<"idle">>)
      OBVIOUS
    <3>2. PICK w : w = Op("write", "idle", m_HttpIdle, 0, 0, req)
      OBVIOUS
    <3>3. net' = StartIo(Popped, w)
      BY <2>4, <3>1, <3>2 DEF onHttpIdleConnect
    <3>4. OpOK(w) /\ w.op = "write" /\ w.slot = "idle" /\ w.obj = m_HttpIdle
      <4>1. req.cmd \in Parsable
        BY <3>1 DEF Request, Parsable
      <4>2. OpOK(Op("write", "idle", m_HttpIdle, 0, 0, req))
        BY <1>2, <4>1, OpIs, ConstantsAre
      <4>3. QED
        BY <3>2, <4>2 DEF Op
    <3>5. Silent(net', m_HttpIdle') /\ ~m_IdleState'
      BY <1>3, <2>1, <2>2, <3>3, <3>4, StartOne DEF SameTalk, Silent
    <3>6. ASSUME NEW q, Pends(net', q), q.op = w.op, q.slot = w.slot, q.obj = w.obj
          PROVE  LoggedIn'
      <4>1. IdlePends(net, q)'
        BY <1>3, <3>4, <3>5, <3>6 DEF IdlePends
      <4>2. QED
        BY <1>3, <2>1, <3>6, <4>1, InPends
    <3>7. ASSUME Ready(net', Done(w, "error"))
          PROVE  LoggedIn'
      <4>1. IdleReady(net, Done(w, "error"))'
        BY <1>3, <3>4, <3>5 DEF IdleReady, Done, Answered
      <4>2. QED
        BY <1>3, <2>1, <3>7, <4>1, InReady
    <3>8. QED
      BY <2>1, <3>3, <3>4, <3>6, <3>7, StartOne
  <2>5. QED
    BY <1>5, <2>3, <2>4 DEF handleHandshake
<1>6. QED
  BY <1>4, <1>5, ConstantsAre

\* A write is followed by its read; a failed one by nothing.
LEMMA onWriteListens ==
    ASSUME TypedInv, Listener, NEW slot \in Slots, onWrite(slot)
    PROVE  Listener'
<1> SUFFICES ASSUME user = "listens" PROVE Listener'
  BY DEF onWrite, Listener, userVars
<1>1. Handles("write", slot)
  BY DEF onWrite
<1>2. UNCHANGED <<m_Http, m_HttpIdle, m_LastCmd, m_IdleState, m_Queue, user, turn, told, alive>>
  BY DEF onWrite, selfVars, userVars
<1>3. PICK r : r = Op("read", slot, Current(slot), 0, 0, Completion.p.req)
  OBVIOUS
<1>4. OpOK(r) /\ r.op = "read" /\ r.slot = slot /\ r.obj = Current(slot)
  <2>1. Completion.p.req.cmd \in Parsable /\ Current(slot) \in Objects
    BY <1>1, HandledIs
  <2>2. QED
    BY <1>3, <2>1, OpIs, ConstantsAre DEF Op
<1>5. \/ Failed /\ net' = Popped
      \/ ~Failed /\ net' = StartIo(Popped, r)
  BY <1>3 DEF onWrite
<1>6. CASE slot = "http"
  <2>1. /\ told # "in" /\ turn = "client" /\ ~m_IdleState /\ m_Queue = <<>>
        /\ HttpReady(net, Completion) /\ Completion.p.op = "write"
        /\ NetOK(Popped) /\ NoOp(Popped) /\ SameTalk(Popped, net)
    BY <1>1, <1>6, HttpHandler
  <2> SUFFICES LoggedOut'
    BY <1>2, <2>1 DEF Listener
  <2>2. CASE Failed /\ net' = Popped
    <3>1. Silent(net', m_Http')
      BY <1>2, <2>1, <2>2 DEF HttpReady, Failed, Silent, SameTalk
    <3>2. QED
      BY <1>2, <2>1, <2>2, <3>1, OutNoOp
  <2>3. CASE ~Failed /\ net' = StartIo(Popped, r)
    <3>1. AsksCmd(net)
      BY <2>1, <2>3 DEF HttpReady, Failed
    <3>2. SameTalk(net', net)
      BY <1>4, <2>1, <2>3, StartOne DEF SameTalk
    <3>3. AsksCmd(net)'
      BY <1>2, <3>1, <3>2 DEF AsksCmd, Asks, SameTalk
    <3>4. ASSUME NEW q, Pends(net', q), q.op = r.op, q.slot = r.slot, q.obj = r.obj
          PROVE  LoggedOut'
      <4>1. HttpPends(net, q)'
        BY <1>2, <1>4, <1>6, <3>3, <3>4 DEF HttpPends, Current
      <4>2. QED
        BY <1>2, <2>1, <3>4, <4>1, OutPends
    <3>5. ASSUME Ready(net', Done(r, "error"))
          PROVE  LoggedOut'
      <4>1. HttpReady(net, Done(r, "error"))'
        BY <1>2, <1>4, <1>6, <3>3 DEF HttpReady, Done, Answered, Current
      <4>2. QED
        BY <1>2, <2>1, <3>5, <4>1, OutReady
    <3>6. QED
      BY <1>4, <2>1, <2>3, <3>4, <3>5, StartOne
  <2>4. QED
    BY <1>5, <2>2, <2>3
<1>7. CASE slot = "idle"
  <2>1. /\ told = "in" /\ m_Queue = <<>>
        /\ IdleReady(net, Completion) /\ Completion.p.op = "write"
        /\ NetOK(Popped) /\ NoOp(Popped) /\ SameTalk(Popped, net)
    BY <1>1, <1>7, IdleHandler
  <2> SUFFICES LoggedIn'
    BY <1>2, <2>1 DEF Listener
  <2>2. CASE Failed /\ net' = Popped
    BY <1>2, <2>1, <2>2 DEF LoggedIn, NoOp
  <2>3. CASE ~Failed /\ net' = StartIo(Popped, r)
    <3>1. Asks(net, m_HttpIdle) /\ ~m_IdleState
      BY <2>1, <2>3 DEF IdleReady, Failed
    <3>2. SameTalk(net', net)
      BY <1>4, <2>1, <2>3, StartOne DEF SameTalk
    <3>3. Asks(net', m_HttpIdle') /\ ~m_IdleState'
      BY <1>2, <3>1, <3>2 DEF Asks, SameTalk
    <3>4. ASSUME NEW q, Pends(net', q), q.op = r.op, q.slot = r.slot, q.obj = r.obj
          PROVE  LoggedIn'
      <4>1. IdlePends(net, q)'
        BY <1>2, <1>4, <1>7, <3>3, <3>4 DEF IdlePends, Current
      <4>2. QED
        BY <1>2, <2>1, <3>4, <4>1, InPends
    <3>5. ASSUME Ready(net', Done(r, "error"))
          PROVE  LoggedIn'
      <4>1. IdleReady(net, Done(r, "error"))'
        BY <1>2, <1>4, <1>7, <3>3 DEF IdleReady, Done, Answered, Current
      <4>2. QED
        BY <1>2, <2>1, <3>5, <4>1, InReady
    <3>6. QED
      BY <1>4, <2>1, <2>3, <3>4, <3>5, StartOne
  <2>4. QED
    BY <1>5, <2>2, <2>3
<1>8. QED
  BY <1>6, <1>7, ConstantsAre


\* The failed read was the one operation of m_Http, the new connect is.
LEMMA onHttpReadErrorListens ==
    ASSUME TypedInv, Listener, onHttpReadError
    PROVE  Listener'
<1> SUFFICES ASSUME user = "listens" PROVE Listener'
  BY DEF onHttpReadError, Listener, userVars
<1>1. /\ told # "in" /\ turn = "client" /\ ~m_IdleState /\ m_Queue = <<>>
      /\ NetOK(Popped) /\ NoOp(Popped)
  BY HttpHandler DEF onHttpReadError
<1>2. PICK new, made, chain :
         /\ new = createConnect(Popped, {})
         /\ made = Destroy(Popped, m_Http)
         /\ chain = LeastOf(FreeChains(made, "http"))
  OBVIOUS
<1>3. /\ FreeChains(made, "http") # {}
      /\ net' = start_connect(made, Connect("http", new, chain, 1))
      /\ m_Http' = new
      /\ Unused(Popped) # {}
      /\ UNCHANGED <<m_IdleState, m_Queue, user, turn, told, alive>>
  BY <1>2 DEF onHttpReadError, selfVars, userVars
<1>4. NetOK(made) /\ NoOp(made)
  <2>1. m_Http \in Objects
    BY DEF TypedInv, RestOK
  <2>2. QED
    BY <1>1, <1>2, <2>1, DestroyIs DEF NoOp
<1>5. new \in Objects
  <2>1. Unused(Popped) \ {} # {}
    BY <1>3
  <2>2. QED
    BY <1>2, <2>1, NewConnect
<1>6. chain \in 0 .. MaxChains
  BY <1>2, <1>3, FreeChain
<1>7. LoggedOut'
  BY <1>1, <1>3, <1>4, <1>5, <1>6, ConnectOut
<1>8. QED
  BY <1>1, <1>3, <1>7 DEF Listener

\* After the answer is shown, nothing is under way.
LEMMA onHttpReadShowListens ==
    ASSUME TypedInv, Listener, onHttpReadShow
    PROVE  Listener'
<1> SUFFICES ASSUME user = "listens" PROVE Listener'
  BY DEF onHttpReadShow, Listener
<1>1. /\ told # "in" /\ ~m_IdleState /\ m_Queue = <<>>
      /\ HttpReady(net, Completion) /\ Completion.p.op = "read"
      /\ NoOp(Popped) /\ SameTalk(Popped, net)
  BY HttpHandler DEF onHttpReadShow
<1>2. /\ net' = Popped /\ Completion.res \in {"bad", "200"}
      /\ UNCHANGED <<m_Http, m_IdleState, m_Queue, user, told, alive>>
  BY DEF onHttpReadShow, selfVars
<1>3. Silent(net', m_Http')
  BY <1>1, <1>2 DEF HttpReady, Silent, SameTalk
<1>4. LoggedOut'
  BY <1>1, <1>2, <1>3, OutNoOp
<1>5. QED
  BY <1>1, <1>2, <1>4 DEF Listener

\* After the answer to LOGIN, the idle connect is, or nothing.
LEMMA onHttpReadLoginListens ==
    ASSUME TypedInv, Listener, onHttpReadLogin
    PROVE  Listener'
<1> SUFFICES ASSUME user = "listens" PROVE Listener'
  BY DEF onHttpReadLogin, Listener
<1>1. /\ ~m_IdleState /\ m_Queue = <<>> /\ NetOK(Popped) /\ NoOp(Popped)
  BY HttpHandler DEF onHttpReadLogin
<1>2. PICK chain : chain = LeastOf(FreeChains(Popped, "idle"))
  OBVIOUS
<1>3. \/ net' = Popped
      \/ /\ FreeChains(Popped, "idle") # {}
         /\ net' = start_connect(Popped, Connect("idle", m_HttpIdle, chain, 1))
  BY <1>2 DEF onHttpReadLogin
<1>4. told' = "in" /\ UNCHANGED <<m_HttpIdle, m_IdleState, m_Queue, user, alive>>
  BY DEF onHttpReadLogin
<1>5. LoggedIn'
  <2>1. CASE net' = Popped
    BY <1>1, <1>4, <2>1 DEF LoggedIn, NoOp
  <2>2. CASE net' # Popped
    <3>1. chain \in 0 .. MaxChains
      BY <1>2, <1>3, <2>2, FreeChain
    <3>2. m_HttpIdle \in Objects
      BY DEF TypedInv, RestOK
    <3>3. QED
      BY <1>1, <1>3, <1>4, <2>2, <3>1, <3>2, ConnectIn
  <2>3. QED
    BY <2>1, <2>2
<1>6. QED
  BY <1>4, <1>5 DEF Listener

\* When the idle read failed, m_Http had no operation; the new one has a connect.
LEMMA onHttpIdleReadErrorListens ==
    ASSUME TypedInv, Listener, onHttpIdleReadError
    PROVE  Listener'
<1> SUFFICES ASSUME user = "listens" PROVE Listener'
  BY DEF onHttpIdleReadError, Listener
<1>1. m_Queue = <<>> /\ NetOK(Popped) /\ NoOp(Popped)
  BY IdleHandler DEF onHttpIdleReadError
<1>2. PICK newIdle, newHttp, n1, n2, chain :
         /\ newIdle = createConnect(Popped, {})
         /\ newHttp = createConnect(Popped, {newIdle})
         /\ n1 = Destroy(Popped, m_HttpIdle)
         /\ n2 = Destroy(n1, m_Http)
         /\ chain = LeastOf(FreeChains(n2, "http"))
  OBVIOUS
<1>3. /\ FreeChains(n2, "http") # {}
      /\ net' = start_connect(n2, Connect("http", newHttp, chain, 1))
      /\ m_Http' = newHttp
      /\ Cardinality(Unused(Popped)) >= 2
      /\ ~m_IdleState' /\ told' = "relogin" /\ turn' = "client"
      /\ UNCHANGED <<m_Queue, user, alive>>
  BY <1>2 DEF onHttpIdleReadError, forgetAck
<1>4. NetOK(n2) /\ NoOp(n2)
  <2>1. m_Http \in Objects /\ m_HttpIdle \in Objects
    BY DEF TypedInv, RestOK
  <2>2. NetOK(n1) /\ NoOp(n1)
    BY <1>1, <1>2, <2>1, DestroyIs DEF NoOp
  <2>3. QED
    BY <1>2, <2>1, <2>2, DestroyIs DEF NoOp
<1>5. newHttp \in Objects
  <2>1. Unused(Popped) \ {newIdle} # {}
    BY <1>3, TwoNew
  <2>2. QED
    BY <1>2, <2>1, NewConnect
<1>6. chain \in 0 .. MaxChains
  BY <1>2, <1>3, FreeChain
<1>7. LoggedOut'
  BY <1>1, <1>3, <1>4, <1>5, <1>6, ConnectOut
<1>8. QED
  BY <1>3, <1>7 DEF Listener

\* Only the acknowledgement comes before m_IdleState, and only messages after it.
LEMMA onHttpIdleReadListens ==
    ASSUME TypedInv, Listener, onHttpIdleRead
    PROVE  Listener'
<1> SUFFICES ASSUME user = "listens" PROVE Listener'
  BY DEF onHttpIdleRead, Listener, userVars
<1>1. /\ told = "in" /\ m_Queue = <<>>
      /\ IdleReady(net, Completion) /\ Completion.p.op = "read"
      /\ NetOK(Popped) /\ NoOp(Popped) /\ SameTalk(Popped, net)
  BY IdleHandler DEF onHttpIdleRead
<1>2. PICK r : r = Op("read", "idle", m_HttpIdle, 0, 0, Completion.p.req)
  OBVIOUS
<1>3. /\ net' = StartIo(Popped, r) /\ Completion.res \in {"ack", "msg"} /\ m_IdleState'
      /\ UNCHANGED <<m_HttpIdle, m_Queue, user, told, alive>>
  BY <1>2 DEF onHttpIdleRead, userVars
<1>4. OpOK(r) /\ r.op = "read" /\ r.slot = "idle" /\ r.obj = m_HttpIdle
  <2>1. Completion.p.req.cmd \in Parsable /\ m_HttpIdle \in Objects
    BY HandledIs, ConstantsAre DEF onHttpIdleRead, TypedInv, RestOK
  <2>2. OpOK(Op("read", "idle", m_HttpIdle, 0, 0, Completion.p.req))
    BY <2>1, OpIs, ConstantsAre
  <2>3. QED
    BY <1>2, <2>2 DEF Op
<1>5. Polled(net', m_HttpIdle')
  <2>1. Polled(net, m_HttpIdle)
    BY <1>1, <1>3 DEF IdleReady
  <2>2. SameTalk(net', net)
    BY <1>1, <1>3, <1>4, StartOne DEF SameTalk
  <2>3. QED
    BY <1>3, <2>1, <2>2 DEF Polled, SameTalk
<1>6. LoggedIn'
  <2>1. ASSUME NEW q, Pends(net', q), q.op = r.op, q.slot = r.slot, q.obj = r.obj
        PROVE  LoggedIn'
    <3>1. IdlePends(net, q)'
      BY <1>3, <1>4, <1>5, <2>1 DEF IdlePends
    <3>2. QED
      BY <1>1, <1>3, <2>1, <3>1, InPends
  <2>2. ASSUME Ready(net', Done(r, "error"))
        PROVE  LoggedIn'
    <3>1. IdleReady(net, Done(r, "error"))'
      BY <1>3, <1>4, <1>5 DEF IdleReady, Done, Answered
    <3>2. QED
      BY <1>1, <1>3, <2>2, <3>1, InReady
  <2>3. QED
    BY <1>1, <1>3, <1>4, <2>1, <2>2, StartOne
<1>7. QED
  BY <1>1, <1>3, <1>6 DEF Listener

\* Every step.
LEMMA StepListens ==
    ASSUME TypedInv, Listener, [Next]_clientVars
    PROVE  Listener'
<1>1. CASE UNCHANGED clientVars
  BY <1>1, SameListener DEF clientVars, SameTalk
<1>2. ASSUME NEW wish, Type(wish) PROVE Listener'
  BY <1>2, TypeListens
<1>3. CASE processQueue
  BY <1>3, processQueueListens
<1>4. ASSUME NEW p \in net.pending, NetworkDelivers(p) \/ NetworkFails(p) PROVE Listener'
  BY <1>4, DeliversListens, FailsListens
<1>5. ASSUME NEW o \in Objects, ConnectionDrops(o) PROVE Listener'
  BY <1>5, DropsListens
<1>6. CASE timeoutExpires
  BY <1>6, TimeoutListens
<1>7. ASSUME NEW slot \in Slots,
             handleConnect(slot) \/ handleHandshake(slot) \/ onWrite(slot)
      PROVE  Listener'
  BY <1>7, handleConnectListens, handleHandshakeListens, onWriteListens
<1>8. CASE \/ onHttpReadError \/ onHttpReadShow \/ onHttpReadLogin
           \/ onHttpIdleReadError \/ onHttpIdleRead \/ crash
  BY <1>8, onHttpReadErrorListens, onHttpReadShowListens, onHttpReadLoginListens,
     onHttpIdleReadErrorListens, onHttpIdleReadListens, crashListens
<1>9. QED
  BY <1>1, <1>2, <1>3, <1>4, <1>5, <1>6, <1>7, <1>8 DEF Next, Handler

-----------------------------------------------------------------------------
(* What the server takes a request for, by what the user typed.            *)

\* The server takes the request for what the user typed, whatever parameters
\* earlier requests of the connection left behind.
Understood(req) ==
    \A params :
       LET command == Route(req.resource)
           meta == parse_meta(params, req.body, command)
       IN  ~meta.error => Understands(command, meta.params, req.wish)

\* What parse_meta asks for is found, or the request is refused, and it is taken.
LEMMA MetaTakes ==
    ASSUME NEW params, NEW body, NEW command, ~parse_meta(params, body, command).error,
           NEW param \in DOMAIN Params,
           \/ param \in ToSet(Required[command])
           \/ param \in Optional[command] /\ Finds(body, param)
    PROVE  /\ parse_meta(params, body, command).params[param] = body[param]
           /\ Finds(body, param)
<1> DEFINE required == Required[command]
           missing == {i \in DOMAIN required : ~Finds(body, required[i])}
           both == ToSet(required) \union {q \in Optional[command] : Finds(body, q)}
           taken == IF missing # {} THEN {required[i] : i \in 1..(Min(missing) - 1)} ELSE both
           Now(q) == IF q \in taken THEN body[q] ELSE params[q]
           fields == [uid |-> Now("uid"), heartbit |-> Now("heartbit"),
                      count |-> Now("count"), message |-> Now("message"),
                      to |-> Now("to"), user |-> Now("user"),
                      password |-> Now("password"), chatname |-> Now("chatname"),
                      adduser |-> Now("adduser")]
<1>1. parse_meta(params, body, command) =
         [error |-> \/ missing # {}
                    \/ command = "USER_CREATE" /\ ~password_check(body.password),
          params |-> fields]
  BY DEF parse_meta
<1>2. missing = {}
  BY <1>1
<1>3. taken = both
  BY <1>2
<1> HIDE DEF taken
<1>4. param \in taken
  BY <1>3
<1>5. fields[param] = Now(param)
  BY DEF Params
<1>6. parse_meta(params, body, command).params = fields
  BY <1>1
<1>7. Finds(body, param)
  <2>1. CASE param \in ToSet(required)
    <3>1. PICK i \in DOMAIN required : required[i] = param
      BY <2>1 DEF ToSet
    <3>2. QED
      BY <1>2, <3>1
  <2>2. QED
    BY <2>1
<1>8. QED
  BY <1>4, <1>5, <1>6, <1>7

\* The second and the later parameters that are asked for.
LEMMA RequiredHas ==
    ASSUME NEW command, NEW S, NEW t \in Seq(S), Required[command] = <<"password">> \o t
    PROVE  /\ "password" \in ToSet(Required[command])
           /\ \A i \in 1 .. Len(t) : t[i] \in ToSet(Required[command])
<1> DEFINE s == <<"password">> \o t
<1>1. /\ 1 \in DOMAIN s /\ s[1] = "password"
      /\ \A i \in 1 .. Len(t) : i + 1 \in DOMAIN s /\ s[i + 1] = t[i]
  OBVIOUS
<1> HIDE DEF s
<1>2. Required[command] = s
  BY DEF s
<1>3. QED
  BY <1>1, <1>2 DEF ToSet

\* The parameters that parse_meta asks for, of the commands a client sends.
LEMMA RequiredAre ==
    /\ {"password", "user"} \subseteq ToSet(Required["USER_LOGIN"])
    /\ {"password", "user"} \subseteq ToSet(Required["USER_CREATE"])
    /\ "chatname" \in ToSet(Required["CHAT_CREATE"])
    /\ {"chatname", "adduser"} \subseteq ToSet(Required["CHAT_ADDUSER"])
    /\ "user" \in ToSet(Required["USER_HISTORY"])
    /\ "user" \in ToSet(Required["USER_STATUS"])
    /\ {"message", "to"} \subseteq ToSet(Required["MESSAGE_SEND"])
    /\ {"message", "chatname"} \subseteq ToSet(Required["MESSAGE_SEND_CHAT"])
    /\ "count" \in Optional["USER_HISTORY"]
<1> DEFINE Wants(command, t) == Required[command] = <<"password">> \o t
<1>1. /\ Wants("USER_LOGIN", <<"user">>) /\ Wants("USER_CREATE", <<"user">>)
      /\ Wants("USER_HISTORY", <<"uid", "user">>) /\ Wants("USER_STATUS", <<"uid", "user">>)
  BY Zenon DEF Required, RequestCommands, cmd2string
<1>2. Wants("CHAT_CREATE", <<"uid", "chatname">>)
  BY DEF Required, RequestCommands, cmd2string
<1>3. Wants("CHAT_ADDUSER", <<"uid", "chatname", "adduser">>)
  BY DEF Required, RequestCommands, cmd2string
<1>4. Wants("MESSAGE_SEND", <<"uid", "message", "to">>)
  BY DEF Required, RequestCommands, cmd2string
<1>5. Wants("MESSAGE_SEND_CHAT", <<"uid", "message", "chatname">>)
  BY DEF Required, RequestCommands, cmd2string
<1>6. "count" \in Optional["USER_HISTORY"]
  BY DEF Optional, RequestCommands, cmd2string
<1>7. ASSUME NEW command, NEW S, NEW t \in Seq(S), Wants(command, t)
      PROVE  /\ "password" \in ToSet(Required[command])
             /\ \A i \in 1 .. Len(t) : t[i] \in ToSet(Required[command])
  BY <1>7, RequiredHas
<1>8. ASSUME NEW command, NEW a, Wants(command, <<a>>)
      PROVE  {"password", a} \subseteq ToSet(Required[command])
  <2> DEFINE t == <<a>>
             S == {a}
  <2>1. t \in Seq(S) /\ Len(t) = 1 /\ t[1] = a
    OBVIOUS
  <2>2. Wants(command, t)
    BY <1>8
  <2> HIDE DEF t, S, Wants
  <2>3. 1 \in 1 .. Len(t)
    BY <2>1
  <2>4. QED
    BY <1>7, <2>1, <2>2, <2>3
<1>9. ASSUME NEW command, NEW a, NEW b, Wants(command, <<a, b>>)
      PROVE  {b} \subseteq ToSet(Required[command])
  <2> DEFINE t == <<a, b>>
             S == {a, b}
  <2>1. t \in Seq(S) /\ Len(t) = 2 /\ t[2] = b
    OBVIOUS
  <2>2. Wants(command, t)
    BY <1>9
  <2> HIDE DEF t, S, Wants
  <2>3. 2 \in 1 .. Len(t)
    BY <2>1
  <2>4. QED
    BY <1>7, <2>1, <2>2, <2>3
<1>10. ASSUME NEW command, NEW a, NEW b, NEW c, Wants(command, <<a, b, c>>)
      PROVE  {b, c} \subseteq ToSet(Required[command])
  <2> DEFINE t == <<a, b, c>>
             S == {a, b, c}
  <2>1. t \in Seq(S) /\ Len(t) = 3 /\ t[2] = b /\ t[3] = c
    OBVIOUS
  <2>2. Wants(command, t)
    BY <1>10
  <2> HIDE DEF t, S, Wants
  <2>3. 2 \in 1 .. Len(t) /\ 3 \in 1 .. Len(t)
    BY <2>1
  <2>4. QED
    BY <1>7, <2>1, <2>2, <2>3
<1> HIDE DEF Wants
<1>11. /\ {"password", "user"} \subseteq ToSet(Required["USER_LOGIN"])
       /\ {"password", "user"} \subseteq ToSet(Required["USER_CREATE"])
  BY <1>1, <1>8
<1>12. /\ {"user"} \subseteq ToSet(Required["USER_HISTORY"])
       /\ {"user"} \subseteq ToSet(Required["USER_STATUS"])
  BY <1>1, <1>9
<1>13. {"chatname"} \subseteq ToSet(Required["CHAT_CREATE"])
  BY <1>2, <1>9
<1>14. {"chatname", "adduser"} \subseteq ToSet(Required["CHAT_ADDUSER"])
  BY <1>3, <1>10
<1>15. {"message", "to"} \subseteq ToSet(Required["MESSAGE_SEND"])
  BY <1>4, <1>10
<1>16. {"message", "chatname"} \subseteq ToSet(Required["MESSAGE_SEND_CHAT"])
  BY <1>5, <1>10
<1>17. QED
  BY <1>6, <1>11, <1>12, <1>13, <1>14, <1>15, <1>16

\* The server routes a resource back to the command it is made from.
LEMMA RouteIs ==
    ASSUME NEW command \in DOMAIN cmd2string \ {"CHAT_STATUS", "MESSAGE_RECENT"}
    PROVE  Route(cmd2string[command]) = command
<1>1. \A c \in DOMAIN cmd2string : cmd2string[c] = cmd2string[command] => c = command
  BY DEF cmd2string
<1>2. {c \in DOMAIN cmd2string \ {"CHAT_STATUS", "MESSAGE_RECENT"} :
          cmd2string[c] = cmd2string[command]} = {command}
  BY <1>1
<1>3. QED
  BY <1>2 DEF Route

\* A request is understood when its body has what the wish means under the names
\* the server asks for.
LEMMA UnderstoodIf ==
    ASSUME NEW cmd, NEW command \in DOMAIN cmd2string \ {"CHAT_STATUS", "MESSAGE_RECENT"},
           NEW body, NEW wish, Synopsis[wish[1]][1] = command,
           \A k \in 2..Len(wish) :
              \A value \in Meant(Synopsis[wish[1]][k], wish[k]) :
                 /\ Synopsis[wish[1]][k] \in DOMAIN Params
                 /\ Finds(body, Synopsis[wish[1]][k]) => body[Synopsis[wish[1]][k]] = value
                 /\ \/ Synopsis[wish[1]][k] \in ToSet(Required[command])
                    \/ /\ Synopsis[wish[1]][k] \in Optional[command]
                       /\ Finds(body, Synopsis[wish[1]][k]),
           wish[1] = "history" /\ Len(wish) = 2 =>
              /\ "count" \in Optional[command] /\ Finds(body, "count")
              /\ body["count"] = 10
    PROVE  Understood(Request(cmd, command, body, wish))
<1> DEFINE req == Request(cmd, command, body, wish)
<1>1. req.body = body /\ req.wish = wish /\ Route(req.resource) = command
  BY RouteIs DEF Request
<1> HIDE DEF req
<1>2. ASSUME NEW params, ~parse_meta(params, body, command).error
      PROVE  Understands(command, parse_meta(params, body, command).params, wish)
  <2>1. PICK taken : taken = parse_meta(params, body, command).params
    OBVIOUS
  <2>2. ASSUME NEW param \in DOMAIN Params,
               \/ param \in ToSet(Required[command])
               \/ param \in Optional[command] /\ Finds(body, param)
        PROVE  taken[param] = body[param] /\ Finds(body, param)
    BY <1>2, <2>1, <2>2, MetaTakes
  <2>3. ASSUME NEW k \in 2..Len(wish), NEW value \in Meant(Synopsis[wish[1]][k], wish[k])
        PROVE  taken[Synopsis[wish[1]][k]] = value
    BY <2>2
  <2>4. wish[1] = "history" /\ Len(wish) = 2 => taken["count"] = 10
    BY <2>2 DEF Params
  <2>5. QED
    BY <2>1, <2>3, <2>4 DEF Understands
<1>3. QED
  BY <1>1, <1>2 DEF Understood, req

\* A number that is typed is no size_t of a negative one.
LEMMA CountIsMeant ==
    ASSUME NEW arg, NEW value \in Meant("count", arg)
    PROVE  value \in Nat /\ value # Huge
<1>1. PICK word \in DOMAIN Numeral : value = Numeral[word]
  BY Zenon DEF Meant
<1>2. value \in Nat
  BY <1>1, ProtocolConstants
<1>3. QED
  BY <1>2 DEF Huge

\* What is found in the bodies is what they were built from.
LEMMA SendBody ==
    ASSUME NEW from, NEW ts, NEW to, NEW msg, NEW pass
    PROVE  LET body == build_user_send_msg_body(from, ts, to, msg, pass)
           IN  body["to"] = to /\ body["message"] = msg
  BY DEF build_user_send_msg_body, Without, Restrict

\* ... also where members are left out of a body.
LEMMA GroupBody ==
    ASSUME NEW from, NEW group, NEW name, NEW msg, NEW pass
    PROVE  LET body == build_groups_msg_body(from, group, name, msg, pass)
           IN  /\ body["chatname"] = group
               /\ Finds(body, "adduser") => body["adduser"] = name
               /\ Finds(body, "message") => body["message"] = msg
<1> DEFINE full == [uid |-> from, chatname |-> group, adduser |-> name,
                    message |-> msg, password |-> pass]
           left == {member \in {"adduser"} : name = <<>>} \union
                   {member \in {"message"} : msg = <<>>}
           body == Without(full, left)
<1>1. body = build_groups_msg_body(from, group, name, msg, pass)
  BY DEF build_groups_msg_body
<1>2. "chatname" \in DOMAIN full /\ "chatname" \notin left
  OBVIOUS
<1>3. full["chatname"] = group /\ full["adduser"] = name /\ full["message"] = msg
  OBVIOUS
<1> HIDE DEF full, left
<1>4. body["chatname"] = group
  BY <1>2, <1>3 DEF Without, Restrict
<1>5. ASSUME NEW param, Finds(body, param)
      PROVE  body[param] = full[param]
  BY <1>5 DEF Finds, Without, Restrict
<1>6. QED
  BY <1>1, <1>3, <1>4, <1>5

\* A command with one argument, ...
LEMMA UnderstoodOne ==
    ASSUME NEW cmd, NEW command \in DOMAIN cmd2string \ {"CHAT_STATUS", "MESSAGE_RECENT"},
           NEW body, NEW w, NEW a, w # "history",
           Synopsis[w][1] = command, NEW p \in ToSet(Required[command]),
           Synopsis[w][2] = p, p \in DOMAIN Params \ {"count"},
           Finds(body, p) => body[p] = a
    PROVE  Understood(Request(cmd, command, body, <<w, a>>))
<1> DEFINE wish == <<w, a>>
<1>1. wish[1] = w /\ wish[2] = a /\ 2..Len(wish) = {2}
  OBVIOUS
<1> HIDE DEF wish
<1>2. Meant(p, a) = {a}
  BY DEF Meant
<1>3. Understood(Request(cmd, command, body, wish))
  BY <1>1, <1>2, UnderstoodIf
<1>4. QED
  BY <1>3 DEF wish

\* ... and one with two.
LEMMA UnderstoodTwo ==
    ASSUME NEW cmd, NEW command \in DOMAIN cmd2string \ {"CHAT_STATUS", "MESSAGE_RECENT"},
           NEW body, NEW w, NEW a, NEW b, w # "history",
           Synopsis[w][1] = command,
           NEW p \in ToSet(Required[command]), NEW q \in ToSet(Required[command]),
           Synopsis[w][2] = p, Synopsis[w][3] = q, {p, q} \subseteq DOMAIN Params \ {"count"},
           Finds(body, p) => body[p] = a,
           Finds(body, q) => body[q] = b
    PROVE  Understood(Request(cmd, command, body, <<w, a, b>>))
<1> DEFINE wish == <<w, a, b>>
<1>1. wish[1] = w /\ wish[2] = a /\ wish[3] = b /\ 2..Len(wish) = {2, 3}
  OBVIOUS
<1> HIDE DEF wish
<1>2. Meant(p, a) = {a} /\ Meant(q, b) = {b}
  BY DEF Meant
<1>3. Understood(Request(cmd, command, body, wish))
  BY <1>1, <1>2, UnderstoodIf
<1>4. QED
  BY <1>3 DEF wish

\* HISTORY, without a number and with one.
LEMMA UnderstoodHistory ==
    ASSUME NEW cmd, NEW from, NEW name, NEW count, NEW pass, NEW wish,
           \/ wish = <<"history", name>> /\ count = 10
           \/ /\ wish = <<"history", name, wish[3]>>
              /\ \A value \in Meant("count", wish[3]) : count = value
    PROVE  Understood(Request(cmd, "USER_HISTORY",
                              build_user_history_msg_body(from, name, count, pass), wish))
<1> DEFINE body == build_user_history_msg_body(from, name, count, pass)
<1>1. body["user"] = name /\ body["count"] = count /\ "count" \in DOMAIN body
  BY DEF build_user_history_msg_body
<1> HIDE DEF body
<1>2. /\ Synopsis["history"][1] = "USER_HISTORY" /\ Synopsis["history"][2] = "user"
      /\ Synopsis["history"][3] = "count"
  BY DEF Synopsis
<1>3. /\ "USER_HISTORY" \in DOMAIN cmd2string \ {"CHAT_STATUS", "MESSAGE_RECENT"}
      /\ {"user", "count"} \subseteq DOMAIN Params
  BY DEF cmd2string, Params
<1>4. "user" \in ToSet(Required["USER_HISTORY"]) /\ "count" \in Optional["USER_HISTORY"]
  BY RequiredAre
<1>5. Meant("user", name) = {name}
  BY DEF Meant
<1>6. wish[1] = "history" /\ wish[2] = name
  OBVIOUS
<1>7. CASE wish = <<"history", name>> /\ count = 10
  <2>1. 2..Len(wish) = {2} /\ Len(wish) = 2
    BY <1>7
  <2>2. Finds(body, "count")
    BY <1>1, <1>7 DEF Finds, Huge
  <2>3. QED
    BY <1>1, <1>2, <1>3, <1>4, <1>5, <1>6, <1>7, <2>1, <2>2, UnderstoodIf DEF body
<1>8. CASE /\ wish = <<"history", name, wish[3]>>
           /\ \A value \in Meant("count", wish[3]) : count = value
  <2>1. 2..Len(wish) = {2, 3} /\ Len(wish) = 3
    <3>1. PICK n : n = wish[3]
      OBVIOUS
    <3>2. wish = <<"history", name, n>>
      BY <1>8, <3>1
    <3>3. QED
      BY <3>2
  <2>2. ASSUME NEW value \in Meant("count", wish[3])
        PROVE  Finds(body, "count") /\ body["count"] = value
    BY <1>1, <1>8, <2>2, CountIsMeant DEF Finds
  <2>3. QED
    BY <1>1, <1>2, <1>3, <1>4, <1>5, <1>6, <2>1, <2>2, UnderstoodIf DEF body
<1>9. QED
  BY <1>7, <1>8

\* The request of a message, also of one typed in the chat mode.
LEMMA UnderstoodMessage ==
    ASSUME NEW cmd, NEW from, NEW ts, NEW to, NEW msg, NEW pass
    PROVE  Understood(Request(cmd, "MESSAGE_SEND",
                              build_user_send_msg_body(from, ts, to, msg, pass),
                              <<"direct_msg", to, msg>>))
<1> DEFINE body == build_user_send_msg_body(from, ts, to, msg, pass)
<1>1. body["to"] = to /\ body["message"] = msg
  BY SendBody
<1> HIDE DEF body
<1>2. {"message", "to"} \subseteq ToSet(Required["MESSAGE_SEND"])
  BY RequiredAre
<1>3. /\ Synopsis["direct_msg"][1] = "MESSAGE_SEND" /\ Synopsis["direct_msg"][2] = "to"
      /\ Synopsis["direct_msg"][3] = "message"
  BY DEF Synopsis
<1>4. /\ "MESSAGE_SEND" \in DOMAIN cmd2string \ {"CHAT_STATUS", "MESSAGE_RECENT"}
      /\ {"to", "message"} \subseteq DOMAIN Params \ {"count"}
  BY DEF cmd2string, Params
<1>5. Understood(Request(cmd, "MESSAGE_SEND", body, <<"direct_msg", to, msg>>))
  BY <1>1, <1>2, <1>3, <1>4, UnderstoodTwo
<1>6. QED
  BY <1>5 DEF body

\* The requests that name a user and his password.
LEMMA UnderstoodUser ==
    ASSUME NEW cmd, NEW name, NEW pass,
           NEW w, NEW command, \/ w = "login" /\ command = "USER_LOGIN"
                               \/ w = "register" /\ command = "USER_CREATE"
    PROVE  Understood(Request(cmd, command, build_user_pass_body(name, pass),
                              <<w, name, pass>>))
<1> DEFINE body == build_user_pass_body(name, pass)
<1>1. body["user"] = name /\ body["password"] = pass
  BY DEF build_user_pass_body
<1> HIDE DEF body
<1>2. {"password", "user"} \subseteq ToSet(Required[command])
  BY RequiredAre
<1>3. Synopsis[w][1] = command /\ Synopsis[w][2] = "user" /\ Synopsis[w][3] = "password"
  BY DEF Synopsis
<1>4. /\ command \in DOMAIN cmd2string \ {"CHAT_STATUS", "MESSAGE_RECENT"}
      /\ {"user", "password"} \subseteq DOMAIN Params \ {"count"}
  BY DEF cmd2string, Params
<1>5. Understood(Request(cmd, command, body, <<w, name, pass>>))
  BY <1>1, <1>2, <1>3, <1>4, UnderstoodTwo
<1>6. QED
  BY <1>5 DEF body

\* The request of every command that is sent is understood.
LEMMA SentUnderstood ==
    ASSUME NEW args, NEW wish, Reads(args, wish)
    PROVE  Understood(CommandRequest(args, wish))
<1> DEFINE Group(name, username, message) ==
               build_groups_msg_body(m_SelfId, name, username, message, m_Password)
           Req(command, body) == Request(args.cmd, command, body, wish)
           History(count) ==
               build_user_history_msg_body(m_SelfId, args.name, count, m_Password)
           routed == DOMAIN cmd2string \ {"CHAT_STATUS", "MESSAGE_RECENT"}
<1>1. {"CHAT_CREATE", "CHAT_ADDUSER", "MESSAGE_SEND_CHAT", "USER_STATUS"} \subseteq routed
  BY DEF cmd2string
<1>2. {"chatname", "adduser", "message", "user"} \subseteq DOMAIN Params \ {"count"}
  BY DEF Params
<1> HIDE DEF routed
<1>3. CASE args.cmd = "LOGIN" /\ wish = <<"login", args.name, args.pass>>
  <2>1. CommandRequest(args, wish)
          = Req("USER_LOGIN", build_user_pass_body(args.name, args.pass))
    BY <1>3 DEF CommandRequest
  <2>2. QED
    BY <1>3, <2>1, UnderstoodUser
<1>4. CASE args.cmd = "REGISTER_USER" /\ wish = <<"register", args.name, args.pass>>
  <2>1. CommandRequest(args, wish)
          = Req("USER_CREATE", build_user_pass_body(args.name, args.pass))
    BY <1>4 DEF CommandRequest
  <2>2. QED
    BY <1>4, <2>1, UnderstoodUser
<1>5. CASE args.cmd = "DIRECT_MSG_USER" /\ wish = <<"direct_msg", args.name, args.message>>
  <2>1. CommandRequest(args, wish)
          = Req("MESSAGE_SEND", build_user_send_msg_body(m_SelfId, 0, args.name,
                                                         args.message, m_Password))
    BY <1>5 DEF CommandRequest
  <2>2. QED
    BY <1>5, <2>1, UnderstoodMessage
<1>6. CASE args.cmd = "DIRECT_MSG_GROUP" /\ wish = <<"direct_msg_g", args.name, args.message>>
  <2>1. CommandRequest(args, wish)
          = Req("MESSAGE_SEND_CHAT", Group(args.name, <<>>, args.message))
    BY <1>6 DEF CommandRequest
  <2>2. /\ Synopsis["direct_msg_g"][1] = "MESSAGE_SEND_CHAT"
        /\ Synopsis["direct_msg_g"][2] = "chatname"
        /\ Synopsis["direct_msg_g"][3] = "message"
    BY DEF Synopsis
  <2>3. PICK body : body = Group(args.name, <<>>, args.message)
    OBVIOUS
  <2>4. body["chatname"] = args.name /\ (Finds(body, "message") => body["message"] = args.message)
    BY <2>3, GroupBody
  <2>5. {"message", "chatname"} \subseteq ToSet(Required["MESSAGE_SEND_CHAT"])
    BY RequiredAre
  <2>6. Understood(Request(args.cmd, "MESSAGE_SEND_CHAT", body,
                           <<"direct_msg_g", args.name, args.message>>))
    BY <1>1, <1>2, <2>2, <2>4, <2>5, UnderstoodTwo DEF routed
  <2>7. QED
    BY <1>6, <2>1, <2>3, <2>6
<1>7. CASE args.cmd = "STATUS_USER" /\ wish = <<"status", args.name>>
  <2>1. CommandRequest(args, wish) = Req("USER_STATUS", History(0))
    BY <1>7 DEF CommandRequest
  <2>2. Synopsis["status"][1] = "USER_STATUS" /\ Synopsis["status"][2] = "user"
    BY DEF Synopsis
  <2>3. PICK body : body = History(0)
    OBVIOUS
  <2>4. body["user"] = args.name
    BY <2>3 DEF build_user_history_msg_body
  <2>5. "user" \in ToSet(Required["USER_STATUS"])
    BY RequiredAre
  <2>6. Understood(Request(args.cmd, "USER_STATUS", body, <<"status", args.name>>))
    BY <1>1, <1>2, <2>2, <2>4, <2>5, UnderstoodOne DEF routed
  <2>7. QED
    BY <1>7, <2>1, <2>3, <2>6
<1>8. CASE args.cmd = "REGISTER_GROUP" /\ wish = <<"register_g", args.groupname>>
  <2>1. CommandRequest(args, wish) = Req("CHAT_CREATE", Group(args.groupname, <<>>, <<>>))
    BY <1>8 DEF CommandRequest
  <2>2. Synopsis["register_g"][1] = "CHAT_CREATE" /\ Synopsis["register_g"][2] = "chatname"
    BY DEF Synopsis
  <2>3. PICK body : body = Group(args.groupname, <<>>, <<>>)
    OBVIOUS
  <2>4. body["chatname"] = args.groupname
    BY <2>3, GroupBody
  <2>5. "chatname" \in ToSet(Required["CHAT_CREATE"])
    BY RequiredAre
  <2>6. Understood(Request(args.cmd, "CHAT_CREATE", body, <<"register_g", args.groupname>>))
    BY <1>1, <1>2, <2>2, <2>4, <2>5, UnderstoodOne DEF routed
  <2>7. QED
    BY <1>8, <2>1, <2>3, <2>6
<1>9. CASE args.cmd = "ADD_TO_GROUP" /\ wish = <<"add_to_g", args.name, args.groupname>>
  <2>1. CommandRequest(args, wish)
          = Req("CHAT_ADDUSER", Group(args.groupname, args.name, <<>>))
    BY <1>9 DEF CommandRequest
  <2>2. /\ Synopsis["add_to_g"][1] = "CHAT_ADDUSER"
        /\ Synopsis["add_to_g"][2] = "adduser"
        /\ Synopsis["add_to_g"][3] = "chatname"
    BY DEF Synopsis
  <2>3. PICK body : body = Group(args.groupname, args.name, <<>>)
    OBVIOUS
  <2>4. body["chatname"] = args.groupname /\ (Finds(body, "adduser") => body["adduser"] = args.name)
    BY <2>3, GroupBody
  <2>5. {"chatname", "adduser"} \subseteq ToSet(Required["CHAT_ADDUSER"])
    BY RequiredAre
  <2>6. Understood(Request(args.cmd, "CHAT_ADDUSER", body,
                           <<"add_to_g", args.name, args.groupname>>))
    BY <1>1, <1>2, <2>2, <2>4, <2>5, UnderstoodTwo DEF routed
  <2>7. QED
    BY <1>9, <2>1, <2>3, <2>6
<1>10. CASE /\ args.cmd = "HISTORY_USER"
            /\ \/ wish = <<"history", args.name>> /\ args.count = 10
               \/ /\ wish = <<"history", args.name, wish[3]>>
                  /\ \A value \in Meant("count", wish[3]) : args.count = value
  <2>1. CommandRequest(args, wish) = Req("USER_HISTORY", History(args.count))
    BY <1>10 DEF CommandRequest
  <2>2. QED
    BY <1>10, <2>1, UnderstoodHistory
<1>11. QED
  BY <1>3, <1>4, <1>5, <1>6, <1>7, <1>8, <1>9, <1>10 DEF Reads

-----------------------------------------------------------------------------
(* What is said on the connections.                                        *)

Dones(n) == {n.ready[k] : k \in DOMAIN n.ready}
Ops(n) == n.pending \union {d.p : d \in Dones(n)}

\* The current connection o of a slot, and those replaced that are still in use.
Uses(n, slot, o) == {o} \union {p.obj : p \in {q \in Ops(n) : q.slot = slot}}

\* An answer that is taken as it was typed, and that no handler needs.
AnswerRight(d) ==
    d.p.slot = "http" /\ d.heard # Nothing /\ ~d.heard.error =>
        Understands(d.heard.command, d.heard.params, d.req.wish)

\* With h and i the current connections of network n: no connection is both one for
\* commands and one for messages, and all that was asked, is being asked or was
\* answered on those for commands is understood.
Talk(n, h, i) ==
    /\ Uses(n, "http", h) \intersect Uses(n, "idle", i) = {}
    /\ \A p \in Ops(n) : p.slot = "http" /\ p.op = "write" => Understood(p.req)
    /\ \A o \in Objects : IsSeq(n.asked[o])
    /\ \A o \in Uses(n, "http", h) :
          \A k \in DOMAIN n.asked[o] : Understood(n.asked[o][k])
    /\ \A d \in Dones(n) : AnswerRight(d)

\* Another operation for the same.
Like(q, p) == q.obj = p.obj /\ q.slot = p.slot /\ q.op = p.op /\ q.req = p.req

\* Network m has no more to say than n, ...
NoMore(m, n) ==
    /\ \A d \in Dones(m) : d \in Dones(n) \/ d.heard = Nothing
    /\ \A o \in Objects : m.asked[o] = n.asked[o] \/ m.asked[o] = <<>>

Less(m, n) == NoMore(m, n) /\ Ops(m) \subseteq Ops(n)

\* ... but for an operation p.
More(m, n, p) ==
    /\ NoMore(m, n)
    /\ \A q \in Ops(m) : q \in Ops(n) \/ Like(q, p)

\* The empty sequence is one.
LEMMA EmptyIsSeq ==
    IsSeq(<<>>)
<1>1. <<>> \in Seq({})
  OBVIOUS
<1>2. QED
  BY <1>1, SeqOfOwn

\* What has no more to say says nothing wrong.
LEMMA LessTalk ==
    ASSUME NEW n, NEW m, NEW h \in Objects, NEW i, Talk(n, h, i), Less(m, n),
           \A p \in Ops(n) : p.obj \in Objects
    PROVE  Talk(m, h, i)
<1>1. \A slot, o : Uses(m, slot, o) \subseteq Uses(n, slot, o)
  BY DEF Uses, Less
<1>2. Uses(m, "http", h) \intersect Uses(m, "idle", i) = {}
  BY <1>1 DEF Talk
<1>3. \A p \in Ops(m) : p.slot = "http" /\ p.op = "write" => Understood(p.req)
  BY DEF Less, Talk
<1>4. \A o \in Objects : IsSeq(m.asked[o])
  BY EmptyIsSeq DEF Less, NoMore, Talk
<1>5. \A o \in Uses(m, "http", h) : \A k \in DOMAIN m.asked[o] : Understood(m.asked[o][k])
  <2> SUFFICES ASSUME NEW o \in Uses(m, "http", h), NEW k \in DOMAIN m.asked[o]
               PROVE  Understood(m.asked[o][k])
    OBVIOUS
  <2>1. o \in Uses(n, "http", h)
    BY <1>1
  <2>2. o \in Objects
    BY <2>1 DEF Uses
  <2>3. m.asked[o] # <<>>
    OBVIOUS
  <2>4. m.asked[o] = n.asked[o]
    BY <2>2, <2>3 DEF Less, NoMore
  <2>5. QED
    BY <2>1, <2>4 DEF Talk
<1>6. \A d \in Dones(m) : AnswerRight(d)
  BY DEF Less, NoMore, Talk, AnswerRight
<1>7. QED
  BY <1>2, <1>3, <1>4, <1>5, <1>6 DEF Talk

\* An operation of the current connection of its slot.
LEMMA MoreTalk ==
    ASSUME NEW n, NEW m, NEW h \in Objects, NEW i, Talk(n, h, i),
           NEW p, More(m, n, p),
           \A q \in Ops(n) : q.obj \in Objects,
           p.slot \in Slots, p.obj = IF p.slot = "http" THEN h ELSE i,
           p.slot = "http" /\ p.op = "write" => Understood(p.req)
    PROVE  Talk(m, h, i)
<1>1. /\ Uses(m, "http", h) \subseteq Uses(n, "http", h)
      /\ Uses(m, "idle", i) \subseteq Uses(n, "idle", i)
  BY DEF Uses, More, Like, Slots
<1>2. Uses(m, "http", h) \intersect Uses(m, "idle", i) = {}
  BY <1>1 DEF Talk
<1>3. \A q \in Ops(m) : q.slot = "http" /\ q.op = "write" => Understood(q.req)
  BY DEF More, Like, Talk
<1>4. \A o \in Objects : IsSeq(m.asked[o])
  BY EmptyIsSeq DEF More, NoMore, Talk
<1>5. \A o \in Uses(m, "http", h) : \A k \in DOMAIN m.asked[o] : Understood(m.asked[o][k])
  <2> SUFFICES ASSUME NEW o \in Uses(m, "http", h), NEW k \in DOMAIN m.asked[o]
               PROVE  Understood(m.asked[o][k])
    OBVIOUS
  <2>1. o \in Uses(n, "http", h)
    BY <1>1
  <2>2. o \in Objects
    BY <2>1 DEF Uses
  <2>3. m.asked[o] # <<>>
    OBVIOUS
  <2>4. m.asked[o] = n.asked[o]
    BY <2>2, <2>3 DEF More, NoMore
  <2>5. QED
    BY <2>1, <2>4 DEF Talk
<1>6. \A d \in Dones(m) : AnswerRight(d)
  BY DEF More, NoMore, Talk, AnswerRight
<1>7. QED
  BY <1>2, <1>3, <1>4, <1>5, <1>6 DEF Talk

\* A new connection for commands, ...
LEMMA RenewedTalk ==
    ASSUME NEW n, NEW m, NEW h \in Objects, NEW i, Talk(n, h, i),
           NEW o \in Objects, o # i, \A q \in Ops(n) : q.obj # o /\ q.obj \in Objects,
           NEW p, More(m, n, p), p.obj = o, p.slot = "http", p.op # "write",
           m.asked[o] = <<>>
    PROVE  Talk(m, o, i)
<1>1. /\ Uses(m, "http", o) \subseteq Uses(n, "http", h) \union {o}
      /\ Uses(m, "idle", i) \subseteq Uses(n, "idle", i)
      /\ o \notin Uses(n, "idle", i)
  BY DEF Uses, More, Like
<1>2. Uses(m, "http", o) \intersect Uses(m, "idle", i) = {}
  BY <1>1 DEF Talk
<1>3. \A q \in Ops(m) : q.slot = "http" /\ q.op = "write" => Understood(q.req)
  BY DEF More, Like, Talk
<1>4. \A x \in Objects : IsSeq(m.asked[x])
  BY EmptyIsSeq DEF More, NoMore, Talk
<1>5. \A x \in Uses(m, "http", o) : \A k \in DOMAIN m.asked[x] : Understood(m.asked[x][k])
  <2> SUFFICES ASSUME NEW x \in Uses(m, "http", o), NEW k \in DOMAIN m.asked[x]
               PROVE  Understood(m.asked[x][k])
    OBVIOUS
  <2>1. m.asked[x] # <<>>
    OBVIOUS
  <2>2. x \in Uses(n, "http", h)
    BY <1>1, <2>1
  <2>3. x \in Objects
    BY <2>2 DEF Uses
  <2>4. m.asked[x] = n.asked[x]
    BY <2>1, <2>3 DEF More, NoMore
  <2>5. QED
    BY <2>2, <2>4 DEF Talk
<1>6. \A d \in Dones(m) : AnswerRight(d)
  BY DEF More, NoMore, Talk, AnswerRight
<1>7. QED
  BY <1>2, <1>3, <1>4, <1>5, <1>6 DEF Talk

\* ... and for messages.
LEMMA RenewedIdleTalk ==
    ASSUME NEW n, NEW h, NEW i, Talk(n, h, i),
           NEW o, o # h, \A q \in Ops(n) : q.obj # o
    PROVE  Talk(n, h, o)
<1>1. Uses(n, "idle", o) \subseteq Uses(n, "idle", i) \union {o}
  BY DEF Uses
<1>2. o \notin Uses(n, "http", h)
  BY DEF Uses
<1>3. QED
  BY <1>1, <1>2 DEF Talk

\* The operations of a well typed network.
LEMMA OpsAre ==
    ASSUME NEW n, NetOK(n)
    PROVE  \A q \in Ops(n) : OpOK(q) /\ q.obj \in Objects /\ q.slot \in Slots
  BY DEF Ops, Dones, NetOK, OpsOK, DoneOK, OpOK, IsOp

\* The same answers and requests are no more.
LEMMA SameAsked ==
    ASSUME NEW n, NEW m, m.asked = n.asked, m.ready = n.ready
    PROVE  NoMore(m, n)
  BY DEF NoMore, Dones

\* No more than what is no more.
LEMMA LessTransitive ==
    ASSUME NEW k, NEW m, NEW n, Less(k, m), Less(m, n)
    PROVE  Less(k, n)
  BY DEF Less, NoMore

\* An abort adds nothing: what was under way is ready, with no answer.
LEMMA AbortLess ==
    ASSUME NEW n, NetOK(n), NEW A \in SUBSET n.pending
    PROVE  Less(Abort(n, A), n)
<1> DEFINE c == Cardinality(A)
           t == [i \in 1 .. c |-> Done(SetToSeq(A)[i], "aborted")]
           m == Abort(n, A)
<1>1. IsFiniteSet(A)
  BY FS_Subset DEF NetOK, OpsOK
<1>2. c \in Nat /\ SetToSeq(A) \in [1 .. c -> A]
  BY <1>1, SetToSeqLists
<1>3. \A i \in DOMAIN t : t[i].p \in A /\ t[i].heard = Nothing
  BY <1>2 DEF Done, Answered
<1>4. IsSeq(t)
  <2>1. t \in [1 .. c -> {t[i] : i \in DOMAIN t}]
    OBVIOUS
  <2> HIDE DEF t
  <2>2. QED
    BY <1>2, <2>1, FunctionIsSeq DEF IsSeq
<1>5. m.pending = n.pending \ A /\ m.asked = n.asked
  BY AbortIs
<1>6. m.ready = n.ready \o t
  <2>1. m = [n EXCEPT !.pending = @ \ A, !.ready = @ \o t]
    BY DEF Abort
  <2> HIDE DEF t, m
  <2>2. QED
    BY <2>1 DEF NetOK, Net
<1>7. IsSeq(n.ready)
  BY DEF NetOK, OpsOK
<1> HIDE DEF t, m
<1>8. \A d \in Dones(m) : d \in Dones(n) \/ (d.p \in A /\ d.heard = Nothing)
  <2> SUFFICES ASSUME NEW k \in DOMAIN (n.ready \o t)
               PROVE  \/ (n.ready \o t)[k] \in Dones(n)
                      \/ (n.ready \o t)[k].p \in A /\ (n.ready \o t)[k].heard = Nothing
    BY <1>6 DEF Dones
  <2>1. \/ k \in DOMAIN n.ready /\ (n.ready \o t)[k] = n.ready[k]
        \/ k - Len(n.ready) \in DOMAIN t /\ (n.ready \o t)[k] = t[k - Len(n.ready)]
    BY <1>4, <1>7, ConcatIs
  <2>2. QED
    BY <1>3, <2>1 DEF Dones
<1>9. QED
  BY <1>5, <1>8 DEF Less, NoMore, Ops, m

\* A socket that is closed forgets what was asked on it.
LEMMA CollectLess ==
    ASSUME NEW n, NetOK(n), NEW o \in Objects
    PROVE  Less(Collect(n, o), n)
<1> DEFINE m == [n EXCEPT !.sock[o] = "closed", !.tls[o] = "new", !.m_IsOpen[o] = FALSE,
                          !.asked[o] = <<>>, !.params[o] = Params, !.polls[o] = "no"]
<1>1. Collect(n, o) \in {n, m}
  BY DEF Collect
<1>2. Collect(n, o).pending = n.pending /\ Collect(n, o).ready = n.ready
  BY CollectIs
<1>3. m.asked = [n.asked EXCEPT ![o] = <<>>]
  BY DEF NetOK, Net
<1> HIDE DEF m
<1>4. \A x \in Objects : m.asked[x] \in {n.asked[x], <<>>}
  BY <1>3 DEF NetOK, PeersOK
<1>5. QED
  BY <1>1, <1>2, <1>4 DEF Less, NoMore, Ops, Dones

\* A connection that goes adds nothing, ...
LEMMA DestroyLess ==
    ASSUME NEW n, NetOK(n), NEW o \in Objects
    PROVE  Less(Destroy(n, o), n)
<1> DEFINE A == {q \in n.pending : q.obj = o /\ q.op \in {"connect", "handshake"}}
           c == Abort(n, A)
<1>1. NetOK(c) /\ Less(c, n)
  BY AbortIs, AbortLess
<1>2. Destroy(n, o) = Collect(c, o)
  BY DEF Destroy
<1> HIDE DEF c
<1>3. QED
  BY <1>1, <1>2, CollectLess, LessTransitive

\* ... and a completion that is taken does not.
LEMMA PoppedLess ==
    ASSUME NetOK(net), net.ready # <<>>
    PROVE  Less(Popped, net)
<1> DEFINE n == [net EXCEPT !.ready = Tail(@)]
<1>1. n = Net(net.sock, net.tls, net.m_IsOpen, net.asked, net.params, net.polls,
              net.pending, Tail(net.ready))
  <2>1. net = Net(net.sock, net.tls, net.m_IsOpen, net.asked, net.params, net.polls,
                  net.pending, net.ready)
    BY DEF NetOK
  <2>2. n = [net EXCEPT !.ready = Tail(@)]
    OBVIOUS
  <2> HIDE DEF n
  <2>3. QED
    BY <2>1, <2>2 DEF Net
<1> HIDE DEF n
<1>2. /\ IsSeq(Tail(net.ready)) /\ DoneOK(Completion)
      /\ \A i \in DOMAIN Tail(net.ready) : DoneOK(Tail(net.ready)[i])
      /\ \A i \in DOMAIN Tail(net.ready) : Tail(net.ready)[i] \in Dones(net)
  BY TailIs DEF NetOK, OpsOK, Completion, Dones
<1>3. OpsOK(net.pending, Tail(net.ready))
  BY <1>2 DEF NetOK, OpsOK
<1>4. NetOK(n)
  BY <1>1, <1>3, NetIs DEF NetOK
<1>5. Less(n, net)
  BY <1>1, <1>2 DEF Less, NoMore, Ops, Dones, Net
<1>6. Popped = IF IsDestroyed(Completion.p) THEN Collect(n, Completion.p.obj) ELSE n
  BY DEF Popped, n
<1>7. Completion.p.obj \in Objects
  BY <1>2 DEF DoneOK, OpOK, IsOp
<1>8. QED
  BY <1>4, <1>5, <1>6, <1>7, CollectLess, LessTransitive

\* A connect adds itself, and forgets what was asked.
LEMMA start_connectMore ==
    ASSUME NEW n, NetOK(n), NEW p, OpOK(p)
    PROVE  More(start_connect(n, p), n, p) /\ start_connect(n, p).asked[p.obj] = <<>>
<1> DEFINE A == {q \in n.pending : q.obj = p.obj}
           c == Abort(n, A)
           m == start_connect(n, p)
<1>1. NetOK(c) /\ Less(c, n)
  BY AbortIs, AbortLess
<1>2. m = [c EXCEPT !.sock[p.obj] = "connecting", !.tls[p.obj] = brokenOff(@),
                    !.polls[p.obj] = "no",
                    !.params[p.obj] = Params, !.asked[p.obj] = <<>>,
                    !.pending = @ \union {p}]
  BY DEF start_connect
<1>3. p.obj \in Objects
  BY DEF OpOK, IsOp
<1> HIDE DEF c, m
<1>4. /\ m.pending = c.pending \union {p} /\ m.ready = c.ready
      /\ m.asked = [c.asked EXCEPT ![p.obj] = <<>>]
  BY <1>1, <1>2 DEF NetOK, Net
<1>5. /\ m.asked[p.obj] = <<>>
      /\ \A o \in Objects \ {p.obj} : m.asked[o] = c.asked[o]
  BY <1>1, <1>3, <1>4 DEF NetOK, PeersOK
<1>6. Ops(m) \subseteq Ops(c) \union {p} /\ Dones(m) = Dones(c)
  BY <1>4 DEF Ops, Dones
<1>7. More(m, n, p)
  BY <1>1, <1>5, <1>6 DEF Less, More, NoMore, Like
<1>8. QED
  BY <1>5, <1>7 DEF m

\* A read or a write adds itself, under way or failed.
LEMMA StartIoMore ==
    ASSUME NEW n, NetOK(n), NEW p, OpOK(p)
    PROVE  More(StartIo(n, p), n, p)
<1> DEFINE m == StartIo(n, p)
<1>1. m.asked = n.asked
  BY StartIoIs
<1>2. \/ \E x : m.pending = n.pending \union {[p EXCEPT !.i = x]} /\ m.ready = n.ready
      \/ m.pending = n.pending /\ m.ready = Append(n.ready, Done(p, "error"))
  BY StartIoIs
<1> HIDE DEF m
<1>3. CASE \E x : m.pending = n.pending \union {[p EXCEPT !.i = x]} /\ m.ready = n.ready
  <2>1. PICK x : m.pending = n.pending \union {[p EXCEPT !.i = x]} /\ m.ready = n.ready
    BY <1>3
  <2>2. PICK q : q = [p EXCEPT !.i = x]
    OBVIOUS
  <2>3. Like(q, p)
    BY <2>2 DEF OpOK, Op, Like
  <2>4. Ops(m) = Ops(n) \union {q}
    BY <2>1, <2>2 DEF Ops, Dones
  <2>5. QED
    BY <1>1, <2>1, <2>3, <2>4, SameAsked DEF More, m
<1>4. CASE m.pending = n.pending /\ m.ready = Append(n.ready, Done(p, "error"))
  <2>1. \A d \in Dones(m) : d \in Dones(n) \/ d = Done(p, "error")
    <3>1. IsSeq(n.ready)
      BY DEF NetOK, OpsOK
    <3>2. QED
      BY <1>4, <3>1, AppendIs DEF Dones
  <2>2. Done(p, "error").p = p /\ Done(p, "error").heard = Nothing
    BY DEF Done, Answered
  <2>3. \A q \in Ops(m) : q \in Ops(n) \/ q = p
    BY <1>4, <2>1, <2>2 DEF Ops
  <2>4. QED
    BY <1>1, <2>1, <2>2, <2>3 DEF More, NoMore, Like, m
<1>5. QED
  BY <1>2, <1>3, <1>4

TalkNow == Talk(net, m_Http, m_HttpIdle)

\* A network that has no more to say.
LEMMA StillTalk ==
    ASSUME TypedInv, TalkNow, NEW m, Less(m, net)
    PROVE  Talk(m, m_Http, m_HttpIdle)
<1>1. m_Http \in Objects /\ \A q \in Ops(net) : q.obj \in Objects
  BY OpsAre DEF TypedInv, RestOK
<1>2. QED
  BY <1>1, LessTalk DEF TalkNow

\* At first nothing is asked.
LEMMA InitTalk ==
    ASSUME Init
    PROVE  TalkNow
<1> DEFINE p == Connect("http", 1, 1, 1)
           n == NetInit
<1>1. NetOK(n) /\ OpOK(p)
  BY NetInitTyped, OpIs, ConstantsAre DEF Connect, NoRequest, Parsable
<1>2. More(start_connect(n, p), n, p)
  BY <1>1, start_connectMore
<1>3. p.slot = "http" /\ p.obj = 1 /\ p.op = "connect"
  BY DEF Connect, Op
<1>4. Ops(n) = {} /\ Dones(n) = {}
  BY DEF NetInit, Ops, Dones
<1>5. Talk(n, 1, 2)
  <2>1. Uses(n, "http", 1) = {1} /\ Uses(n, "idle", 2) = {2}
    BY <1>4 DEF Uses
  <2>2. \A o \in Objects : n.asked[o] = <<>>
    BY DEF NetInit
  <2>3. 1 \in Objects
    BY ConstantsAre
  <2>4. QED
    BY <1>4, <2>1, <2>2, <2>3, EmptyIsSeq DEF Talk
<1> HIDE DEF n, p
<1>6. Talk(start_connect(n, p), 1, 2)
  BY <1>2, <1>3, <1>4, <1>5, MoreTalk, ConstantsAre
<1>7. QED
  BY <1>6 DEF Init, TalkNow, n, p

\* A delivery: what is asked on a connection is what was written there, and what is
\* answered what was asked.
LEMMA DeliversTalk ==
    ASSUME TypedInv, TalkNow, NEW p \in net.pending, NetworkDelivers(p)
    PROVE  TalkNow'
<1>1. NetOK(net)
  BY DEF TypedInv
<1>2. PICK sock, tls, asked, params, polls, d :
         Delivery(p, sock, tls, asked, params, polls, d)
  BY <1>1, DeliveryIs
<1>3. /\ net'.pending = net.pending \ {p} /\ net'.ready = Append(net.ready, d)
      /\ net'.asked = asked /\ d.p = p
      /\ \A x \in Objects \ {p.obj} : asked[x] = net.asked[x]
  BY <1>2 DEF Delivery, Net
<1>4. \A e \in Dones(net') : e \in Dones(net) \/ e = d
  <2>1. IsSeq(net.ready)
    BY <1>1 DEF NetOK, OpsOK
  <2>2. QED
    BY <1>3, <2>1, AppendIs DEF Dones
<1>5. Ops(net') \subseteq Ops(net) /\ p \in Ops(net)
  BY <1>3, <1>4 DEF Ops
<1>6. p.obj \in Objects /\ p.slot \in Slots /\ m_Http \in Objects
  BY <1>1, <1>5, OpsAre DEF TypedInv, RestOK
<1>7. UNCHANGED <<m_Http, m_HttpIdle>>
  BY DEF NetworkDelivers
<1>8. CASE asked = net.asked /\ d.heard = Nothing
  <2>1. Less(net', net)
    BY <1>3, <1>4, <1>5, <1>8 DEF Less, NoMore
  <2>2. QED
    BY <1>7, <2>1, StillTalk DEF TalkNow
<1>9. CASE \/ /\ p.op = "write" /\ d.heard = Nothing
              /\ asked[p.obj] = Append(net.asked[p.obj], p.req)
           \/ /\ p.op = "read" /\ net.asked[p.obj] # <<>>
              /\ d.req = Head(net.asked[p.obj]) /\ d.heard = Hears(p.obj)
              /\ asked[p.obj] = Tail(net.asked[p.obj])
  <2>1. IsSeq(net.asked[p.obj])
    BY <1>6 DEF TalkNow, Talk
  <2>2. /\ IsSeq(asked[p.obj])
        /\ \A k \in DOMAIN asked[p.obj] :
              \/ \E j \in DOMAIN net.asked[p.obj] : asked[p.obj][k] = net.asked[p.obj][j]
              \/ p.op = "write" /\ asked[p.obj][k] = p.req
    <3>1. PICK s : s = net.asked[p.obj]
      OBVIOUS
    <3>2. PICK t : t = asked[p.obj]
      OBVIOUS
    <3>3. IsSeq(s)
      BY <2>1, <3>1
    <3>4. CASE p.op = "write" /\ t = Append(s, p.req)
      <4>1. IsSeq(t) /\ \A k \in DOMAIN t : t[k] = p.req \/ (k \in DOMAIN s /\ t[k] = s[k])
        BY <3>3, <3>4, AppendIs
      <4>2. QED
        BY <3>1, <3>2, <3>4, <4>1
    <3>5. CASE s # <<>> /\ t = Tail(s)
      <4>1. IsSeq(t) /\ \A k \in DOMAIN t : k + 1 \in DOMAIN s /\ t[k] = s[k + 1]
        BY <3>3, <3>5, TailIs
      <4>2. QED
        BY <3>1, <3>2, <4>1
    <3>6. QED
      BY <1>9, <3>1, <3>2, <3>4, <3>5
  <2>3. /\ Uses(net', "http", m_Http) \subseteq Uses(net, "http", m_Http)
        /\ Uses(net', "idle", m_HttpIdle) \subseteq Uses(net, "idle", m_HttpIdle)
    BY <1>5 DEF Uses
  <2>4. p.obj \in Uses(net, "http", m_Http) => p.slot = "http"
    <3>1. p.obj \in Uses(net, p.slot, m_HttpIdle)
      BY <1>5 DEF Uses
    <3>2. QED
      BY <1>6, <3>1, ConstantsAre DEF TalkNow, Talk
  <2>5. p.slot = "http" => p.obj \in Uses(net, "http", m_Http)
    BY <1>5 DEF Uses
  <2>6. \A o \in Objects : IsSeq(net'.asked[o])
    BY <1>3, <2>2 DEF TalkNow, Talk
  <2>7. \A o \in Uses(net', "http", m_Http) :
           \A k \in DOMAIN net'.asked[o] : Understood(net'.asked[o][k])
    <3> SUFFICES ASSUME NEW o \in Uses(net', "http", m_Http), NEW k \in DOMAIN asked[o]
                 PROVE  Understood(asked[o][k])
      BY <1>3
    <3>1. o \in Uses(net, "http", m_Http)
      BY <2>3
    <3>2. o \in Objects
      BY <1>1, <1>6, <3>1, OpsAre DEF Uses
    <3>3. CASE o # p.obj
      BY <1>3, <3>1, <3>2, <3>3 DEF TalkNow, Talk
    <3>4. CASE o = p.obj
      BY <1>5, <2>2, <2>4, <3>1, <3>4 DEF TalkNow, Talk
    <3>5. QED
      BY <3>3, <3>4
  <2>8. AnswerRight(d)
    <3>1. CASE d.heard = Nothing
      BY <3>1 DEF AnswerRight
    <3>2. ASSUME p.slot = "http", net.asked[p.obj] # <<>>,
                 d.req = Head(net.asked[p.obj]), d.heard = Hears(p.obj), ~d.heard.error
          PROVE  Understands(d.heard.command, d.heard.params, d.req.wish)
      <4>1. Understood(d.req)
        BY <2>1, <2>5, <3>2, TailIs DEF TalkNow, Talk
      <4>2. PICK command : command = Route(d.req.resource)
        OBVIOUS
      <4>3. PICK meta : meta = parse_meta(net.params[p.obj], d.req.body, command)
        OBVIOUS
      <4>4. ~meta.error => Understands(command, meta.params, d.req.wish)
        BY <4>1, <4>2, <4>3 DEF Understood
      <4>5. d.heard = [command |-> command, params |-> meta.params, error |-> meta.error]
        BY <3>2, <4>2, <4>3 DEF Hears
      <4>6. QED
        BY <3>2, <4>4, <4>5
    <3>3. QED
      BY <1>3, <1>9, <3>1, <3>2 DEF AnswerRight
  <2>9. Talk(net', m_Http, m_HttpIdle)
    BY <1>4, <1>5, <2>3, <2>6, <2>7, <2>8 DEF TalkNow, Talk
  <2>10. QED
    BY <1>7, <2>9 DEF TalkNow
<1>10. QED
  BY <1>2, <1>8, <1>9 DEF Delivery

\* A failure has no answer.
LEMMA FailsTalk ==
    ASSUME TypedInv, TalkNow, NEW p \in net.pending, NetworkFails(p)
    PROVE  TalkNow'
<1>1. PICK tls : net' = Net(net.sock, tls, net.m_IsOpen, net.asked, net.params, net.polls,
                            net.pending \ {p}, Append(net.ready, Done(p, "error")))
  BY FailureIs DEF TypedInv
<1>2. IsSeq(net.ready)
  BY DEF TypedInv, NetOK, OpsOK
<1>3. Done(p, "error").p = p /\ Done(p, "error").heard = Nothing
  BY DEF Done, Answered
<1>4. net'.pending = net.pending \ {p} /\ net'.ready = Append(net.ready, Done(p, "error"))
      /\ net'.asked = net.asked
  BY <1>1 DEF Net
<1>5. \A e \in Dones(net') : e \in Dones(net) \/ e = Done(p, "error")
  BY <1>2, <1>4, AppendIs DEF Dones
<1>6. Less(net', net)
  BY <1>3, <1>4, <1>5 DEF Less, NoMore, Ops
<1>7. UNCHANGED <<m_Http, m_HttpIdle>>
  BY DEF NetworkFails
<1>8. QED
  BY <1>6, <1>7, StillTalk DEF TalkNow

\* A peer that goes says nothing more.
LEMMA DropsTalk ==
    ASSUME TypedInv, TalkNow, NEW o \in Objects, ConnectionDrops(o)
    PROVE  TalkNow'
<1>1. Less(net', net)
  BY DropIs, SameAsked DEF TypedInv, Less, Ops, Dones
<1>2. UNCHANGED <<m_Http, m_HttpIdle>>
  BY DEF ConnectionDrops
<1>3. QED
  BY <1>1, <1>2, StillTalk DEF TalkNow

\* The timer only aborts.
LEMMA TimeoutTalk ==
    ASSUME TypedInv, TalkNow, timeoutExpires
    PROVE  TalkNow'
<1>1. Less(net', net)
  BY AbortLess DEF TypedInv, timeoutExpires
<1>2. UNCHANGED <<m_Http, m_HttpIdle>>
  BY DEF timeoutExpires
<1>3. QED
  BY <1>1, <1>2, StillTalk DEF TalkNow

\* A request is sent.
LEMMA SendTalk ==
    ASSUME NEW n, NetOK(n), m_Http \in Objects, Talk(n, m_Http, m_HttpIdle),
           NEW req, req.cmd \in Parsable, Understood(req), sendRequest(n, req)
    PROVE  Talk(net', m_Http, m_HttpIdle)
<1> DEFINE p == Op("write", "http", m_Http, 0, 0, req)
<1>1. OpOK(p)
  BY OpIs, ConstantsAre
<1>2. More(net', n, p)
  BY <1>1, StartIoMore DEF sendRequest
<1>3. p.slot = "http" /\ p.obj = m_Http /\ p.req = req
  BY DEF Op
<1> HIDE DEF p
<1>4. QED
  BY <1>2, <1>3, OpsAre, MoreTalk, ConstantsAre

\* The user's line is sent as what he wished.
LEMMA processQueueTalk ==
    ASSUME WishesAreRead, TypedInv, TalkNow, processQueue
    PROVE  TalkNow'
<1>1. NetOK(net) /\ m_Http \in Objects
  BY DEF TypedInv, RestOK
<1>2. PICK event : event = Head(m_Queue)
  OBVIOUS
<1>3. event \in Events /\ onUserInput(event)
  BY <1>2 DEF processQueue, TypedInv, RestOK
<1> DEFINE args == Parsed[event.msg]
           chat == m_State.mode = "CHAT_U" /\ args.cmd \notin {"UNCHAT", "DIRECT_MSG_USER"}
           body == build_user_send_msg_body(m_SelfId, 0, m_State.user, event.msg, m_Password)
           wish == <<"direct_msg", m_State.user, event.msg>>
<1>4. \/ sendRequest(net, Request("DIRECT_MSG_USER", "MESSAGE_SEND", body, wish))
      \/ args.cmd \in LocalCmds /\ LocalCommand(args)
      \/ args.cmd \notin LocalCmds /\ sendRequest(net, CommandRequest(args, event.wish))
  BY <1>3 DEF onUserInput, LocalCmds
<1>5. Talk(net, m_Http, m_HttpIdle)
  BY DEF TalkNow
<1>6. ASSUME sendRequest(net, Request("DIRECT_MSG_USER", "MESSAGE_SEND", body, wish))
      PROVE  Talk(net', m_Http, m_HttpIdle)
  <2>1. Understood(Request("DIRECT_MSG_USER", "MESSAGE_SEND", body, wish))
    BY UnderstoodMessage
  <2>2. Request("DIRECT_MSG_USER", "MESSAGE_SEND", body, wish).cmd \in Parsable
    BY DEF Request, Parsable, Commands
  <2>3. QED
    BY <1>1, <1>5, <1>6, <2>1, <2>2, SendTalk
<1>7. ASSUME args.cmd \notin LocalCmds, sendRequest(net, CommandRequest(args, event.wish))
      PROVE  Talk(net', m_Http, m_HttpIdle)
  <2>1. args = Parsed[Input[event.wish]] /\ event.wish \in DOMAIN Input
    BY <1>3, EventIs
  <2>2. args.cmd \in Parsable
    BY <1>3, EventCmd
  <2> HIDE DEF args
  <2>3. Reads(args, event.wish)
    BY <1>7, <2>1 DEF WishesAreRead
  <2>4. Understood(CommandRequest(args, event.wish))
    BY <2>3, SentUnderstood
  <2>5. args.cmd \in DOMAIN Commands \ {"HELP", "UNCHAT", "QUIT", "CHAT_WITH_USER",
                                        "HISTORY_GROUP", "STATUS_GROUP"}
    BY <1>7, <2>2 DEF Parsable, LocalCmds
  <2>6. CommandRequest(args, event.wish).cmd \in Parsable
    BY <2>2, <2>5, RequestOfCommand
  <2>7. QED
    BY <1>1, <1>5, <1>7, <2>4, <2>6, SendTalk
<1>8. ASSUME LocalCommand(args)
      PROVE  Talk(net', m_Http, m_HttpIdle)
  BY <1>5, <1>8 DEF LocalCommand
<1>9. UNCHANGED <<m_Http, m_HttpIdle>>
  BY DEF processQueue
<1> HIDE DEF args, body, wish
<1>10. QED
  BY <1>4, <1>6, <1>7, <1>8, <1>9 DEF TalkNow

-----------------------------------------------------------------------------
(* What the handlers say.                                                  *)

\* What a handler finds.
LEMMA PoppedSays ==
    ASSUME TypedInv, TalkNow, net.ready # <<>>
    PROVE  Talk(Popped, m_Http, m_HttpIdle)
<1>1. NetOK(net)
  BY DEF TypedInv
<1>2. Less(Popped, net)
  BY <1>1, PoppedLess
<1>3. QED
  BY <1>2, StillTalk

\* An operation of a current connection that is no write.
LEMMA BegunTalk ==
    ASSUME TypedInv, NEW n, NetOK(n), Talk(n, m_Http, m_HttpIdle),
           NEW slot \in Slots, NEW p, p.slot = slot, p.obj = Current(slot), p.op # "write",
           NEW m, More(m, n, p)
    PROVE  Talk(m, m_Http, m_HttpIdle)
<1>1. m_Http \in Objects
  BY DEF TypedInv, RestOK
<1>2. \A q \in Ops(n) : q.obj \in Objects
  BY OpsAre
<1>3. p.slot \in Slots /\ p.obj = IF p.slot = "http" THEN m_Http ELSE m_HttpIdle
  BY DEF Current
<1>4. QED
  BY <1>1, <1>2, <1>3, MoreTalk

\* A connect of one.
LEMMA ConnectTalk ==
    ASSUME TypedInv, NEW n, NetOK(n), Talk(n, m_Http, m_HttpIdle),
           NEW slot \in Slots, NEW chain \in 0 .. MaxChains, NEW i
    PROVE  Talk(start_connect(n, Connect(slot, Current(slot), chain, i)),
                m_Http, m_HttpIdle)
<1> DEFINE p == Connect(slot, Current(slot), chain, i)
<1>1. Current(slot) \in Objects
  BY DEF TypedInv, RestOK, Current
<1>2. OpOK(p)
  BY <1>1, ConnectTyped
<1>3. p.slot = slot /\ p.obj = Current(slot) /\ p.op = "connect"
  BY DEF Connect, Op
<1> HIDE DEF p
<1>4. More(start_connect(n, p), n, p)
  BY <1>2, start_connectMore
<1>5. Talk(start_connect(n, p), m_Http, m_HttpIdle)
  BY <1>3, <1>4, BegunTalk
<1>6. QED
  BY <1>5 DEF p

\* A read of one.
LEMMA ReadTalk ==
    ASSUME TypedInv, NEW n, NetOK(n), Talk(n, m_Http, m_HttpIdle),
           NEW slot \in Slots, NEW req, req.cmd \in Parsable
    PROVE  Talk(StartIo(n, Op("read", slot, Current(slot), 0, 0, req)), m_Http, m_HttpIdle)
<1> DEFINE p == Op("read", slot, Current(slot), 0, 0, req)
<1>1. Current(slot) \in Objects
  BY DEF TypedInv, RestOK, Current
<1>2. OpOK(p)
  BY <1>1, OpIs, ConstantsAre
<1>3. p.slot = slot /\ p.obj = Current(slot) /\ p.op = "read"
  BY DEF Op
<1> HIDE DEF p
<1>4. More(StartIo(n, p), n, p)
  BY <1>2, StartIoMore
<1>5. Talk(StartIo(n, p), m_Http, m_HttpIdle)
  BY <1>3, <1>4, BegunTalk
<1>6. QED
  BY <1>5 DEF p

\* The end of a connect: the handshake, or another connect of a current connection.
LEMMA handleConnectTalk ==
    ASSUME TypedInv, TalkNow, NEW slot \in Slots, handleConnect(slot)
    PROVE  TalkNow'
<1> DEFINE p == Completion.p
           opened == [Popped EXCEPT !.m_IsOpen[p.obj] = TRUE]
           shake == Handshake(slot, p.obj, p.chain)
           begun == [Popped EXCEPT !.m_IsOpen[p.obj] = TRUE, !.tls[p.obj] = underWay(@),
                                   !.pending = @ \union {shake}]
<1>1. Handles("connect", slot)
  BY DEF handleConnect
<1>2. /\ NetOK(Popped) /\ p.obj \in Objects /\ p.chain \in 0 .. MaxChains /\ p.slot = slot
  BY <1>1, HandledIs
<1>3. Talk(Popped, m_Http, m_HttpIdle)
  BY <1>1, PoppedSays DEF Handles
<1>4. \/ ~IsDestroyed(p) /\ net' = begun
      \/ ~IsDestroyed(p) /\ net' = start_connect(Popped, Connect(slot, p.obj, p.chain, p.i + 1))
      \/ ~IsDestroyed(p) /\ net' = start_connect(opened, Connect(slot, p.obj, p.chain, 1))
      \/ net' = start_connect(Popped, Connect(slot, Current(slot), p.chain, 1))
  BY DEF handleConnect, Reconnect
<1>5. ~IsDestroyed(p) => p.obj = Current(slot)
  BY <1>2 DEF IsDestroyed
<1>6. OpOK(shake)
  BY <1>2, OpIs DEF Handshake, NoRequest, Parsable
<1>7. shake.slot = slot /\ shake.obj = p.obj /\ shake.op = "handshake"
  BY DEF Handshake, Op
<1>8. UNCHANGED <<m_Http, m_HttpIdle>>
  BY DEF handleConnect
<1> HIDE DEF p, shake
<1>9. /\ NetOK(opened) /\ NetOK(begun)
      /\ \A f \in {"pending", "ready", "asked", "polls"} : opened[f] = Popped[f]
      /\ \A f \in {"ready", "asked", "polls"} : begun[f] = Popped[f]
      /\ begun.pending = Popped.pending \union {shake}
  <2>1. PICK n : n = Popped
    OBVIOUS
  <2>2. PICK o : o = p.obj
    OBVIOUS
  <2>3. NetOK(n) /\ o \in Objects
    BY <1>2, <2>1, <2>2
  <2>4. NetOK([n EXCEPT !.m_IsOpen[o] = TRUE])
    BY <1>6, <2>3, OpenedIs
  <2>5. NetOK([n EXCEPT !.m_IsOpen[o] = TRUE, !.tls[o] = underWay(@),
                        !.pending = @ \union {shake}])
    BY <1>6, <2>3, OpenedIs
  <2>6. \A f \in {"pending", "ready", "asked", "polls"} :
           [n EXCEPT !.m_IsOpen[o] = TRUE][f] = n[f]
    BY <1>6, <2>3, OpenedIs
  <2>7. PICK m : m = [n EXCEPT !.m_IsOpen[o] = TRUE, !.tls[o] = underWay(@),
                               !.pending = @ \union {shake}]
    OBVIOUS
  <2>8. m = Net(n.sock, [n.tls EXCEPT ![o] = underWay(@)], [n.m_IsOpen EXCEPT ![o] = TRUE],
                n.asked, n.params, n.polls, n.pending \union {shake}, n.ready)
    BY <2>3, <2>7 DEF NetOK, Net
  <2>9. /\ m.ready = n.ready /\ m.asked = n.asked /\ m.polls = n.polls
        /\ m.pending = n.pending \union {shake}
    BY <2>8 DEF Net
  <2>10. m = begun
    BY <2>1, <2>2, <2>7
  <2>11. NetOK(opened) /\ NetOK(begun)
    BY <2>1, <2>2, <2>4, <2>5
  <2>12. \A f \in {"pending", "ready", "asked", "polls"} : opened[f] = Popped[f]
    BY <2>1, <2>2, <2>6
  <2> HIDE DEF opened, begun
  <2>13. QED
    BY <2>1, <2>9, <2>10, <2>11, <2>12
<1> HIDE DEF opened, begun
<1>10. Talk(opened, m_Http, m_HttpIdle)
  <2>1. Less(opened, Popped)
    BY <1>9, SameAsked DEF Less, Ops, Dones
  <2>2. QED
    BY <1>2, <1>3, <2>1, LessTalk, OpsAre DEF TypedInv, RestOK
<1>11. More(begun, Popped, shake)
  <2>1. Ops(begun) = Ops(Popped) \union {shake}
    BY <1>9 DEF Ops, Dones
  <2>2. QED
    BY <1>9, <2>1, SameAsked DEF More, Like
<1>12. Talk(net', m_Http, m_HttpIdle)
  <2>1. CASE ~IsDestroyed(p) /\ net' = begun
    BY <1>2, <1>3, <1>5, <1>7, <1>11, <2>1, BegunTalk
  <2>2. CASE ~IsDestroyed(p) /\ net' = start_connect(Popped, Connect(slot, p.obj, p.chain, p.i + 1))
    BY <1>2, <1>3, <1>5, <2>2, ConnectTalk
  <2>3. CASE ~IsDestroyed(p) /\ net' = start_connect(opened, Connect(slot, p.obj, p.chain, 1))
    BY <1>2, <1>5, <1>9, <1>10, <2>3, ConnectTalk
  <2>4. CASE net' = start_connect(Popped, Connect(slot, Current(slot), p.chain, 1))
    BY <1>2, <1>3, <2>4, ConnectTalk
  <2>5. QED
    BY <1>4, <2>1, <2>2, <2>3, <2>4 DEF opened, begun
<1>13. QED
  BY <1>8, <1>12 DEF TalkNow

\* The end of a handshake: the log in by itself, or the idle request.
LEMMA handleHandshakeTalk ==
    ASSUME TypedInv, TalkNow, NEW slot \in Slots, handleHandshake(slot)
    PROVE  TalkNow'
<1>1. Handles("handshake", slot)
  BY DEF handleHandshake
<1>2. NetOK(Popped) /\ Completion.p.chain \in 0 .. MaxChains
  BY <1>1, HandledIs
<1>3. Talk(Popped, m_Http, m_HttpIdle)
  BY <1>1, PoppedSays DEF Handles
<1>4. UNCHANGED <<m_Http, m_HttpIdle>>
  BY DEF handleHandshake
<1>5. m_Http \in Objects /\ m_HttpIdle \in Objects
  BY DEF TypedInv, RestOK
<1>6. CASE Reconnect(slot, Completion.p.chain)
  BY <1>2, <1>3, <1>4, <1>6, ConnectTalk DEF Reconnect, TalkNow
<1>7. CASE onHttpConnect
  <2> DEFINE req == Request("LOGIN", "USER_LOGIN", build_user_pass_body(Me, m_Password),
                            <<"login", Me, m_Password>>)
  <2>1. \/ net' = Popped
        \/ sendRequest(Popped, req)
    BY <1>7 DEF onHttpConnect
  <2>2. Understood(req)
    BY UnderstoodUser
  <2>3. req.cmd \in Parsable
    BY DEF Request, Parsable, Commands
  <2> HIDE DEF req
  <2>4. Talk(net', m_Http, m_HttpIdle)
    BY <1>2, <1>3, <1>5, <2>1, <2>2, <2>3, SendTalk
  <2>5. QED
    BY <1>4, <2>4 DEF TalkNow
<1>8. CASE onHttpIdleConnect
  <2> DEFINE req == Request("NONE", "IDLE",
                            build_user_send_msg_body(m_SelfId, m_HeartBit, <<>>, <<>>,
                                                     m_Password), <<"idle">>)
             p == Op("write", "idle", m_HttpIdle, 0, 0, req)
  <2>1. net' = StartIo(Popped, p)
    BY <1>8 DEF onHttpIdleConnect
  <2>2. req.cmd \in Parsable
    BY DEF Request, Parsable
  <2> HIDE DEF req
  <2>3. OpOK(p) /\ p.slot = "idle" /\ p.obj = m_HttpIdle
    BY <1>5, <2>2, OpIs, ConstantsAre DEF Op
  <2> HIDE DEF p
  <2>4. More(net', Popped, p)
    BY <1>2, <2>1, <2>3, StartIoMore
  <2>5. p.slot \in Slots /\ p.obj = IF p.slot = "http" THEN m_Http ELSE m_HttpIdle
    BY <2>3, ConstantsAre
  <2>6. \A q \in Ops(Popped) : q.obj \in Objects
    BY <1>2, OpsAre
  <2>7. Talk(net', m_Http, m_HttpIdle)
    BY <1>3, <1>5, <2>3, <2>4, <2>5, <2>6, MoreTalk
  <2>8. QED
    BY <1>4, <2>7 DEF TalkNow
<1>9. QED
  BY <1>6, <1>7, <1>8 DEF handleHandshake

\* The end of a write: the read of the current connection.
LEMMA onWriteTalk ==
    ASSUME TypedInv, TalkNow, NEW slot \in Slots, onWrite(slot)
    PROVE  TalkNow'
<1>1. Handles("write", slot)
  BY DEF onWrite
<1>2. NetOK(Popped) /\ Completion.p.req.cmd \in Parsable
  BY <1>1, HandledIs
<1>3. Talk(Popped, m_Http, m_HttpIdle)
  BY <1>1, PoppedSays DEF Handles
<1>4. net' \in {Popped, StartIo(Popped, Op("read", slot, Current(slot), 0, 0, Completion.p.req))}
  BY DEF onWrite
<1>5. UNCHANGED <<m_Http, m_HttpIdle>>
  BY DEF onWrite
<1>6. QED
  BY <1>2, <1>3, <1>4, <1>5, ReadTalk DEF TalkNow

\* A connection that is not in use.
LEMMA NewIsUnused ==
    ASSUME NEW n, NetOK(n), NEW taken, Unused(n) \ taken # {}
    PROVE  /\ createConnect(n, taken) \in Objects
           /\ createConnect(n, taken) \notin taken \union {m_Http, m_HttpIdle}
           /\ \A q \in Ops(n) : q.obj # createConnect(n, taken)
<1>1. Unused(n) \ taken \in SUBSET Nat
  BY DEF Unused, Objects
<1>2. createConnect(n, taken) \in Unused(n) \ taken
  BY <1>1, LeastOfIn DEF createConnect
<1>3. \A q \in Ops(n) : q.obj \in InUse(n)
  BY DEF Ops, Dones, InUse
<1>4. QED
  BY <1>2, <1>3 DEF Unused

\* A new m_Http is in use for nothing else.
LEMMA onHttpReadErrorTalk ==
    ASSUME TypedInv, TalkNow, onHttpReadError
    PROVE  TalkNow'
<1> DEFINE new == createConnect(Popped, {})
           made == Destroy(Popped, m_Http)
           chain == LeastOf(FreeChains(made, "http"))
           p == Connect("http", new, chain, 1)
<1>1. Handles("read", "http")
  BY DEF onHttpReadError
<1>2. NetOK(Popped) /\ m_Http \in Objects /\ net.ready # <<>>
  BY <1>1, HandledIs, ConstantsAre DEF TypedInv, RestOK, Handles
<1>3. Talk(Popped, m_Http, m_HttpIdle)
  BY <1>2, PoppedSays
<1>4. /\ FreeChains(made, "http") # {} /\ Unused(Popped) # {}
      /\ net' = start_connect(made, p) /\ m_Http' = new /\ m_HttpIdle' = m_HttpIdle
  BY DEF onHttpReadError
<1>5. new \in Objects /\ new # m_HttpIdle /\ \A q \in Ops(Popped) : q.obj # new
  <2>1. Unused(Popped) \ {} # {}
    BY <1>4
  <2>2. QED
    BY <1>2, <2>1, NewIsUnused
<1>6. NetOK(made) /\ Less(made, Popped)
  BY <1>2, DestroyIs, DestroyLess
<1>7. chain \in 0 .. MaxChains
  BY <1>4, FreeChain
<1> HIDE DEF new, made, chain
<1>8. OpOK(p)
  BY <1>5, <1>7, OpIs, ConstantsAre DEF Connect, NoRequest, Parsable
<1>9. p.slot = "http" /\ p.obj = new /\ p.op = "connect"
  BY DEF Connect, Op
<1> HIDE DEF p
<1>10. More(net', made, p) /\ net'.asked[new] = <<>>
  BY <1>4, <1>6, <1>8, <1>9, start_connectMore
<1>11. Talk(made, m_Http, m_HttpIdle)
  BY <1>2, <1>3, <1>6, LessTalk, OpsAre
<1>12. \A q \in Ops(made) : q.obj # new /\ q.obj \in Objects
  BY <1>5, <1>6, OpsAre DEF Less
<1>13. Talk(net', new, m_HttpIdle)
  BY <1>2, <1>5, <1>9, <1>10, <1>11, <1>12, RenewedTalk
<1>14. QED
  BY <1>4, <1>13 DEF TalkNow

\* The answer to LOGIN begins a connect of m_HttpIdle.
LEMMA onHttpReadLoginTalk ==
    ASSUME TypedInv, TalkNow, onHttpReadLogin
    PROVE  TalkNow'
<1>1. Handles("read", "http")
  BY DEF onHttpReadLogin
<1>2. NetOK(Popped) /\ net.ready # <<>>
  BY <1>1, HandledIs, ConstantsAre DEF Handles
<1>3. Talk(Popped, m_Http, m_HttpIdle)
  BY <1>2, PoppedSays
<1>4. UNCHANGED <<m_Http, m_HttpIdle>>
  BY DEF onHttpReadLogin
<1>5. CASE net' = Popped
  BY <1>3, <1>4, <1>5 DEF TalkNow
<1>6. CASE /\ FreeChains(Popped, "idle") # {}
           /\ net' = start_connect(Popped,
                         Connect("idle", m_HttpIdle, LeastOf(FreeChains(Popped, "idle")), 1))
  <2>1. LeastOf(FreeChains(Popped, "idle")) \in 0 .. MaxChains
    BY <1>6, FreeChain
  <2>2. Current("idle") = m_HttpIdle /\ "idle" \in Slots
    BY ConstantsAre DEF Current
  <2>3. Talk(net', m_Http, m_HttpIdle)
    BY <1>2, <1>3, <1>6, <2>1, <2>2, ConnectTalk
  <2>4. QED
    BY <1>4, <2>3 DEF TalkNow
<1>7. QED
  BY <1>5, <1>6 DEF onHttpReadLogin

\* Nor are a new m_Http and a new m_HttpIdle, which are two.
LEMMA onHttpIdleReadErrorTalk ==
    ASSUME TypedInv, TalkNow, onHttpIdleReadError
    PROVE  TalkNow'
<1> DEFINE newIdle == createConnect(Popped, {})
           newHttp == createConnect(Popped, {newIdle})
           n1 == Destroy(Popped, m_HttpIdle)
           n2 == Destroy(n1, m_Http)
           chain == LeastOf(FreeChains(n2, "http"))
           p == Connect("http", newHttp, chain, 1)
<1>1. Handles("read", "idle")
  BY DEF onHttpIdleReadError
<1>2. NetOK(Popped) /\ {m_Http, m_HttpIdle} \subseteq Objects /\ net.ready # <<>>
  BY <1>1, HandledIs, ConstantsAre DEF TypedInv, RestOK, Handles
<1>3. Talk(Popped, m_Http, m_HttpIdle)
  BY <1>2, PoppedSays
<1>4. /\ FreeChains(n2, "http") # {} /\ Cardinality(Unused(Popped)) >= 2
      /\ net' = start_connect(n2, p) /\ m_Http' = newHttp /\ m_HttpIdle' = newIdle
  BY DEF onHttpIdleReadError
<1>5. /\ newIdle \in Objects /\ newIdle # m_Http
      /\ \A q \in Ops(Popped) : q.obj # newIdle
  <2>1. Unused(Popped) \ {} # {}
    BY <1>4, TwoNew
  <2>2. QED
    BY <1>2, <2>1, NewIsUnused
<1>6. /\ newHttp \in Objects /\ newHttp # newIdle
      /\ \A q \in Ops(Popped) : q.obj # newHttp
  <2>1. Unused(Popped) \ {newIdle} # {}
    BY <1>4, TwoNew
  <2>2. QED
    BY <1>2, <2>1, NewIsUnused
<1>7. NetOK(n1) /\ Less(n1, Popped)
  BY <1>2, DestroyIs, DestroyLess
<1>8. NetOK(n2) /\ Less(n2, n1)
  BY <1>2, <1>7, DestroyIs, DestroyLess
<1>9. chain \in 0 .. MaxChains
  BY <1>4, FreeChain
<1> HIDE DEF newIdle, newHttp, n1, n2, chain
<1>10. OpOK(p)
  BY <1>6, <1>9, OpIs, ConstantsAre DEF Connect, NoRequest, Parsable
<1>11. p.slot = "http" /\ p.obj = newHttp /\ p.op = "connect"
  BY DEF Connect, Op
<1> HIDE DEF p
<1>12. More(net', n2, p) /\ net'.asked[newHttp] = <<>>
  BY <1>4, <1>8, <1>10, <1>11, start_connectMore
<1>13. Less(n2, Popped)
  BY <1>7, <1>8, LessTransitive
<1>14. Talk(n2, m_Http, m_HttpIdle)
  BY <1>2, <1>3, <1>13, LessTalk, OpsAre
<1>15. \A q \in Ops(n2) : q.obj # newHttp /\ q.obj # newIdle /\ q.obj \in Objects
  BY <1>5, <1>6, <1>8, <1>13, OpsAre DEF Less
<1>16. Talk(n2, m_Http, newIdle)
  BY <1>5, <1>14, <1>15, RenewedIdleTalk
<1>17. Talk(net', newHttp, newIdle)
  BY <1>2, <1>6, <1>11, <1>12, <1>15, <1>16, RenewedTalk
<1>18. QED
  BY <1>4, <1>17 DEF TalkNow

\* The next read of messages.
LEMMA onHttpIdleReadTalk ==
    ASSUME TypedInv, TalkNow, onHttpIdleRead
    PROVE  TalkNow'
<1>1. Handles("read", "idle")
  BY DEF onHttpIdleRead
<1>2. NetOK(Popped) /\ Completion.p.req.cmd \in Parsable /\ net.ready # <<>>
  BY <1>1, HandledIs, ConstantsAre DEF Handles
<1>3. Talk(Popped, m_Http, m_HttpIdle)
  BY <1>2, PoppedSays
<1>4. Current("idle") = m_HttpIdle /\ "idle" \in Slots
  BY ConstantsAre DEF Current
<1>5. net' = StartIo(Popped, Op("read", "idle", m_HttpIdle, 0, 0, Completion.p.req))
  BY DEF onHttpIdleRead
<1>6. UNCHANGED <<m_Http, m_HttpIdle>>
  BY DEF onHttpIdleRead
<1>7. QED
  BY <1>2, <1>3, <1>4, <1>5, <1>6, ReadTalk DEF TalkNow

\* The answers that are shown, and the use of what was destroyed.
LEMMA ShownTalk ==
    ASSUME TypedInv, TalkNow, onHttpReadShow \/ crash
    PROVE  TalkNow'
<1>1. net.ready # <<>> /\ net' = Popped /\ UNCHANGED <<m_Http, m_HttpIdle>>
  BY DEF onHttpReadShow, crash, Handles
<1>2. QED
  BY <1>1, PoppedSays DEF TalkNow

\* Every step of the client.
LEMMA StepTalk ==
    ASSUME WishesAreRead, TypedInv, TalkNow, [Next]_clientVars
    PROVE  TalkNow'
<1>1. CASE UNCHANGED clientVars
  BY <1>1 DEF clientVars, TalkNow
<1>2. ASSUME NEW wish, Type(wish) PROVE TalkNow'
  BY <1>2 DEF Type, TalkNow
<1>3. CASE processQueue
  BY <1>3, processQueueTalk
<1>4. ASSUME NEW p \in net.pending, NetworkDelivers(p) \/ NetworkFails(p) PROVE TalkNow'
  BY <1>4, DeliversTalk, FailsTalk
<1>5. ASSUME NEW o \in Objects, ConnectionDrops(o) PROVE TalkNow'
  BY <1>5, DropsTalk
<1>6. CASE timeoutExpires
  BY <1>6, TimeoutTalk
<1>7. CASE Handler
  <2>1. ASSUME NEW slot \in Slots, handleConnect(slot) \/ handleHandshake(slot) \/ onWrite(slot)
        PROVE  TalkNow'
    BY <2>1, handleConnectTalk, handleHandshakeTalk, onWriteTalk
  <2>2. QED
    BY <1>7, <2>1, onHttpReadErrorTalk, onHttpReadLoginTalk,
       onHttpIdleReadErrorTalk, onHttpIdleReadTalk, ShownTalk DEF Handler
<1>8. QED
  BY <1>1, <1>2, <1>3, <1>4, <1>5, <1>6, <1>7 DEF Next

-----------------------------------------------------------------------------
(* The theorems.                                                           *)

\* Every connection, operation and completion of the client is one of the
\* model, whatever the order of the keyboard, the network and the handlers.
THEOREM ClientInvariant == Spec => []TypedInv
<1>1. Init => TypedInv
  BY InitTyped
<1>2. TypedInv /\ [Next]_clientVars => TypedInv'
  BY StepTyped
<1>3. QED
  BY <1>1, <1>2, PTL DEF Spec

\* ... so that its variables keep to their types.
THEOREM ClientTypes == Spec => []ClientTypeOK
<1>1. TypedInv => ClientTypeOK
  BY TypedIsTypeOK
<1>2. QED
  BY <1>1, ClientInvariant, PTL

\* One who listens never has two operations under way.
THEOREM ListenerInvariant == Spec => []Listener
<1>1. Init => Listener
  BY InitListener
<1>2. TypedInv /\ Listener /\ [Next]_clientVars => Listener'
  BY StepListens
<1>3. QED
  BY <1>1, <1>2, ClientInvariant, PTL DEF Spec

\* What is ready is what his handler finds.
LEMMA ReadyIsCompletion ==
    ASSUME Listener, user = "listens", NEW i \in DOMAIN net.ready
    PROVE  net.ready # <<>> /\ net.ready[i] = Completion
<1>1. net.ready # <<>>
  OBVIOUS
<1>2. net.ready = <<Completion>>
  BY <1>1, OneReady DEF Ready
<1>3. QED
  BY <1>1, <1>2

\* One who listens is never shown an answer as the answer to another command,
\* although m_LastCmd is written on two threads.
THEOREM AnswersMatchCommands == Spec => []AnswerMatchesCommand
<1>1. Listener => AnswerMatchesCommand
  <2> SUFFICES ASSUME Listener, user = "listens", NEW i \in DOMAIN net.ready,
                      net.ready[i].p.slot = "http", net.ready[i].res \in {"200", "bad"}
               PROVE  net.ready[i].req.cmd = m_LastCmd
    BY DEF AnswerMatchesCommand
  <2>1. net.ready # <<>> /\ net.ready[i] = Completion
    BY ReadyIsCompletion
  <2>2. HttpReady(net, Completion)
    BY <2>1, OneReady DEF IdleReady
  <2>3. QED
    BY <2>1, <2>2 DEF HttpReady
<1>2. QED
  BY <1>1, ListenerInvariant, PTL

\* The acknowledgement of an idle request is not shown as a message, and every
\* message is, although the flag outlives the connection it was set for.
THEOREM AcksAreNoMessages == Spec => []AckIsNoMessage
<1>1. Listener => AckIsNoMessage
  <2> SUFFICES ASSUME Listener, user = "listens", net.ready # <<>>,
                      Completion.p.slot = "idle", Completion.res \in {"ack", "msg"}
               PROVE  Completion.res = "ack" <=> ~m_IdleState
    BY DEF AckIsNoMessage
  <2>1. IdleReady(net, Completion)
    BY OneReady DEF HttpReady
  <2>2. Completion.p.op = "read"
    BY <2>1 DEF IdleReady
  <2>3. QED
    BY <2>1, <2>2 DEF IdleReady
<1>2. QED
  BY <1>1, ListenerInvariant, PTL

\* A set within a singleton.
LEMMA AtMostOne ==
    ASSUME NEW S, NEW x, S \subseteq {x}
    PROVE  Cardinality(S) <= 1
<1>1. S = {} \/ S = {x}
  OBVIOUS
<1>2. Cardinality({}) = 0
  BY FS_EmptySet
<1>3. Cardinality({x}) = 1
  BY FS_Singleton
<1>4. QED
  BY <1>1, <1>2, <1>3

\* However often a connect of his fails, it is not begun a second time while
\* the first goes on.
THEOREM ListenerHasOneChain == Spec => []OneChainForListener
<1>1. Listener => OneChainForListener
  <2> SUFFICES ASSUME Listener, user = "listens", NEW slot \in Slots
               PROVE  Cardinality(Chains(net, slot)) <= 1
    BY DEF OneChainForListener, OneChain
  <2>1. \E x : Chains(net, slot) \subseteq {x}
    <3>1. CASE net.pending # {}
      <4>1. PICK p \in net.pending : TRUE
        BY <3>1
      <4>2. Pends(net, p)
        BY OnePending
      <4>3. Chains(net, slot) \subseteq {p.chain}
        BY <4>2 DEF Pends, Chains
      <4>4. QED
        BY <4>3
    <3>2. CASE net.pending = {}
      <4>1. Chains(net, slot) \subseteq {Completion.p.chain}
        BY <3>2, ReadyIsCompletion DEF Chains
      <4>2. QED
        BY <4>1
    <3>3. QED
      BY <3>1, <3>2
  <2>2. QED
    BY <2>1, AtMostOne
<1>2. QED
  BY <1>1, ListenerInvariant, PTL

\* No completion of one who listens reaches an AsyncHttpClient that createConnect
\* has replaced.
THEOREM ListenerNothingDangles == Spec => []NothingDangles
<1>1. Listener => NothingDangles
  <2> SUFFICES ASSUME Listener, user = "listens"
               PROVE  /\ alive # "crashed"
                      /\ \A i \in DOMAIN net.ready : ~Dangling(net.ready[i])
    BY DEF NothingDangles
  <2>1. \A i \in DOMAIN net.ready : ~IsDestroyed(net.ready[i].p)
    BY ReadyIsCompletion, OneReady
  <2>2. QED
    BY <2>1 DEF Listener, Dangling
<1>2. QED
  BY <1>1, ListenerInvariant, PTL

\* If the parser reads every line as the command and the arguments that were typed,
\* the server takes every request for them, for all users, faults and chains: the
\* bodies, the router and parse_meta lose nothing, and neither do the connections
\* that are replaced or the params that earlier requests left.
THEOREM RequestsAreUnderstood ==
    ASSUME WishesAreRead
    PROVE  Spec => []UnderstoodAsTyped
<1>1. Init => TalkNow
  BY InitTalk
<1>2. TypedInv /\ TalkNow /\ [Next]_clientVars => TalkNow'
  BY StepTalk
<1>3. TalkNow => UnderstoodAsTyped
  BY DEF TalkNow, Talk, Dones, AnswerRight, Understands, UnderstoodAsTyped
<1>4. QED
  BY <1>1, <1>2, <1>3, ClientInvariant, PTL DEF Spec
=============================================================================
