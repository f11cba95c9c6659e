----------------------------- MODULE ChatService -----------------------------
(***************************************************************************)
(* What the chat server promises its clients: a request has one effect, at *)
(* one moment between the moment it is made and its answer, although       *)
(* processQueue works on it in up to six lock regions of the storage and   *)
(* other threads work on other requests in between.                        *)
(*                                                                         *)
(* Not everything a request refers to is looked at in the moment of its    *)
(* effect.  Names may be looked up earlier, against the tables as they     *)
(* were at any moment since the request; `since' remembers how long the    *)
(* tables were.  A message may be stamped with any time since the request. *)
(* A poll looks at the user's chats, and a history at its two directions,  *)
(* each at a moment of its own.                                            *)
(***************************************************************************)
EXTENDS Storage

CONSTANTS Clients, Tasks, Passwords, Crc32, Word

VARIABLES
    now,
    submitted,   \* per client, the request it has made
    since,       \* per client, the state it was made in
    answer       \* per client, "none", the answer, or "silence"

serviceVars == <<storageVars, now, submitted, since, answer>>

NoTask == [cmd |-> "none"]
None == [handler |-> "none"]
Silence == [handler |-> "silence"]

Moment == [users |-> Len(users), chats |-> Len(chats), rows |-> Len(chatuser),
           log |-> Len(messages), now |-> now]

\* With any tables: the server may have been running for a while.
Init ==
    /\ StorageTypeOK
    /\ now \in Time
    /\ submitted = [c \in Clients |-> NoTask]
    /\ since = [c \in Clients |-> Moment]
    /\ answer = [c \in Clients |-> None]

Ask(c) ==
    /\ submitted[c] = NoTask
    /\ \E t \in Tasks : submitted' = [submitted EXCEPT ![c] = t]
    /\ since' = [since EXCEPT ![c] = Moment]
    /\ UNCHANGED <<storageVars, now, answer>>

Tick ==
    /\ now' = now + 1
    /\ UNCHANGED <<storageVars, submitted, since, answer>>

-----------------------------------------------------------------------------
(* Requests under way.                                                       *)

Asks(c, cmds) == submitted[c].cmd \in cmds /\ answer[c] = None

Req(c) == submitted[c].request

Reply(c, r) ==
    /\ answer' = [answer EXCEPT ![c] = r]
    /\ UNCHANGED <<now, submitted, since>>

Status(s) == [handler |-> "cmd", status |-> s, msgs |-> {}, heartbit |-> 0]

Given(handler, msgs) ==
    [handler |-> handler, status |-> "ok", msgs |-> msgs, heartbit |-> 0]

\* What the clock may have shown since the request.
TimesSince(c) == since[c].now .. now

\* The rows that were there when the table had that length.
Before(rows, length) == {i \in rows : i <= length}

HasPassword(c, i) == users[i].password = Crc32[Req(c).password]

Me(c) == lookupUserById(Req(c).uid)

Authorized(c) == \E i \in Me(c) : HasPassword(c, i)

WithUid == {"IDLE", "USER_STATUS", "USER_HISTORY", "MESSAGE_SEND", "CHAT_CREATE",
            "CHAT_ADDUSER", "MESSAGE_SEND_CHAT"}

NotAuthorized(c) ==
    /\ Asks(c, WithUid)
    /\ \/ Before(Me(c), since[c].users) = {}
          /\ Reply(c, Status("user does not exist"))
       \/ \E i \in Me(c) : ~HasPassword(c, i)
          /\ Reply(c, Status("wrong password"))
    /\ UNCHANGED storageVars

\* The user a request names.
PeerName(c) == CASE submitted[c].cmd = "MESSAGE_SEND" -> Req(c).to_user
                 [] submitted[c].cmd = "CHAT_ADDUSER" -> Req(c).adduser
                 [] OTHER                             -> Req(c).user

Peer(c) == lookupUserByName(PeerName(c))

NamesPeer == {"USER_LOGIN", "USER_STATUS", "USER_HISTORY", "MESSAGE_SEND",
              "CHAT_ADDUSER"}

NoSuchUser(c) ==
    /\ Asks(c, NamesPeer)
    /\ submitted[c].cmd \in WithUid => Authorized(c)
    /\ Before(Peer(c), since[c].users) = {}
    /\ Reply(c, Status("user does not exist"))
    /\ UNCHANGED storageVars

\* A chat is found while it is the only one of its name.
OnlyChat(c, d) ==
    LET named == lookupChatByName(Req(c).chatname)
    IN  /\ d \in named
        /\ \A e \in named : d <= e
        /\ Cardinality(Before(named, since[c].chats)) <= 1

NoSuchChat(c) ==
    LET named == lookupChatByName(Req(c).chatname)
    IN  /\ Asks(c, {"CHAT_ADDUSER", "MESSAGE_SEND_CHAT"})
        /\ Authorized(c)
        /\ submitted[c].cmd = "CHAT_ADDUSER" => Peer(c) # {}
        /\ {Cardinality(named), Cardinality(Before(named, since[c].chats))} # {1}
        /\ Reply(c, Status("chat does not exist"))
        /\ UNCHANGED storageVars

-----------------------------------------------------------------------------
(* Requests that change a table.                                             *)

CreateUser(c) ==
    /\ Asks(c, {"USER_CREATE"})
    /\ \/ /\ createUser(Req(c).user, Crc32[Req(c).password])
          /\ Reply(c, Status("ok"))
       \/ /\ lookupUserByName(Req(c).user) # {}
          /\ Reply(c, Status("user already exists"))
          /\ UNCHANGED storageVars

CreateChat(c) ==
    /\ Asks(c, {"CHAT_CREATE"})
    /\ Authorized(c)
    /\ \/ /\ createChat(Req(c).chatname, Req(c).uid)
          /\ Reply(c, Status("ok"))
       \/ /\ lookupChatByName(Req(c).chatname) # {}
          /\ Reply(c, Status("chat already exists"))
          /\ UNCHANGED storageVars

AddUser(c) ==
    /\ Asks(c, {"CHAT_ADDUSER"})
    /\ Authorized(c)
    /\ \E i \in Peer(c), d \in DOMAIN chats :
         OnlyChat(c, d) /\ addUserToChat(chats[d].id, users[i].id)
    /\ Reply(c, Status("ok"))

Send(c) ==
    /\ Asks(c, {"MESSAGE_SEND"})
    /\ Authorized(c)
    /\ \E i \in Peer(c), ts \in TimesSince(c) :
         saveMessage(Req(c).uid, users[i].self_chat_id, ts, Req(c).message)
    /\ Reply(c, Status("ok"))

SendChat(c) ==
    /\ Asks(c, {"MESSAGE_SEND_CHAT"})
    /\ Authorized(c)
    /\ \E d \in DOMAIN chats, ts \in TimesSince(c) :
         OnlyChat(c, d) /\ saveMessage(Req(c).uid, chats[d].id, ts, Req(c).message)
    /\ Reply(c, Status("ok"))

-----------------------------------------------------------------------------
(* Requests that read.                                                       *)

\* LOGIN and STATUS: the heartbit is the one of the moment of the answer.
Tell(c) ==
    /\ Asks(c, {"USER_LOGIN", "USER_STATUS"})
    /\ submitted[c].cmd = "USER_STATUS" => Authorized(c)
    /\ \E i \in Peer(c) :
         IF submitted[c].cmd = "USER_STATUS" \/ HasPassword(c, i)
         THEN Reply(c, [Status("ok") EXCEPT !.heartbit = users[i].heartbit])
         ELSE Reply(c, Status("wrong password"))
    /\ UNCHANGED storageVars

\* While it polls, a user is seen at a time since the poll, and messages of the
\* user's chats become READ.
Polls(c) ==
    /\ Asks(c, {"IDLE"})
    /\ Authorized(c)
    /\ \/ \E ts \in TimesSince(c) : updateUserHeartBit(Req(c).uid, ts)
       \/ \E row \in lookupChatsForUserId(Req(c).uid) :
            getMessages(chatuser[row].chatid, Req(c).ts, MessageLimit)
    /\ UNCHANGED <<now, submitted, since, answer>>

\* The three latest new messages of a chat, as of some moment since the poll.
NewIn(c, row) ==
    {{row} \X Latest({i \in 1 .. n : /\ messages[i].chat_to = chatuser[row].chatid
                                     /\ messages[i].ts > Req(c).ts}, MessageLimit) :
       n \in since[c].log .. Len(messages)}

\* The answer to a poll, or none when there is nothing new: every chat the user
\* was in when it polled, and perhaps some that it has entered since.
EndPoll(c) ==
    LET mine == lookupChatsForUserId(Req(c).uid)
    IN  /\ Asks(c, {"IDLE"})
        /\ Authorized(c)
        /\ \E m \in since[c].rows .. Len(chatuser) :
           \E new \in [Before(mine, m) ->
                         UNION {NewIn(c, row) : row \in Before(mine, m)}] :
             LET msgs == UNION {new[row] : row \in Before(mine, m)}
             IN  /\ \A row \in Before(mine, m) : new[row] \in NewIn(c, row)
                 /\ IF msgs # {} \/ submitted[c].ping
                    THEN Reply(c, Given("idle", msgs))
                    ELSE Reply(c, Silence)
        /\ UNCHANGED storageVars

\* What one of two users has sent to the other, as of some moment.
SentTo(c, dir, from, chatid) ==
    {{dir} \X Latest({i \in 1 .. n : /\ messages[i].user_from = from
                                     /\ messages[i].chat_to = chatid},
                     (2 * Req(c).count) % Word) :
       n \in since[c].log .. Len(messages)}

\* The `count' newest of those.
History(c) ==
    /\ Asks(c, {"USER_HISTORY"})
    /\ Authorized(c)
    /\ \E i \in Me(c), j \in Peer(c) :
       \E to \in SentTo(c, 1, users[i].id, users[j].self_chat_id),
          from \in SentTo(c, 2, users[j].id, users[i].self_chat_id) :
       \E msgs \in SUBSET (to \cup from) :
         LET left == (to \cup from) \ msgs
             ts(m) == messages[m[2]].ts
         IN  /\ Cardinality(msgs) <= Req(c).count
             /\ left # {} => Cardinality(msgs) = Req(c).count
             /\ \A m \in msgs, n \in left : ts(m) >= ts(n)
             /\ Reply(c, Given("cmd", msgs))
    /\ UNCHANGED storageVars

\* The history of a group is asked in vain.
GroupHistory(c) ==
    /\ Asks(c, {"CHAT_HISTORY"})
    /\ Reply(c, Silence)
    /\ UNCHANGED storageVars

Serve(c) ==
    \/ Ask(c) \/ NotAuthorized(c) \/ NoSuchUser(c) \/ NoSuchChat(c)
    \/ CreateUser(c) \/ CreateChat(c) \/ AddUser(c) \/ Send(c) \/ SendChat(c)
    \/ Tell(c) \/ Polls(c) \/ EndPoll(c) \/ History(c) \/ GroupHistory(c)

Next == Tick \/ \E c \in Clients : Serve(c)

Spec == Init /\ [][Next]_serviceVars
=============================================================================
