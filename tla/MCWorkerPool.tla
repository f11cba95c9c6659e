---------------------------- MODULE MCWorkerPool ----------------------------
(* WorkerPool on small instances.  The server has been running for a while:  *)
(* alice and bob are registered and alice has made the group "chess", which  *)
(* bob is in; bob has three messages from alice that he has not read.  Each  *)
(* client is given the requests it may make.  The threads are alike, and the *)
(* properties of these runs are about safety only.                           *)
EXTENDS WorkerPool, TLC

MCNames == {"alice", "bob", "chess", "carol"}
MCHashes == {"crc", "crc2"}
MCPasswords == {"pass", "pass2", "wrong"}
MCCrc32 == [p \in MCPasswords |-> IF p = "wrong" THEN "crc2" ELSE "crc"]
MCTexts == {"none", "c1", "c2", "c3"}
MCTime == 0 .. 2
MCWord == 8

Populated ==
    /\ users = <<[id |-> 1, self_chat_id |-> 1, heartbit |-> 0,
                  name |-> "alice", password |-> "crc"],
                 [id |-> 2, self_chat_id |-> 3, heartbit |-> 0,
                  name |-> "bob", password |-> "crc"]>>
    /\ chats = <<[id |-> 1, name |-> "alice"], [id |-> 2, name |-> "chess"],
                 [id |-> 3, name |-> "bob"]>>
    /\ chatuser = <<[chatid |-> 1, uid |-> 1], [chatid |-> 2, uid |-> 1],
                    [chatid |-> 3, uid |-> 2], [chatid |-> 2, uid |-> 2]>>
    /\ messages = [i \in 1 .. 3 |->
                     [flags |-> "UNREAD", user_from |-> 1, chat_to |-> 3,
                      ts |-> 1, message |-> "none"]]
    /\ user_autoincrement = 3
    /\ chat_autoincrement = 4

MCInit == Populated /\ PoolInit

Threads == Permutations(Workers)

MCSpec == MCInit /\ [][PoolNext]_poolVars

-----------------------------------------------------------------------------
(* Requests.                                                                 *)

Base == [uid |-> 0, ts |-> 0, count |-> 0, message |-> "none",
         to_user |-> "alice", user |-> "alice", chatname |-> "chess",
         adduser |-> "alice", password |-> "pass"]

Ask(cmd, request) ==
    [cmd |-> cmd, request |-> request, ping |-> FALSE, client |-> "c1"]

For(requests) == [c \in DOMAIN requests |->
                    {[t EXCEPT !.client = c] : t \in requests[c]}]

Register(name, pass) ==
    Ask("USER_CREATE", [Base EXCEPT !.user = name, !.password = pass])
Login(name, pass) ==
    Ask("USER_LOGIN", [Base EXCEPT !.user = name, !.password = pass])
NewGroup(uid, name) ==
    Ask("CHAT_CREATE", [Base EXCEPT !.uid = uid, !.chatname = name])
Invite(uid, name, chat) ==
    Ask("CHAT_ADDUSER",
        [Base EXCEPT !.uid = uid, !.adduser = name, !.chatname = chat])
Send(uid, name, text) ==
    Ask("MESSAGE_SEND",
        [Base EXCEPT !.uid = uid, !.to_user = name, !.message = text])
SendChat(uid, chat, text) ==
    Ask("MESSAGE_SEND_CHAT",
        [Base EXCEPT !.uid = uid, !.chatname = chat, !.message = text])
Poll(uid, ts, ping) ==
    [Ask("IDLE", [Base EXCEPT !.uid = uid, !.ts = ts]) EXCEPT !.ping = ping]
History(uid, name, count) ==
    Ask("USER_HISTORY", [Base EXCEPT !.uid = uid, !.user = name, !.count = count])
Status(uid, name) == Ask("USER_STATUS", [Base EXCEPT !.uid = uid, !.user = name])
GroupHistory(uid) == Ask("CHAT_HISTORY", [Base EXCEPT !.uid = uid])

\* Three clients fight over one name, "carol".
NameRequests ==
    For([c \in {"c1", "c2", "c3"} |->
        CASE c = "c1" -> {Register("carol", "pass"), NewGroup(1, "carol")}
          [] c = "c2" -> {Register("carol", "wrong"), NewGroup(2, "carol"),
                          Invite(1, "bob", "carol"), Login("carol", "pass2")}
          [] c = "c3" -> {Register("carol", "pass2"), Invite(2, "carol", "carol"),
                          SendChat(1, "carol", "c3"), Send(7, "carol", "c3")}])

\* Two senders and a reader.
MailRequests ==
    For([c \in {"c1", "c2", "c3"} |->
        CASE c = "c1" -> {Send(1, "bob", "c1"), SendChat(1, "chess", "c1")}
          [] c = "c2" -> {Send(2, "alice", "c2"), Send(1, "bob", "c2")}
          [] c = "c3" -> {Poll(2, 0, FALSE), Poll(2, 1, TRUE), Status(1, "bob"),
                          History(1, "bob", 1), History(2, "bob", 1),
                          GroupHistory(1)}])

MCWorkloads == {NameRequests, MailRequests}
NameWorkloads == {NameRequests}
=============================================================================
