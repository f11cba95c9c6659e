----------------------------- MODULE MCApiClient -----------------------------
(* The server on small instances: alice and bob are registered, and two or   *)
(* three connections make the requests listed per instance.                  *)
EXTENDS ApiClient

MCNames == {"", "alice", "bob", "carol"}
MCHashes == {"crc", "crc2"}
MCPasswords == {"", "pass", "wrong"}
MCCrc32 == [p \in MCPasswords |-> IF p = "pass" THEN "crc" ELSE "crc2"]
MCTexts == {"", "hi"}
MCTime == 0 .. 2
MCShortTime == 0 .. 1
MCWord == 8

MCNoParams == [uid |-> 0, ts |-> 0, count |-> 0, message |-> "", to_user |-> "",
               user |-> "", chatname |-> "", adduser |-> "", password |-> ""]

Populated ==
    /\ users = <<[id |-> 1, self_chat_id |-> 1, heartbit |-> 0,
                  name |-> "alice", password |-> "crc"],
                 [id |-> 2, self_chat_id |-> 2, heartbit |-> 0,
                  name |-> "bob", password |-> "crc"]>>
    /\ chats = <<[id |-> 1, name |-> "alice"], [id |-> 2, name |-> "bob"]>>
    /\ chatuser = <<[chatid |-> 1, uid |-> 1], [chatid |-> 2, uid |-> 2]>>
    /\ messages = <<>>
    /\ user_autoincrement = 3
    /\ chat_autoincrement = 3

\* No connection yet.
MCInit == Populated /\ WorkerInit /\ SessionInit
MCSpec == MCInit /\ [][Next]_vars
MCFairSpec == MCSpec /\ Fairness

\* Every connection has finished its handshake.
ConnectedInit ==
    /\ Populated /\ WorkerInit
    /\ conn = [c \in Clients |-> "open"]
    /\ reads = [c \in Clients |-> 1]
    /\ armed = [c \in Clients |-> FALSE]
    /\ fired = [c \in Clients |-> 0]
    /\ details = [c \in Clients |-> [cmd |-> "none", params |-> NoParams]]
    /\ newest = [c \in Clients |-> 0]
    /\ pingAge = [c \in Clients |-> PingPeriod + 1]
    /\ asked = [c \in Clients |-> 0]
    /\ notified = [c \in Clients |-> {}]
ConnectedSpec == ConnectedInit /\ [][Next]_vars
ConnectedFairSpec == ConnectedSpec /\ Fairness

-----------------------------------------------------------------------------
(* Requests.                                                                 *)

Ask(cmd, params, given) ==
    [cmd |-> cmd, params |-> params, given |-> given \cup {"password"},
     valid |-> TRUE]

As(uid) == [MCNoParams EXCEPT !.uid = uid, !.password = "pass"]

Login(name, pass) ==
    Ask("USER_LOGIN", [MCNoParams EXCEPT !.user = name, !.password = pass], {"user"})
Send(uid, name, text) ==
    Ask("MESSAGE_SEND", [As(uid) EXCEPT !.to_user = name, !.message = text],
        {"uid", "to_user", "message"})
Idle(uid, pass) ==
    Ask("IDLE", [As(uid) EXCEPT !.password = pass], {"uid"})
IdleFrom(uid, ts) ==
    Ask("IDLE", [As(uid) EXCEPT !.ts = ts], {"uid", "ts"})
History(uid, name, count) ==
    Ask("USER_HISTORY", [As(uid) EXCEPT !.user = name, !.count = count],
        {"uid", "user", "count"})
GroupHistory(uid) == Ask("CHAT_HISTORY", As(uid), {"uid"})
NoMessage(uid) ==
    [Ask("MESSAGE_SEND", As(uid), {"uid"}) EXCEPT !.valid = FALSE]
NoSuchResource == [Ask("none", MCNoParams, {}) EXCEPT !.valid = FALSE]

\* Two connections with requests of every outcome.
MixedRequests ==
    [c \in {"c1", "c2"} |->
        CASE c = "c1" -> {Send(1, "bob", "hi"), GroupHistory(1)}
          [] c = "c2" -> {Idle(2, "pass"), Login("bob", "wrong"), NoMessage(2),
                          NoSuchResource}]

\* alice sends, bob is idle.
IdleRequests ==
    [c \in {"c1", "c2"} |->
        CASE c = "c1" -> {Send(1, "bob", "hi")}
          [] c = "c2" -> {Idle(2, "pass")}]

\* A connection whose /v1/idle is rejected, and which then sends a message.
RejectedRequests ==
    [c \in {"c1", "c2"} |->
        CASE c = "c1" -> {Idle(1, "wrong"), Send(1, "bob", "hi")}
          [] c = "c2" -> {}]
=============================================================================
