------------------------------- MODULE Storage -------------------------------
(***************************************************************************)
(* The in-memory storage of the chat server: InMemoryConnection of         *)
(* server/src/inmemory_dbconn.cpp over the tables of database.hpp.         *)
(*                                                                         *)
(* Every operation that changes a table holds the one static mutex from    *)
(* its first to its last line, so each is one action.  A table is a        *)
(* std::vector that only grows, hence a sequence; a lookup returns the     *)
(* positions of the rows it would copy.  Names, password hashes and        *)
(* message bodies are opaque values.                                       *)
(***************************************************************************)
EXTENDS Integers, Sequences, FiniteSets

CONSTANTS
    Names,    \* names of users and of group chats: one name space
    Hashes,   \* std::to_string(utils::crc32(password))
    Texts,    \* message bodies
    Time      \* what time(NULL) can return, and 0, "never"

ASSUME StorageAssumption == Time \subseteq Nat /\ 0 \in Time

VARIABLES
    users, chats, chatuser, messages,     \* the four tables
    user_autoincrement, chat_autoincrement

storageVars == <<users, chats, chatuser, messages,
                 user_autoincrement, chat_autoincrement>>

-----------------------------------------------------------------------------
(* Row types (database.hpp).  An id of 0 is "no such row".                   *)

Flags == {"UNREAD", "READ"}
MessageLimit == 3                  \* get_msg_opt_t::max_count

User == [id : Nat, self_chat_id : Nat, heartbit : Time,
         name : Names, password : Hashes]
Chat == [id : Nat, name : Names]
Chatuser == [chatid : Nat, uid : Nat]
Message == [flags : Flags, user_from : Nat, chat_to : Nat, ts : Time,
            message : Texts]

\* Slip: the counters start at 0, the id that means "not found".
StorageInitAtZero ==
    /\ users = <<>> /\ chats = <<>> /\ chatuser = <<>> /\ messages = <<>>
    /\ user_autoincrement = 0
    /\ chat_autoincrement = 0

StorageInit ==
    /\ users = <<>>
    /\ chats = <<>>
    /\ chatuser = <<>>
    /\ messages = <<>>
    /\ user_autoincrement = 1
    /\ chat_autoincrement = 1

-----------------------------------------------------------------------------
(* Lookups: the positions of the rows found.                                 *)

\* The first user with that id, the one lookupUserById returns.
lookupUserById(id) ==
    {i \in DOMAIN users : /\ users[i].id = id
                          /\ \A j \in 1 .. i - 1 : users[j].id # id}

lookupUserByName(name) == {i \in DOMAIN users : users[i].name = name}

lookupChatByName(name) == {i \in DOMAIN chats : chats[i].name = name}

\* Slip: the other column is compared.
lookupChatsForUserIdColumn(uid) ==
    {i \in DOMAIN chatuser : chatuser[i].chatid = uid}

\* The rows of chatuser that lookupChatsForUserId walks in its first phase.
lookupChatsForUserId(uid) == {i \in DOMAIN chatuser : chatuser[i].uid = uid}

\* The max_count rows of S nearest to the end of the table (0: all of them).
Latest(S, max_count) ==
    {i \in S : \/ max_count = 0
               \/ Cardinality({j \in S : j > i}) < max_count}

\* The rows getMessages returns.
Newer(chatid, ts, max_count) ==
    Latest({i \in DOMAIN messages : /\ messages[i].chat_to = chatid
                                    /\ messages[i].ts > ts}, max_count)

\* The rows selectMessages returns for the predicates USER_HISTORY passes.
selectMessages(from, chatid, max_count) ==
    Latest({i \in DOMAIN messages : /\ messages[i].user_from = from
                                    /\ messages[i].chat_to = chatid}, max_count)

-----------------------------------------------------------------------------
(* Operations that change a table.                                           *)

updateUserHeartBit(id, ts) ==
    /\ users' = [i \in DOMAIN users |->
                   IF i \in lookupUserById(id)
                   THEN [users[i] EXCEPT !.heartbit = ts]
                   ELSE users[i]]
    /\ UNCHANGED <<chats, chatuser, messages,
                   user_autoincrement, chat_autoincrement>>

\* Slips: no search for the name; no row in chatuser.
createUserUnchecked(name, pass) ==
    /\ chat_autoincrement' = chat_autoincrement + 1
    /\ user_autoincrement' = user_autoincrement + 1
    /\ chats' = Append(chats, [id |-> chat_autoincrement, name |-> name])
    /\ users' = Append(users, [id |-> user_autoincrement,
                               self_chat_id |-> chat_autoincrement,
                               heartbit |-> 0, name |-> name, password |-> pass])
    /\ chatuser' = Append(chatuser, [chatid |-> chat_autoincrement,
                                     uid |-> user_autoincrement])
    /\ UNCHANGED messages

createUserUnlinked(name, pass) ==
    /\ lookupUserByName(name) = {}
    /\ chat_autoincrement' = chat_autoincrement + 1
    /\ user_autoincrement' = user_autoincrement + 1
    /\ chats' = Append(chats, [id |-> chat_autoincrement, name |-> name])
    /\ users' = Append(users, [id |-> user_autoincrement,
                               self_chat_id |-> chat_autoincrement,
                               heartbit |-> 0, name |-> name, password |-> pass])
    /\ UNCHANGED <<chatuser, messages>>

createUser(name, pass) ==
    /\ lookupUserByName(name) = {}
    /\ chat_autoincrement' = chat_autoincrement + 1
    /\ user_autoincrement' = user_autoincrement + 1
    /\ chats' = Append(chats, [id |-> chat_autoincrement, name |-> name])
    /\ users' = Append(users, [id |-> user_autoincrement,
                               self_chat_id |-> chat_autoincrement,
                               heartbit |-> 0,
                               name |-> name,
                               password |-> pass])
    /\ chatuser' = Append(chatuser, [chatid |-> chat_autoincrement,
                                     uid |-> user_autoincrement])
    /\ UNCHANGED messages

\* Slips: the counter is not advanced; the name is not looked for; the
\* membership is written with the counter after its increment.
createChatSameId(name, uid) ==
    /\ lookupChatByName(name) = {}
    /\ chats' = Append(chats, [id |-> chat_autoincrement, name |-> name])
    /\ chatuser' = Append(chatuser, [chatid |-> chat_autoincrement, uid |-> uid])
    /\ UNCHANGED <<users, messages, user_autoincrement, chat_autoincrement>>

createChatUnchecked(name, uid) ==
    /\ chat_autoincrement' = chat_autoincrement + 1
    /\ chats' = Append(chats, [id |-> chat_autoincrement, name |-> name])
    /\ chatuser' = Append(chatuser, [chatid |-> chat_autoincrement, uid |-> uid])
    /\ UNCHANGED <<users, messages, user_autoincrement>>

createChatNextId(name, uid) ==
    /\ lookupChatByName(name) = {}
    /\ chat_autoincrement' = chat_autoincrement + 1
    /\ chats' = Append(chats, [id |-> chat_autoincrement, name |-> name])
    /\ chatuser' = Append(chatuser, [chatid |-> chat_autoincrement', uid |-> uid])
    /\ UNCHANGED <<users, messages, user_autoincrement>>

createChat(name, uid) ==
    /\ lookupChatByName(name) = {}
    /\ chat_autoincrement' = chat_autoincrement + 1
    /\ chats' = Append(chats, [id |-> chat_autoincrement, name |-> name])
    /\ chatuser' = IF uid > 0
                   THEN Append(chatuser, [chatid |-> chat_autoincrement,
                                          uid |-> uid])
                   ELSE chatuser
    /\ UNCHANGED <<users, messages, user_autoincrement>>

\* Slip: the search for an existing row is missing.
addUserToChatUnchecked(chatid, uid) ==
    /\ chatuser' = Append(chatuser, [chatid |-> chatid, uid |-> uid])
    /\ UNCHANGED <<users, chats, messages,
                   user_autoincrement, chat_autoincrement>>

addUserToChat(chatid, uid) ==
    /\ chatuser' =
         IF \E i \in DOMAIN chatuser : /\ chatuser[i].chatid = chatid
                                       /\ chatuser[i].uid = uid
         THEN chatuser
         ELSE Append(chatuser, [chatid |-> chatid, uid |-> uid])
    /\ UNCHANGED <<users, chats, messages,
                   user_autoincrement, chat_autoincrement>>

saveMessage(from, chatid, ts, text) ==
    /\ messages' = Append(messages, [flags |-> "UNREAD", user_from |-> from,
                                     chat_to |-> chatid, ts |-> ts,
                                     message |-> text])
    /\ UNCHANGED <<users, chats, chatuser,
                   user_autoincrement, chat_autoincrement>>

\* Slip: the READ bit is toggled instead of set.
getMessagesToggle(chatid, ts, max_count) ==
    /\ messages' = [i \in DOMAIN messages |->
                      IF i \in Newer(chatid, ts, max_count)
                      THEN [messages[i] EXCEPT
                              !.flags = IF @ = "READ" THEN "UNREAD" ELSE "READ"]
                      ELSE messages[i]]
    /\ UNCHANGED <<users, chats, chatuser,
                   user_autoincrement, chat_autoincrement>>

\* The copies go to the caller with the flag they had; the rows become READ.
getMessages(chatid, ts, max_count) ==
    /\ messages' = [i \in DOMAIN messages |->
                      IF i \in Newer(chatid, ts, max_count)
                      THEN [messages[i] EXCEPT !.flags = "READ"]
                      ELSE messages[i]]
    /\ UNCHANGED <<users, chats, chatuser,
                   user_autoincrement, chat_autoincrement>>

-----------------------------------------------------------------------------
(* The storage alone, called as its callers in database_worker.cpp call it:  *)
(* with ids and chats that an earlier lookup returned.                       *)

StorageNext ==
    \/ \E i \in DOMAIN users, ts \in Time : updateUserHeartBit(users[i].id, ts)
    \/ \E name \in Names, pass \in Hashes : createUser(name, pass)
    \/ \E name \in Names, i \in DOMAIN users : createChat(name, users[i].id)
    \/ \E c \in DOMAIN chats, i \in DOMAIN users :
         addUserToChat(chats[c].id, users[i].id)
    \/ \E i \in DOMAIN users, c \in DOMAIN chats, ts \in Time, text \in Texts :
         saveMessage(users[i].id, chats[c].id, ts, text)
    \/ \E c \in DOMAIN chats, ts \in Time :
         getMessages(chats[c].id, ts, MessageLimit)

StorageSpec == StorageInit /\ [][StorageNext]_storageVars

-----------------------------------------------------------------------------
(* Properties.                                                               *)

\* Type invariant of the tables and of the two counters.
StorageTypeOK ==
    /\ users \in Seq(User)
    /\ chats \in Seq(Chat)
    /\ chatuser \in Seq(Chatuser)
    /\ messages \in Seq(Message)
    /\ user_autoincrement \in Nat \ {0}
    /\ chat_autoincrement \in Nat \ {0}

\* Ids are handed out once: both tables are keyed by id (PRIMARY KEY in
\* mysql/init.sql, "id are uniq" in database.hpp), every id is below its
\* counter and none is 0, the value that means "not found".
KeysUnique ==
    /\ \A i \in DOMAIN users : users[i].id \in 1 .. user_autoincrement - 1
    /\ \A i \in DOMAIN chats : chats[i].id \in 1 .. chat_autoincrement - 1
    /\ \A i, j \in DOMAIN users : users[i].id = users[j].id => i = j
    /\ \A i, j \in DOMAIN chats : chats[i].id = chats[j].id => i = j

\* createUser is the only place that makes a user: no two have one name, so
\* lookup_check_pass_by_name's "more than one user with that name" is dead.
UniqueUserNames ==
    \A i, j \in DOMAIN users : users[i].name = users[j].name => i = j

\* The foreign keys of mysql/init.sql hold in memory too: a membership and a
\* message refer to rows that exist, so to_api_format never prints the empty
\* name of a default-constructed row.
ForeignKeys ==
    /\ \A i \in DOMAIN chatuser :
         /\ \E u \in DOMAIN users : users[u].id = chatuser[i].uid
         /\ \E c \in DOMAIN chats : chats[c].id = chatuser[i].chatid
    /\ \A i \in DOMAIN messages :
         /\ \E u \in DOMAIN users : users[u].id = messages[i].user_from
         /\ \E c \in DOMAIN chats : chats[c].id = messages[i].chat_to

\* Each user owns one mailbox: a chat of the user's own name that is the self
\* chat of nobody else and that the user is a member of.  Without the row in
\* chatuser the user would never be told of a message sent to it.
OwnMailbox ==
    /\ \A u \in DOMAIN users :
         /\ \E c \in DOMAIN chats : chats[c] = [id |-> users[u].self_chat_id,
                                                name |-> users[u].name]
         /\ \E i \in DOMAIN chatuser :
              chatuser[i] = [chatid |-> users[u].self_chat_id,
                             uid |-> users[u].id]
    /\ \A u, v \in DOMAIN users :
         users[u].self_chat_id = users[v].self_chat_id => u = v

\* Nobody is twice in a chat: a second row would make the IDLE branch of
\* processQueue deliver every message of the chat twice.
NoDoubleMembership ==
    \A i, j \in DOMAIN chatuser : chatuser[i] = chatuser[j] => i = j

\* A chat that is the self chat of no user: it was made by createChat.
IsGroup(c) == \A u \in DOMAIN users : users[u].self_chat_id # chats[c].id

\* createUser does not look at the chats and createChat refuses any name that
\* some chat has: a name belongs to at most one group and one mailbox, so
\* lookupChatByName finds at most two rows.
NameSharedByGroupAndUserOnly ==
    \A c, d \in DOMAIN chats :
        /\ c # d
        /\ chats[c].name = chats[d].name
        => (IsGroup(c) <=> ~IsGroup(d))

\* What a step may do to a row that is there: nothing, but for a user's heartbit
\* and a message's flags, which never go back to UNREAD.
RowsKept ==
    /\ \A i \in DOMAIN users :
         /\ i \in DOMAIN users'
         /\ users'[i] = [users[i] EXCEPT !.heartbit = users'[i].heartbit]
    /\ \A i \in DOMAIN chats : i \in DOMAIN chats' /\ chats'[i] = chats[i]
    /\ \A i \in DOMAIN chatuser :
         i \in DOMAIN chatuser' /\ chatuser'[i] = chatuser[i]
    /\ \A i \in DOMAIN messages :
         /\ i \in DOMAIN messages'
         /\ \/ messages'[i] = messages[i]
            \/ messages'[i] = [messages[i] EXCEPT !.flags = "READ"]

\* No row is ever removed, moved or rewritten.  The worker relies on it when it
\* uses an id that it looked up several lock regions earlier.
AppendOnly == [][RowsKept]_storageVars
=============================================================================
