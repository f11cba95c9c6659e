---------------------------- MODULE StorageProofs ----------------------------
(***************************************************************************)
(* The invariants of Storage hold for every set of names, hashes, texts    *)
(* and times, and any number of rows: their conjunction is inductive.      *)
(* Each operation keeps it, whatever calls came before, as long as its     *)
(* arguments are ids of rows that exist: the lemmas below are stated per   *)
(* operation, to be used wherever an operation is called.                  *)
(***************************************************************************)
EXTENDS Storage, TLAPS

StorageInv ==
    /\ StorageTypeOK
    /\ KeysUnique
    /\ UniqueUserNames
    /\ ForeignKeys
    /\ OwnMailbox
    /\ NoDoubleMembership
    /\ NameSharedByGroupAndUserOnly

-----------------------------------------------------------------------------

\* What push_back / emplace_back does to a table: the old rows stay where they
\* are and one row is added behind them.
LEMMA AppendRow ==
    ASSUME NEW S, NEW s \in Seq(S), NEW e \in S
    PROVE  /\ Append(s, e) \in Seq(S)
           /\ Len(s) \in Nat
           /\ DOMAIN s = 1 .. Len(s)
           /\ Len(Append(s, e)) = Len(s) + 1
           /\ DOMAIN Append(s, e) = 1 .. Len(s) + 1
           /\ Append(s, e)[Len(s) + 1] = e
           /\ \A i \in DOMAIN s : Append(s, e)[i] = s[i]
           /\ \A i \in DOMAIN Append(s, e) : i \in DOMAIN s \/ i = Len(s) + 1
    OBVIOUS

\* A table rewritten row by row is a table of the same length.
LEMMA RowByRow ==
    ASSUME NEW S, NEW T, NEW s \in Seq(T), NEW f,
           f = [i \in DOMAIN s |-> f[i]],
           \A i \in DOMAIN s : f[i] \in S
    PROVE  f \in Seq(S)
<1>1. PICK n \in Nat : DOMAIN s = 1 .. n
  OBVIOUS
<1>2. f \in [1 .. n -> S]
  BY <1>1
<1>3. QED
  BY <1>2

\* Every row of a table is of the table's type.
LEMMA RowsTyped ==
    ASSUME StorageTypeOK
    PROVE  /\ \A i \in DOMAIN users :
                /\ users[i] \in User
                /\ users[i].id \in Nat
                /\ users[i].self_chat_id \in Nat
                /\ users[i].name \in Names
           /\ \A i \in DOMAIN chats :
                chats[i] \in Chat /\ chats[i].id \in Nat /\ chats[i].name \in Names
           /\ \A i \in DOMAIN chatuser : chatuser[i] \in Chatuser
           /\ \A i \in DOMAIN messages : messages[i] \in Message
<1>1. /\ \A i \in DOMAIN users : users[i] \in User
      /\ \A i \in DOMAIN chats : chats[i] \in Chat
      /\ \A i \in DOMAIN chatuser : chatuser[i] \in Chatuser
      /\ \A i \in DOMAIN messages : messages[i] \in Message
  BY DEF StorageTypeOK
<1>2. QED
  BY <1>1 DEF User, Chat

\* A call that finds nothing to do leaves the tables alone.
LEMMA StutterKeepsInv ==
    ASSUME StorageInv, UNCHANGED storageVars
    PROVE  StorageInv'
<1>1. StorageTypeOK' /\ KeysUnique' /\ UniqueUserNames' /\ ForeignKeys'
  BY DEF StorageInv, storageVars, StorageTypeOK, KeysUnique, UniqueUserNames,
         ForeignKeys
<1>2. OwnMailbox' /\ NoDoubleMembership' /\ NameSharedByGroupAndUserOnly'
  BY DEF StorageInv, storageVars, OwnMailbox, NoDoubleMembership,
         NameSharedByGroupAndUserOnly, IsGroup
<1>3. QED
  BY <1>1, <1>2 DEF StorageInv

\* updateUserHeartBit rewrites one field of one user and nothing else.
LEMMA HeartBitKeepsInv ==
    ASSUME StorageInv, NEW id, NEW ts \in Time, updateUserHeartBit(id, ts)
    PROVE  StorageInv'
<1>1. users \in Seq(User)
  BY DEF StorageInv, StorageTypeOK
<1>2. /\ DOMAIN users' = DOMAIN users
      /\ \A i \in DOMAIN users :
           /\ users'[i] \in User
           /\ users'[i].id = users[i].id
           /\ users'[i].name = users[i].name
           /\ users'[i].self_chat_id = users[i].self_chat_id
  <2>1. \A i \in DOMAIN users : users[i] \in User
    BY <1>1
  <2>2. QED
    BY <2>1 DEF updateUserHeartBit, User
<1>3. users' \in Seq(User)
  <2>1. users' = [i \in DOMAIN users |-> users'[i]]
    BY DEF updateUserHeartBit
  <2>2. QED
    BY <1>1, <1>2, <2>1, RowByRow
<1>4. UNCHANGED <<chats, chatuser, messages,
                  user_autoincrement, chat_autoincrement>>
  BY DEF updateUserHeartBit
<1>5. StorageTypeOK'
  BY <1>3, <1>4 DEF StorageInv, StorageTypeOK
<1>6. KeysUnique' /\ UniqueUserNames'
  BY <1>2, <1>4 DEF StorageInv, KeysUnique, UniqueUserNames
<1>7. ForeignKeys'
  BY <1>2, <1>4 DEF StorageInv, ForeignKeys
<1>8. OwnMailbox'
  BY <1>2, <1>4 DEF StorageInv, OwnMailbox
<1>9. NoDoubleMembership' /\ NameSharedByGroupAndUserOnly'
  BY <1>2, <1>4 DEF StorageInv, NoDoubleMembership,
                    NameSharedByGroupAndUserOnly, IsGroup
<1>10. QED
  BY <1>5, <1>6, <1>7, <1>8, <1>9 DEF StorageInv


\* addUserToChat appends a row only when it is not there yet.
LEMMA AddUserToChatKeepsInv ==
    ASSUME StorageInv,
           NEW c \in DOMAIN chats, NEW u \in DOMAIN users,
           addUserToChat(chats[c].id, users[u].id)
    PROVE  StorageInv'
<1> DEFINE row == [chatid |-> chats[c].id, uid |-> users[u].id]
<1>1. /\ chatuser \in Seq(Chatuser)
      /\ row \in Chatuser
  <2>1. chatuser \in Seq(Chatuser)
    BY DEF StorageInv, StorageTypeOK
  <2>2. chats[c].id \in Nat /\ users[u].id \in Nat
    BY RowsTyped DEF StorageInv
  <2>3. QED
    BY <2>1, <2>2 DEF Chatuser
<1>2. UNCHANGED <<users, chats, messages,
                  user_autoincrement, chat_autoincrement>>
  BY DEF addUserToChat
<1>3. UniqueUserNames' /\ KeysUnique' /\ NameSharedByGroupAndUserOnly'
  BY <1>2 DEF StorageInv, UniqueUserNames, KeysUnique,
              NameSharedByGroupAndUserOnly, IsGroup
<1> DEFINE found == \E i \in DOMAIN chatuser :
                        /\ chatuser[i].chatid = chats[c].id
                        /\ chatuser[i].uid = users[u].id
<1>4. CASE found
  <2>1. chatuser' = chatuser
    BY <1>4 DEF addUserToChat
  <2>2. QED
    BY <1>2, <2>1, StutterKeepsInv DEF storageVars
<1>5. CASE ~found
  <2>1. /\ chatuser' = Append(chatuser, row)
        /\ \A i \in DOMAIN chatuser : chatuser[i] # row
    BY <1>5 DEF addUserToChat
  <2>2. /\ chatuser' \in Seq(Chatuser)
        /\ Len(chatuser) \in Nat
        /\ DOMAIN chatuser = 1 .. Len(chatuser)
        /\ chatuser'[Len(chatuser) + 1] = row
        /\ \A i \in DOMAIN chatuser : chatuser'[i] = chatuser[i]
        /\ \A i \in DOMAIN chatuser' :
             i \in DOMAIN chatuser \/ i = Len(chatuser) + 1
        /\ DOMAIN chatuser \subseteq DOMAIN chatuser'
    BY <1>1, <2>1, AppendRow
  <2>3. StorageTypeOK'
    BY <1>2, <2>2 DEF StorageInv, StorageTypeOK
  <2>4. ForeignKeys'
    <3>1. \A i \in DOMAIN chatuser' :
            /\ \E v \in DOMAIN users : users[v].id = chatuser'[i].uid
            /\ \E d \in DOMAIN chats : chats[d].id = chatuser'[i].chatid
      BY <2>2 DEF StorageInv, ForeignKeys
    <3>2. QED
      BY <1>2, <3>1 DEF StorageInv, ForeignKeys
  <2>5. OwnMailbox'
    <3>1. \A i \in DOMAIN chatuser :
            i \in DOMAIN chatuser' /\ chatuser'[i] = chatuser[i]
      BY <2>2
    <3>2. ASSUME NEW v \in DOMAIN users
          PROVE  \E i \in DOMAIN chatuser' :
                   chatuser'[i] = [chatid |-> users[v].self_chat_id,
                                   uid |-> users[v].id]
      <4>1. PICK i \in DOMAIN chatuser :
                   chatuser[i] = [chatid |-> users[v].self_chat_id,
                                  uid |-> users[v].id]
        BY DEF StorageInv, OwnMailbox
      <4>2. QED
        BY <3>1, <4>1
    <3>3. QED
      BY <1>2, <3>2 DEF StorageInv, OwnMailbox
  <2>6. NoDoubleMembership'
    BY <2>1, <2>2 DEF StorageInv, NoDoubleMembership
  <2>7. QED
    BY <1>3, <2>3, <2>4, <2>5, <2>6 DEF StorageInv
<1>6. QED
  BY <1>4, <1>5

\* saveMessage appends a message of an existing user to an existing chat.
LEMMA SaveMessageKeepsInv ==
    ASSUME StorageInv,
           NEW u \in DOMAIN users, NEW c \in DOMAIN chats,
           NEW ts \in Time, NEW text \in Texts,
           saveMessage(users[u].id, chats[c].id, ts, text)
    PROVE  StorageInv'
<1> DEFINE row == [flags |-> "UNREAD", user_from |-> users[u].id,
                   chat_to |-> chats[c].id, ts |-> ts, message |-> text]
<1>1. /\ messages \in Seq(Message)
      /\ row \in Message
  <2>1. messages \in Seq(Message)
    BY DEF StorageInv, StorageTypeOK
  <2>2. chats[c].id \in Nat /\ users[u].id \in Nat
    BY RowsTyped DEF StorageInv
  <2>3. QED
    BY <2>1, <2>2 DEF Message, Flags
<1>2. UNCHANGED <<users, chats, chatuser,
                  user_autoincrement, chat_autoincrement>>
  BY DEF saveMessage
<1>3. /\ messages' \in Seq(Message)
      /\ messages'[Len(messages) + 1] = row
      /\ \A i \in DOMAIN messages : messages'[i] = messages[i]
      /\ \A i \in DOMAIN messages' :
           i \in DOMAIN messages \/ i = Len(messages) + 1
  BY <1>1, AppendRow DEF saveMessage
<1>4. StorageTypeOK'
  BY <1>2, <1>3 DEF StorageInv, StorageTypeOK
<1>5. ForeignKeys'
  <2>1. \A i \in DOMAIN messages' :
          /\ \E v \in DOMAIN users : users[v].id = messages'[i].user_from
          /\ \E d \in DOMAIN chats : chats[d].id = messages'[i].chat_to
    BY <1>3 DEF StorageInv, ForeignKeys
  <2>2. QED
    BY <1>2, <2>1 DEF StorageInv, ForeignKeys
<1>6. UniqueUserNames' /\ KeysUnique' /\ OwnMailbox'
  BY <1>2 DEF StorageInv, UniqueUserNames, KeysUnique, OwnMailbox
<1>7. NoDoubleMembership' /\ NameSharedByGroupAndUserOnly'
  BY <1>2 DEF StorageInv, NoDoubleMembership, NameSharedByGroupAndUserOnly,
              IsGroup
<1>8. QED
  BY <1>4, <1>5, <1>6, <1>7 DEF StorageInv

\* getMessages rewrites flags and nothing else.
LEMMA GetMessagesKeepsInv ==
    ASSUME StorageInv, NEW chatid, NEW ts, NEW max_count,
           getMessages(chatid, ts, max_count)
    PROVE  StorageInv'
<1>1. messages \in Seq(Message)
  BY DEF StorageInv, StorageTypeOK
<1>2. UNCHANGED <<users, chats, chatuser,
                  user_autoincrement, chat_autoincrement>>
  BY DEF getMessages
<1>3. /\ messages' = [i \in DOMAIN messages |-> messages'[i]]
      /\ \A i \in DOMAIN messages :
           /\ messages'[i] \in Message
           /\ messages'[i].user_from = messages[i].user_from
           /\ messages'[i].chat_to = messages[i].chat_to
  <2>1. \A i \in DOMAIN messages : messages[i] \in Message
    BY <1>1
  <2>2. QED
    BY <2>1 DEF getMessages, Message, Flags
<1>4. messages' \in Seq(Message) /\ DOMAIN messages' = DOMAIN messages
  BY <1>1, <1>3, RowByRow
<1>5. StorageTypeOK'
  BY <1>2, <1>4 DEF StorageInv, StorageTypeOK
<1>6. ForeignKeys'
  BY <1>2, <1>3, <1>4 DEF StorageInv, ForeignKeys
<1>7. UniqueUserNames' /\ KeysUnique' /\ OwnMailbox'
  BY <1>2 DEF StorageInv, UniqueUserNames, KeysUnique, OwnMailbox
<1>8. NoDoubleMembership' /\ NameSharedByGroupAndUserOnly'
  BY <1>2 DEF StorageInv, NoDoubleMembership, NameSharedByGroupAndUserOnly,
              IsGroup
<1>9. QED
  BY <1>5, <1>6, <1>7, <1>8 DEF StorageInv

\* createChat: the new chat has a fresh id and a fresh name, and its creator is
\* its first member.
LEMMA CreateChatKeepsInv ==
    ASSUME StorageInv,
           NEW name \in Names, NEW u \in DOMAIN users,
           createChat(name, users[u].id)
    PROVE  StorageInv'
<1> DEFINE chat == [id |-> chat_autoincrement, name |-> name]
           row == [chatid |-> chat_autoincrement, uid |-> users[u].id]
<1> USE DEF StorageInv
<1>1. /\ chats \in Seq(Chat) /\ chat \in Chat
      /\ chatuser \in Seq(Chatuser) /\ row \in Chatuser
      /\ chat_autoincrement \in Nat \ {0}
      /\ users[u].id > 0
  <2>1. /\ chats \in Seq(Chat) /\ chatuser \in Seq(Chatuser)
        /\ chat_autoincrement \in Nat \ {0}
        /\ user_autoincrement \in Nat \ {0}
    BY DEF StorageTypeOK
  <2>2. users[u].id \in 1 .. user_autoincrement - 1
    BY DEF KeysUnique
  <2>3. QED
    BY <2>1, <2>2 DEF Chat, Chatuser
<1>2. /\ chats' = Append(chats, chat)
      /\ chatuser' = Append(chatuser, row)
      /\ chat_autoincrement' = chat_autoincrement + 1
      /\ UNCHANGED <<users, messages, user_autoincrement>>
      /\ \A c \in DOMAIN chats : chats[c].name # name
  BY <1>1 DEF createChat, lookupChatByName
<1>3. /\ chats' \in Seq(Chat)
      /\ Len(chats) + 1 \in DOMAIN chats'
      /\ Len(chats) + 1 \notin DOMAIN chats
      /\ chats'[Len(chats) + 1] = chat
      /\ \A c \in DOMAIN chats : c \in DOMAIN chats' /\ chats'[c] = chats[c]
      /\ \A c \in DOMAIN chats' : c \in DOMAIN chats \/ c = Len(chats) + 1
  BY <1>1, <1>2, AppendRow
<1>4. /\ chatuser' \in Seq(Chatuser)
      /\ Len(chatuser) + 1 \in DOMAIN chatuser'
      /\ Len(chatuser) + 1 \notin DOMAIN chatuser
      /\ chatuser'[Len(chatuser) + 1] = row
      /\ \A i \in DOMAIN chatuser :
           i \in DOMAIN chatuser' /\ chatuser'[i] = chatuser[i]
      /\ \A i \in DOMAIN chatuser' :
           i \in DOMAIN chatuser \/ i = Len(chatuser) + 1
  BY <1>1, <1>2, AppendRow
<1>5. \A c \in DOMAIN chats : chats[c].id \in 1 .. chat_autoincrement - 1
  BY DEF KeysUnique
<1>6. \A v \in DOMAIN users : users[v].self_chat_id # chat_autoincrement
  <2>1. TAKE v \in DOMAIN users
  <2>2. PICK c \in DOMAIN chats :
               chats[c] = [id |-> users[v].self_chat_id, name |-> users[v].name]
    BY DEF OwnMailbox
  <2>3. chats[c].id = users[v].self_chat_id
    BY <2>2
  <2>4. QED
    BY <1>1, <1>5, <2>3
<1>7. StorageTypeOK'
  BY <1>1, <1>2, <1>3, <1>4 DEF StorageTypeOK
<1>8. KeysUnique'
  <2>1. \A c \in DOMAIN chats' : chats'[c].id \in 1 .. chat_autoincrement' - 1
    BY <1>1, <1>2, <1>3, <1>5
  <2>2. \A c, d \in DOMAIN chats' : chats'[c].id = chats'[d].id => c = d
    BY <1>1, <1>3, <1>5 DEF KeysUnique
  <2>3. QED
    BY <1>2, <2>1, <2>2 DEF KeysUnique
<1>9. UniqueUserNames'
  BY <1>2 DEF UniqueUserNames
<1>10. ForeignKeys'
  <2>1. \A id : (\E c \in DOMAIN chats : chats[c].id = id)
                  => (\E c \in DOMAIN chats' : chats'[c].id = id)
    BY <1>3
  <2>2. \E c \in DOMAIN chats' : chats'[c].id = row.chatid
    BY <1>3
  <2>3. \A i \in DOMAIN chatuser' :
          /\ \E v \in DOMAIN users : users[v].id = chatuser'[i].uid
          /\ \E c \in DOMAIN chats' : chats'[c].id = chatuser'[i].chatid
    BY <1>4, <2>1, <2>2 DEF ForeignKeys
  <2>4. QED
    BY <1>2, <2>1, <2>3 DEF ForeignKeys
<1>11. OwnMailbox'
  <2>1. ASSUME NEW v \in DOMAIN users
        PROVE  /\ \E c \in DOMAIN chats' :
                    chats'[c] = [id |-> users[v].self_chat_id,
                                 name |-> users[v].name]
               /\ \E i \in DOMAIN chatuser' :
                    chatuser'[i] = [chatid |-> users[v].self_chat_id,
                                    uid |-> users[v].id]
    <3>1. PICK c \in DOMAIN chats : chats[c] = [id |-> users[v].self_chat_id,
                                                name |-> users[v].name]
      BY DEF OwnMailbox
    <3>2. PICK i \in DOMAIN chatuser :
                 chatuser[i] = [chatid |-> users[v].self_chat_id,
                                uid |-> users[v].id]
      BY DEF OwnMailbox
    <3>3. QED
      BY <1>3, <1>4, <3>1, <3>2
  <2>2. QED
    BY <1>2, <2>1 DEF OwnMailbox
<1>12. NoDoubleMembership'
  <2>1. \A i \in DOMAIN chatuser : chatuser[i].chatid # chat_autoincrement
    <3>1. TAKE i \in DOMAIN chatuser
    <3>2. PICK c \in DOMAIN chats : chats[c].id = chatuser[i].chatid
      BY DEF ForeignKeys
    <3>3. QED
      BY <1>1, <1>5, <3>2
  <2>2. \A i \in DOMAIN chatuser : chatuser[i] # row
    BY <2>1
  <2>3. QED
    BY <1>4, <2>2 DEF NoDoubleMembership
<1>13. NameSharedByGroupAndUserOnly'
  <2>1. ASSUME NEW c \in DOMAIN chats', NEW d \in DOMAIN chats',
               c # d, chats'[c].name = chats'[d].name
        PROVE  c \in DOMAIN chats /\ d \in DOMAIN chats
    BY <1>2, <1>3, <2>1
  <2>2. \A c \in DOMAIN chats : IsGroup(c)' <=> IsGroup(c)
    BY <1>2, <1>3 DEF IsGroup
  <2>3. QED
    BY <1>3, <2>1, <2>2 DEF NameSharedByGroupAndUserOnly
<1>14. QED
  BY <1>7, <1>8, <1>9, <1>10, <1>11, <1>12, <1>13

\* createUser: the new user, its mailbox and its membership in it have fresh
\* ids.  A chat that already has the name can only be a group, because a
\* mailbox of that name would belong to a user of that name.
LEMMA CreateUserKeepsInv ==
    ASSUME StorageInv,
           NEW name \in Names, NEW pass \in Hashes,
           createUser(name, pass)
    PROVE  StorageInv'
<1> DEFINE chat == [id |-> chat_autoincrement, name |-> name]
           user == [id |-> user_autoincrement,
                    self_chat_id |-> chat_autoincrement, heartbit |-> 0,
                    name |-> name, password |-> pass]
           row == [chatid |-> chat_autoincrement, uid |-> user_autoincrement]
           nu == Len(users) + 1
           nc == Len(chats) + 1
           nr == Len(chatuser) + 1
<1> USE DEF StorageInv
<1>1. /\ chats \in Seq(Chat) /\ chat \in Chat
      /\ chatuser \in Seq(Chatuser) /\ row \in Chatuser
      /\ users \in Seq(User) /\ user \in User
      /\ chat_autoincrement \in Nat \ {0}
      /\ user_autoincrement \in Nat \ {0}
  BY StorageAssumption DEF StorageTypeOK, Chat, Chatuser, User
<1>2. /\ chats' = Append(chats, chat)
      /\ users' = Append(users, user)
      /\ chatuser' = Append(chatuser, row)
      /\ chat_autoincrement' = chat_autoincrement + 1
      /\ user_autoincrement' = user_autoincrement + 1
      /\ messages' = messages
      /\ \A v \in DOMAIN users : users[v].name # name
  BY DEF createUser, lookupUserByName
<1>3. /\ chats' \in Seq(Chat)
      /\ nc \in DOMAIN chats' /\ nc \notin DOMAIN chats
      /\ chats'[nc] = chat
      /\ \A c \in DOMAIN chats : c \in DOMAIN chats' /\ chats'[c] = chats[c]
      /\ \A c \in DOMAIN chats' : c \in DOMAIN chats \/ c = nc
  BY <1>1, <1>2, AppendRow
<1>4. /\ chatuser' \in Seq(Chatuser)
      /\ nr \in DOMAIN chatuser' /\ nr \notin DOMAIN chatuser
      /\ chatuser'[nr] = row
      /\ \A i \in DOMAIN chatuser :
           i \in DOMAIN chatuser' /\ chatuser'[i] = chatuser[i]
      /\ \A i \in DOMAIN chatuser' : i \in DOMAIN chatuser \/ i = nr
  BY <1>1, <1>2, AppendRow
<1>5. /\ users' \in Seq(User)
      /\ nu \in DOMAIN users' /\ nu \notin DOMAIN users
      /\ users'[nu] = user
      /\ \A v \in DOMAIN users : v \in DOMAIN users' /\ users'[v] = users[v]
      /\ \A v \in DOMAIN users' : v \in DOMAIN users \/ v = nu
  BY <1>1, <1>2, AppendRow
<1>6. /\ \A c \in DOMAIN chats : chats[c].id \in 1 .. chat_autoincrement - 1
      /\ \A v \in DOMAIN users : users[v].id \in 1 .. user_autoincrement - 1
  BY DEF KeysUnique
<1>7. \A v \in DOMAIN users : users[v].self_chat_id # chat_autoincrement
  <2>1. TAKE v \in DOMAIN users
  <2>2. PICK c \in DOMAIN chats :
               chats[c] = [id |-> users[v].self_chat_id, name |-> users[v].name]
    BY DEF OwnMailbox
  <2>3. chats[c].id = users[v].self_chat_id
    BY <2>2
  <2>4. QED
    BY <1>1, <1>6, <2>3
<1>8. StorageTypeOK'
  BY <1>1, <1>2, <1>3, <1>4, <1>5 DEF StorageTypeOK
<1>9. KeysUnique'
  <2>1. \A c \in DOMAIN chats' : chats'[c].id \in 1 .. chat_autoincrement' - 1
    BY <1>1, <1>2, <1>3, <1>6
  <2>2. \A c, d \in DOMAIN chats' : chats'[c].id = chats'[d].id => c = d
    <3>1. chats'[nc].id = chat_autoincrement
      BY <1>3
    <3>2. \A c \in DOMAIN chats : chats[c].id # chat_autoincrement
      BY <1>1, <1>6
    <3>3. QED
      BY <1>3, <3>1, <3>2 DEF KeysUnique
  <2>3. \A v \in DOMAIN users' : users'[v].id \in 1 .. user_autoincrement' - 1
    BY <1>1, <1>2, <1>5, <1>6
  <2>4. \A v, w \in DOMAIN users' : users'[v].id = users'[w].id => v = w
    <3>1. users'[nu].id = user_autoincrement
      BY <1>5
    <3>2. \A v \in DOMAIN users : users[v].id # user_autoincrement
      BY <1>1, <1>6
    <3>3. QED
      BY <1>5, <3>1, <3>2 DEF KeysUnique
  <2>5. QED
    BY <2>1, <2>2, <2>3, <2>4 DEF KeysUnique
<1>10. UniqueUserNames'
  <2>1. \A v, w \in DOMAIN users' : users'[v].name = users'[w].name => v = w
    BY <1>2, <1>5 DEF UniqueUserNames
  <2>2. QED
    BY <2>1 DEF UniqueUserNames
<1>11. ForeignKeys'
  <2>1. \A id : (\E c \in DOMAIN chats : chats[c].id = id)
                  => (\E c \in DOMAIN chats' : chats'[c].id = id)
    BY <1>3
  <2>2. \A id : (\E v \in DOMAIN users : users[v].id = id)
                  => (\E v \in DOMAIN users' : users'[v].id = id)
    BY <1>5
  <2>3. /\ \E c \in DOMAIN chats' : chats'[c].id = row.chatid
        /\ \E v \in DOMAIN users' : users'[v].id = row.uid
    BY <1>3, <1>5
  <2>4. \A i \in DOMAIN chatuser' :
          /\ \E v \in DOMAIN users' : users'[v].id = chatuser'[i].uid
          /\ \E c \in DOMAIN chats' : chats'[c].id = chatuser'[i].chatid
    <3>1. TAKE i \in DOMAIN chatuser'
    <3>2. CASE i \in DOMAIN chatuser
      <4>1. /\ \E v \in DOMAIN users : users[v].id = chatuser[i].uid
            /\ \E c \in DOMAIN chats : chats[c].id = chatuser[i].chatid
        BY <3>2 DEF ForeignKeys
      <4>2. chatuser'[i] = chatuser[i]
        BY <1>4, <3>2
      <4>3. QED
        BY <2>1, <2>2, <4>1, <4>2
    <3>3. CASE i = nr
      BY <1>4, <2>3, <3>3
    <3>4. QED
      BY <1>4, <3>2, <3>3
  <2>5. \A i \in DOMAIN messages' :
          /\ \E v \in DOMAIN users' : users'[v].id = messages'[i].user_from
          /\ \E c \in DOMAIN chats' : chats'[c].id = messages'[i].chat_to
    BY <1>2, <2>1, <2>2 DEF ForeignKeys
  <2>6. QED
    BY <2>4, <2>5 DEF ForeignKeys
<1>12. OwnMailbox'
  <2>1. ASSUME NEW v \in DOMAIN users
        PROVE  /\ \E c \in DOMAIN chats' :
                    chats'[c] = [id |-> users[v].self_chat_id,
                                 name |-> users[v].name]
               /\ \E i \in DOMAIN chatuser' :
                    chatuser'[i] = [chatid |-> users[v].self_chat_id,
                                    uid |-> users[v].id]
    <3>1. PICK c \in DOMAIN chats : chats[c] = [id |-> users[v].self_chat_id,
                                                name |-> users[v].name]
      BY DEF OwnMailbox
    <3>2. PICK i \in DOMAIN chatuser :
                 chatuser[i] = [chatid |-> users[v].self_chat_id,
                                uid |-> users[v].id]
      BY DEF OwnMailbox
    <3>3. QED
      BY <1>3, <1>4, <3>1, <3>2
  <2>2. /\ \E c \in DOMAIN chats' :
             chats'[c] = [id |-> user.self_chat_id, name |-> user.name]
        /\ \E i \in DOMAIN chatuser' :
             chatuser'[i] = [chatid |-> user.self_chat_id, uid |-> user.id]
    BY <1>3, <1>4
  <2>3. \A v \in DOMAIN users' :
          /\ \E c \in DOMAIN chats' :
               chats'[c] = [id |-> users'[v].self_chat_id,
                            name |-> users'[v].name]
          /\ \E i \in DOMAIN chatuser' :
               chatuser'[i] = [chatid |-> users'[v].self_chat_id,
                               uid |-> users'[v].id]
    <3>1. TAKE v \in DOMAIN users'
    <3>2. CASE v \in DOMAIN users /\ users'[v] = users[v]
      BY <2>1, <3>2
    <3>3. CASE users'[v] = user
      BY <2>2, <3>3
    <3>4. QED
      BY <1>5, <3>2, <3>3
  <2>4. \A v, w \in DOMAIN users' :
          users'[v].self_chat_id = users'[w].self_chat_id => v = w
    BY <1>5, <1>7 DEF OwnMailbox
  <2>5. QED
    BY <2>3, <2>4 DEF OwnMailbox
<1>13. NoDoubleMembership'
  <2>1. \A i \in DOMAIN chatuser : chatuser[i].chatid # chat_autoincrement
    <3>1. TAKE i \in DOMAIN chatuser
    <3>2. PICK c \in DOMAIN chats : chats[c].id = chatuser[i].chatid
      BY DEF ForeignKeys
    <3>3. QED
      BY <1>1, <1>6, <3>2
  <2>2. \A i \in DOMAIN chatuser : chatuser[i] # row
    BY <2>1
  <2>3. QED
    BY <1>4, <2>2 DEF NoDoubleMembership
<1>14. NameSharedByGroupAndUserOnly'
  <2>1. \A c \in DOMAIN chats : IsGroup(c)' <=> IsGroup(c)
    <3>1. TAKE c \in DOMAIN chats
    <3>2. chats'[c].id = chats[c].id /\ chats[c].id # chat_autoincrement
      BY <1>1, <1>3, <1>6
    <3>3. QED
      BY <1>5, <3>2 DEF IsGroup
  <2>2. \A c : c = nc => ~IsGroup(c)'
    <3>1. user.self_chat_id = chats'[nc].id
      BY <1>3
    <3>2. QED
      BY <1>5, <3>1 DEF IsGroup
  <2>3. ASSUME NEW c \in DOMAIN chats, chats[c].name = name
        PROVE  IsGroup(c)
    <3>1. SUFFICES ASSUME NEW v \in DOMAIN users,
                          users[v].self_chat_id = chats[c].id
                   PROVE  FALSE
      BY DEF IsGroup
    <3>2. PICK d \in DOMAIN chats :
                 chats[d] = [id |-> users[v].self_chat_id,
                             name |-> users[v].name]
      BY DEF OwnMailbox
    <3>3. d = c
      BY <3>1, <3>2 DEF KeysUnique
    <3>4. users[v].name = name
      BY <2>3, <3>2, <3>3
    <3>5. QED
      BY <1>2, <3>4
  <2>4. ASSUME NEW c \in DOMAIN chats', NEW d \in DOMAIN chats',
               c # d, chats'[c].name = chats'[d].name
        PROVE  IsGroup(c)' <=> ~IsGroup(d)'
    <3>1. CASE c \in DOMAIN chats /\ d \in DOMAIN chats
      BY <1>3, <2>1, <2>4, <3>1 DEF NameSharedByGroupAndUserOnly
    <3>2. CASE c \in DOMAIN chats /\ d = nc
      BY <1>3, <2>1, <2>2, <2>3, <2>4, <3>2
    <3>3. CASE c = nc /\ d \in DOMAIN chats
      BY <1>3, <2>1, <2>2, <2>3, <2>4, <3>3
    <3>4. QED
      BY <1>3, <2>4, <3>1, <3>2, <3>3
  <2>5. QED
    BY <2>4 DEF NameSharedByGroupAndUserOnly
<1>15. QED
  BY <1>8, <1>9, <1>10, <1>11, <1>12, <1>13, <1>14

-----------------------------------------------------------------------------

\* The empty tables satisfy the invariant.
LEMMA InitEstablishesInv == StorageInit => StorageInv
<1> SUFFICES ASSUME StorageInit PROVE StorageInv
  OBVIOUS
<1>1. /\ users = <<>> /\ chats = <<>> /\ chatuser = <<>> /\ messages = <<>>
      /\ DOMAIN users = {} /\ DOMAIN chats = {}
      /\ DOMAIN chatuser = {} /\ DOMAIN messages = {}
      /\ user_autoincrement = 1 /\ chat_autoincrement = 1
  BY DEF StorageInit
<1>2. StorageTypeOK
  BY <1>1 DEF StorageTypeOK
<1>3. KeysUnique /\ UniqueUserNames /\ ForeignKeys /\ OwnMailbox
  BY <1>1 DEF KeysUnique, UniqueUserNames, ForeignKeys, OwnMailbox
<1>4. NoDoubleMembership /\ NameSharedByGroupAndUserOnly
  BY <1>1 DEF NoDoubleMembership, NameSharedByGroupAndUserOnly
<1>5. QED
  BY <1>2, <1>3, <1>4 DEF StorageInv

\* Every call, in any order, keeps the invariant.
LEMMA NextKeepsInv == StorageInv /\ [StorageNext]_storageVars => StorageInv'
<1> SUFFICES ASSUME StorageInv, [StorageNext]_storageVars
             PROVE  StorageInv'
  OBVIOUS
<1>1. CASE \E i \in DOMAIN users, ts \in Time :
             updateUserHeartBit(users[i].id, ts)
  BY <1>1, HeartBitKeepsInv
<1>2. CASE \E name \in Names, pass \in Hashes : createUser(name, pass)
  BY <1>2, CreateUserKeepsInv
<1>3. CASE \E name \in Names, i \in DOMAIN users : createChat(name, users[i].id)
  BY <1>3, CreateChatKeepsInv
<1>4. CASE \E c \in DOMAIN chats, i \in DOMAIN users :
             addUserToChat(chats[c].id, users[i].id)
  BY <1>4, AddUserToChatKeepsInv
<1>5. CASE \E i \in DOMAIN users, c \in DOMAIN chats, ts \in Time, text \in Texts :
             saveMessage(users[i].id, chats[c].id, ts, text)
  BY <1>5, SaveMessageKeepsInv
<1>6. CASE \E c \in DOMAIN chats, ts \in Time :
             getMessages(chats[c].id, ts, MessageLimit)
  BY <1>6, GetMessagesKeepsInv
<1>7. CASE UNCHANGED storageVars
  BY <1>7, StutterKeepsInv
<1>8. QED
  BY <1>1, <1>2, <1>3, <1>4, <1>5, <1>6, <1>7 DEF StorageNext

\* The tables stay well typed, ids stay unique and below their counters, the
\* foreign keys hold, each user keeps its mailbox, and names and memberships are
\* not duplicated, whatever the number of rows.
THEOREM StorageInvariant == StorageSpec => []StorageInv
<1>1. QED
  BY InitEstablishesInv, NextKeepsInv, PTL DEF StorageSpec

\* The tables hold rows of their types and the counters never are 0, the id that
\* means "not found".
THEOREM StorageTyped == StorageSpec => []StorageTypeOK
<1>1. StorageInv => StorageTypeOK
  BY DEF StorageInv
<1>2. QED
  BY <1>1, StorageInvariant, PTL

\* push_back under one mutex hands out every id once, and lookupUserById finds
\* the one user of an id.
THEOREM StorageKeysUnique == StorageSpec => []KeysUnique
<1>1. StorageInv => KeysUnique
  BY DEF StorageInv
<1>2. QED
  BY <1>1, StorageInvariant, PTL

\* The foreign keys of mysql/init.sql, which InMemoryConnection does not check.
THEOREM StorageForeignKeys == StorageSpec => []ForeignKeys
<1>1. StorageInv => ForeignKeys
  BY DEF StorageInv
<1>2. QED
  BY <1>1, StorageInvariant, PTL

\* The search in addUserToChat and the new chat of createUser and createChat keep
\* anybody from being twice in a chat.
THEOREM StorageNoDoubleMembership == StorageSpec => []NoDoubleMembership
<1>1. StorageInv => NoDoubleMembership
  BY DEF StorageInv
<1>2. QED
  BY <1>1, StorageInvariant, PTL

\* lookup_check_pass_by_name never sees two users of one name.
THEOREM StorageUniqueUserNames == StorageSpec => []UniqueUserNames
<1>1. StorageInv => UniqueUserNames
  BY DEF StorageInv
<1>2. QED
  BY <1>1, StorageInvariant, PTL

\* A name stands for at most one group and one mailbox.
THEOREM StorageNames == StorageSpec => []NameSharedByGroupAndUserOnly
<1>1. StorageInv => NameSharedByGroupAndUserOnly
  BY DEF StorageInv
<1>2. QED
  BY <1>1, StorageInvariant, PTL

\* Each user has a mailbox of its own and is told of what arrives there.
THEOREM StorageOwnMailbox == StorageSpec => []OwnMailbox
<1>1. StorageInv => OwnMailbox
  BY DEF StorageInv
<1>2. QED
  BY <1>1, StorageInvariant, PTL

-----------------------------------------------------------------------------

\* Each call keeps the rows that are there.
LEMMA StepKeepsRows == StorageInv /\ StorageNext => RowsKept
<1> SUFFICES ASSUME StorageInv, StorageNext PROVE RowsKept
  OBVIOUS
<1>1. /\ users \in Seq(User) /\ chats \in Seq(Chat)
      /\ chatuser \in Seq(Chatuser) /\ messages \in Seq(Message)
  BY DEF StorageInv, StorageTypeOK
<1> DEFINE SameUsers == \A i \in DOMAIN users :
                           /\ i \in DOMAIN users'
                           /\ users'[i] = [users[i] EXCEPT
                                             !.heartbit = users'[i].heartbit]
           SameChats == \A i \in DOMAIN chats :
                           i \in DOMAIN chats' /\ chats'[i] = chats[i]
           SameLinks == \A i \in DOMAIN chatuser :
                           i \in DOMAIN chatuser' /\ chatuser'[i] = chatuser[i]
           SameMessages == \A i \in DOMAIN messages :
                           /\ i \in DOMAIN messages'
                           /\ \/ messages'[i] = messages[i]
                              \/ messages'[i] = [messages[i] EXCEPT
                                                   !.flags = "READ"]
<1>2. /\ users' = users => SameUsers
      /\ chats' = chats => SameChats
      /\ chatuser' = chatuser => SameLinks
      /\ messages' = messages => SameMessages
  <2>1. users' = users => SameUsers
    <3>1. \A i \in DOMAIN users : users[i] \in User
      BY <1>1
    <3>2. QED
      BY <3>1 DEF User
  <2>2. QED
    BY <2>1
<1>3. ASSUME NEW i \in DOMAIN users, NEW ts \in Time,
             updateUserHeartBit(users[i].id, ts)
      PROVE  SameUsers /\ SameChats /\ SameLinks /\ SameMessages
  <2>1. \A v \in DOMAIN users : users[v] \in User
    BY <1>1
  <2>2. SameUsers
    BY <1>3, <2>1 DEF updateUserHeartBit, User
  <2>3. QED
    BY <1>2, <1>3, <2>2 DEF updateUserHeartBit
<1>4. ASSUME NEW name \in Names, NEW pass \in Hashes, createUser(name, pass)
      PROVE  SameUsers /\ SameChats /\ SameLinks /\ SameMessages
  <2> DEFINE chat == [id |-> chat_autoincrement, name |-> name]
             user == [id |-> user_autoincrement,
                      self_chat_id |-> chat_autoincrement, heartbit |-> 0,
                      name |-> name, password |-> pass]
             row == [chatid |-> chat_autoincrement, uid |-> user_autoincrement]
  <2>1. chat \in Chat /\ user \in User /\ row \in Chatuser
    BY StorageAssumption
       DEF StorageInv, StorageTypeOK, Chat, User, Chatuser
  <2>2. /\ users' = Append(users, user) /\ chats' = Append(chats, chat)
        /\ chatuser' = Append(chatuser, row) /\ messages' = messages
    BY <1>4 DEF createUser
  <2>3. /\ \A v \in DOMAIN users : v \in DOMAIN users' /\ users'[v] = users[v]
        /\ SameChats /\ SameLinks
    BY <1>1, <2>1, <2>2, AppendRow
  <2>4. \A v \in DOMAIN users : users[v] \in User
    BY <1>1
  <2>5. SameUsers
    BY <2>3, <2>4 DEF User
  <2>6. QED
    BY <1>2, <2>2, <2>3, <2>5
<1>5. ASSUME NEW name \in Names, NEW i \in DOMAIN users,
             createChat(name, users[i].id)
      PROVE  SameUsers /\ SameChats /\ SameLinks /\ SameMessages
  <2> DEFINE chat == [id |-> chat_autoincrement, name |-> name]
             row == [chatid |-> chat_autoincrement, uid |-> users[i].id]
  <2>1. chat \in Chat /\ row \in Chatuser
    BY RowsTyped DEF StorageInv, StorageTypeOK, Chat, Chatuser
  <2>2. /\ users' = users /\ chats' = Append(chats, chat)
        /\ chatuser' = Append(chatuser, row) \/ chatuser' = chatuser
        /\ messages' = messages
    BY <1>5 DEF createChat
  <2>3. SameChats
    BY <1>1, <2>1, <2>2, AppendRow
  <2>4. SameLinks
    <3>1. CASE chatuser' = chatuser
      BY <1>2, <3>1
    <3>2. CASE chatuser' = Append(chatuser, row)
      BY <1>1, <2>1, <3>2, AppendRow
    <3>3. QED
      BY <2>2, <3>1, <3>2
  <2>5. QED
    BY <1>2, <2>2, <2>3, <2>4
<1>6. ASSUME NEW c \in DOMAIN chats, NEW i \in DOMAIN users,
             addUserToChat(chats[c].id, users[i].id)
      PROVE  SameUsers /\ SameChats /\ SameLinks /\ SameMessages
  <2> DEFINE row == [chatid |-> chats[c].id, uid |-> users[i].id]
  <2>1. row \in Chatuser
    BY RowsTyped DEF StorageInv, Chatuser
  <2>2. /\ users' = users /\ chats' = chats /\ messages' = messages
        /\ chatuser' = Append(chatuser, row) \/ chatuser' = chatuser
    BY <1>6 DEF addUserToChat
  <2>3. SameLinks
    <3>1. CASE chatuser' = chatuser
      BY <1>2, <3>1
    <3>2. CASE chatuser' = Append(chatuser, row)
      BY <1>1, <2>1, <3>2, AppendRow
    <3>3. QED
      BY <2>2, <3>1, <3>2
  <2>4. QED
    BY <1>2, <2>2, <2>3
<1>7. ASSUME NEW i \in DOMAIN users, NEW c \in DOMAIN chats,
             NEW ts \in Time, NEW text \in Texts,
             saveMessage(users[i].id, chats[c].id, ts, text)
      PROVE  SameUsers /\ SameChats /\ SameLinks /\ SameMessages
  <2> DEFINE row == [flags |-> "UNREAD", user_from |-> users[i].id,
                     chat_to |-> chats[c].id, ts |-> ts, message |-> text]
  <2>1. row \in Message
    BY RowsTyped DEF StorageInv, Message, Flags
  <2>2. /\ users' = users /\ chats' = chats /\ chatuser' = chatuser
        /\ messages' = Append(messages, row)
    BY <1>7 DEF saveMessage
  <2>3. SameMessages
    BY <1>1, <2>1, <2>2, AppendRow
  <2>4. QED
    BY <1>2, <2>2, <2>3
<1>8. ASSUME NEW c \in DOMAIN chats, NEW ts \in Time,
             getMessages(chats[c].id, ts, MessageLimit)
      PROVE  SameUsers /\ SameChats /\ SameLinks /\ SameMessages
  <2>1. SameMessages
    BY <1>8 DEF getMessages
  <2>2. QED
    BY <1>2, <1>8, <2>1 DEF getMessages
<1>9. SameUsers /\ SameChats /\ SameLinks /\ SameMessages
  BY <1>3, <1>4, <1>5, <1>6, <1>7, <1>8 DEF StorageNext
<1>10. QED
  BY <1>9 DEF RowsKept

\* Rows are immutable but for heartbit and flags, and READ is final.
THEOREM StorageAppendOnly == StorageSpec => AppendOnly
<1>1. StorageInv /\ [StorageNext]_storageVars => [RowsKept]_storageVars
  BY StepKeepsRows
<1>2. QED
  BY <1>1, StorageInvariant, PTL DEF StorageSpec, AppendOnly

=============================================================================
