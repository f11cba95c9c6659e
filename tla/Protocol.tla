------------------------------ MODULE Protocol ------------------------------
(***************************************************************************)
(* From a line the user types to what the server takes it for: the parser  *)
(* of the console client (client/src/apiclient_utils.cpp), the bodies it   *)
(* builds, the router of the server and its parse_meta, which fills the    *)
(* RequestDetails of a connection (server/src/apiclient.cpp).              *)
(*                                                                         *)
(* A line is a sequence of symbols: a word, which is a longest run of the  *)
(* characters \w of a regular expression, a space, or one other character. *)
(* A string parameter is a sequence of symbols, too.                       *)
(***************************************************************************)
EXTENDS Integers, Sequences, FiniteSets, SequencesExt

CONSTANTS
    Numeral,     \* the words stoi reads, with their values
    LongWords    \* the words of at least pass_len characters

ASSUME ProtocolConstants ==
    /\ \A word \in DOMAIN Numeral : Numeral[word] \in Nat
    /\ "" \notin LongWords

Symbol(kind, text, upper) == [kind |-> kind, text |-> text, upper |-> upper]
Word(text) == Symbol("word", text, FALSE)
UpperWord(text) == Symbol("word", text, TRUE)
Space == Symbol("space", " ", FALSE)
Sign(text) == Symbol("sign", text, FALSE)

-----------------------------------------------------------------------------
(* Strings.                                                                *)

(* What follows the leading symbols of a kind.                             *)
Skip(kind, s) ==
    LET n == Max({k \in 0..Len(s) : \A i \in 1..k : s[i].kind = kind})
    IN  SubSeq(s, n + 1, Len(s))

trimmed(s) == Reverse(Skip("space", Reverse(Skip("space", s))))

(* split(s, " "): two spaces in a row have an empty part between them.     *)
split(s) ==
    LET cuts == {0, Len(s) + 1} \union {i \in DOMAIN s : s[i] = Space}
        cut == [k \in 1..Cardinality(cuts) |->
                   CHOOSE i \in cuts : Cardinality({j \in cuts : j < i}) = k - 1]
    IN  [k \in 1..(Len(cut) - 1) |-> SubSeq(s, cut[k] + 1, cut[k + 1] - 1)]

lowercased(s) == [i \in DOMAIN s |-> [s[i] EXCEPT !.upper = FALSE]]

(* The size_t of a negative number, above what IsUint takes.               *)
Huge == -1

(* size_t count = std::stoi(s), or what it was when stoi throws.           *)
Count(s, default) ==
    CASE Len(s) = 1 /\ s[1].text \in DOMAIN Numeral -> Numeral[s[1].text]
      [] /\ Len(s) = 2 /\ s[1] = Sign("-")
         /\ s[2].text \in DOMAIN Numeral -> Huge
      [] OTHER -> default

-----------------------------------------------------------------------------
(* input::parse                                                            *)

(* What is typed for each cmd_t, and how many parts it must have.          *)
Commands ==
    [HELP |-> <<"help", 1>>, QUIT |-> <<"quit", 1>>, UNCHAT |-> <<"unchat", 1>>,
     CHAT_WITH_USER |-> <<"chat_with", 2>>, REGISTER_GROUP |-> <<"register_g", 2>>,
     HISTORY_USER |-> <<"history", 2>>, HISTORY_GROUP |-> <<"history_g", 2>>,
     STATUS_USER |-> <<"status", 2>>, STATUS_GROUP |-> <<"status_g", 2>>,
     LOGIN |-> <<"login", 3>>, REGISTER_USER |-> <<"register", 3>>,
     DIRECT_MSG_USER |-> <<"direct_msg", 3>>, ADD_TO_GROUP |-> <<"add_to_g", 3>>,
     DIRECT_MSG_GROUP |-> <<"direct_msg_g", 3>>]

(* The regular expression wants two words, spaces around them, and takes   *)
(* the rest; without a second word it takes the end of the first for it.   *)
get_msg_after_command(line) ==
    LET first == Skip("space", line)
        second == Skip("space", Skip("word", first))
    IN  IF first = <<>> \/ Head(first).kind # "word" THEN <<>>
        ELSE Skip("space", Skip("word", second))

(* The fields of args_t: `name' is login.name, reg.name, chat.name,        *)
(* group.username, history.name, direct.name or status.name.               *)
args_t(cmd) ==
    [cmd |-> cmd, name |-> <<>>, pass |-> <<>>, groupname |-> <<>>, count |-> 10,
     message |-> <<>>]

parse(line) ==
    LET parts == split(line)
        Is(cmd) == /\ lowercased(parts[1]) = <<Word(Commands[cmd][1])>>
                   /\ Len(parts) >= Commands[cmd][2]
        known == {cmd \in DOMAIN Commands : Is(cmd)}
        ret == args_t(CHOOSE cmd \in known : TRUE)
    IN  IF known = {} THEN args_t("NONE")
        ELSE
        CASE known \subseteq {"HELP", "QUIT", "UNCHAT"} -> ret
          [] known \subseteq {"CHAT_WITH_USER", "STATUS_USER", "STATUS_GROUP"} ->
               [ret EXCEPT !.name = parts[2]]
          [] known = {"REGISTER_GROUP"} -> [ret EXCEPT !.groupname = parts[2]]
          [] known \subseteq {"HISTORY_USER", "HISTORY_GROUP"} ->
               [ret EXCEPT !.name = parts[2],
                           !.count = IF Len(parts) > 2 THEN Count(parts[3], @)
                                     ELSE @]
          [] known \subseteq {"LOGIN", "REGISTER_USER"} ->
               [ret EXCEPT !.name = parts[2], !.pass = parts[3]]
          [] known \subseteq {"DIRECT_MSG_USER", "DIRECT_MSG_GROUP"} ->
               [ret EXCEPT !.name = parts[2],
                           !.message = get_msg_after_command(line)]
          [] known = {"ADD_TO_GROUP"} ->
               [ret EXCEPT !.name = parts[2], !.groupname = parts[3]]

-----------------------------------------------------------------------------
(* The bodies of requests: JSON objects, here records.                     *)

build_user_pass_body(user, pass) == [user |-> user, password |-> pass]

(* An object without the members that the client leaves out.               *)
Without(body, members) == Restrict(body, DOMAIN body \ members)

build_user_send_msg_body(from, ts, to, msg, pass) ==
    Without([uid |-> from, heartbit |-> ts, to |-> to, message |-> msg,
             password |-> pass],
            IF ts = 0 THEN {"heartbit"} ELSE {})

\* Slip: the default is left out.
build_user_history_msg_bodyShort(from, name, count, pass) ==
    Without([uid |-> from, user |-> name, count |-> count, password |-> pass],
            IF count = 10 THEN {"count"} ELSE {})

build_user_history_msg_body(from, name, count, pass) ==
    [uid |-> from, user |-> name, count |-> count, password |-> pass]

build_groups_msg_body(from, groupname, username, message, pass) ==
    Without([uid |-> from, chatname |-> groupname, adduser |-> username,
             message |-> message, password |-> pass],
            {member \in {"adduser"} : username = <<>>} \union
            {member \in {"message"} : message = <<>>})

(* common::cmd2string                                                      *)
cmd2string ==
    [MESSAGE_SEND |-> "/v1/message/send", MESSAGE_SEND_CHAT |-> "/v1/message/sendchat",
     USER_CREATE |-> "/v1/user/create", USER_LOGIN |-> "/v1/user/login",
     CHAT_CREATE |-> "/v1/chat/create", USER_HISTORY |-> "/v1/user/history",
     CHAT_HISTORY |-> "/v1/group/history", USER_STATUS |-> "/v1/user/status",
     CHAT_STATUS |-> "/v1/chat/status", CHAT_ADDUSER |-> "/v1/chat/adduser",
     MESSAGE_RECENT |-> "/v1/message/recent", IDLE |-> "/v1/idle"]

-----------------------------------------------------------------------------
(* The server.                                                             *)

(* The command of a resource; two have a name and no route.                *)
Route(resource) ==
    LET routed == {command \in DOMAIN cmd2string \ {"CHAT_STATUS", "MESSAGE_RECENT"} :
                      cmd2string[command] = resource}
    IN  IF routed = {} THEN "NOT_FOUND" ELSE CHOOSE command \in routed : TRUE

(* RequestDetails::Params, under the names of the JSON members.            *)
Params ==
    [uid |-> 0, heartbit |-> 0, count |-> 0, message |-> <<>>, to |-> <<>>,
     user |-> <<>>, password |-> <<>>, chatname |-> <<>>, adduser |-> <<>>]

(* find_required_string_param, find_required_uint_param                    *)
Finds(body, param) ==
    /\ param \in DOMAIN body
    /\ body[param] # IF param \in {"uid", "heartbit", "count"} THEN Huge ELSE <<>>

(* What a request can be for, and what parse_meta then asks for, in this    *)
(* order, and what it only takes.                                          *)
RequestCommands == DOMAIN cmd2string \union {"NOT_FOUND"}

Required ==
    [command \in RequestCommands |->
        <<"password">> \o
        CASE command \in {"USER_CREATE", "USER_LOGIN"}   -> <<"user">>
          [] command = "CHAT_CREATE"                     -> <<"uid", "chatname">>
          [] command = "CHAT_ADDUSER"                    -> <<"uid", "chatname", "adduser">>
          [] command \in {"USER_HISTORY", "USER_STATUS"} -> <<"uid", "user">>
          [] command = "MESSAGE_SEND"                    -> <<"uid", "message", "to">>
          [] command = "MESSAGE_SEND_CHAT"               -> <<"uid", "message", "chatname">>
          [] OTHER                                       -> <<"uid">>]

Optional ==
    [command \in RequestCommands |->
        CASE command = "IDLE"                            -> {"heartbit"}
          [] command \in {"USER_HISTORY", "USER_STATUS"} -> {"count"}
          [] OTHER                                       -> {}]

password_check(password) ==
    /\ password # <<>>
    /\ \A i \in DOMAIN password : password[i].kind = "word"
    /\ password[1].text \in LongWords

(* The params after the body was read, and whether it is refused.  What    *)
(* stands before the first parameter missing is taken, and what the body   *)
(* does not have stays as an earlier request of the connection left it.    *)
parse_meta(params, body, command) ==
    LET required == Required[command]
        missing == {i \in DOMAIN required : ~Finds(body, required[i])}
        taken == IF missing # {} THEN {required[i] : i \in 1..(Min(missing) - 1)}
                 ELSE ToSet(required) \union
                      {param \in Optional[command] : Finds(body, param)}
        Now(param) == IF param \in taken THEN body[param] ELSE params[param]
    IN  [error |-> \/ missing # {}
                   \/ command = "USER_CREATE" /\ ~password_check(body.password),
         params |-> [uid |-> Now("uid"), heartbit |-> Now("heartbit"),
                     count |-> Now("count"), message |-> Now("message"),
                     to |-> Now("to"), user |-> Now("user"),
                     password |-> Now("password"), chatname |-> Now("chatname"),
                     adduser |-> Now("adduser")]]

(* The JSON member "id" of an answer: of the user logged in, created or    *)
(* asked for.  parse_response_aswer leaves uid at 0 when there is none.     *)
UserAnswers == {"USER_LOGIN", "USER_CREATE", "USER_STATUS"}
parse_response_aswer(command, id) == IF command \in UserAnswers THEN id ELSE 0
=============================================================================
