------------------------------ MODULE MCClient ------------------------------
(***************************************************************************)
(* Client with two endpoints.  Who listens types LOGIN, the commands that  *)
(* change the mode, one that is only sent and QUIT; who chats, LOGIN with  *)
(* the right password and the commands that change the mode.  Who types    *)
(* tries every command, with arguments that a parser may get wrong, and    *)
(* who goes on types several, both over a network without faults.          *)
(***************************************************************************)
EXTENDS Client

MCNumeral == ("5" :> 5)
MCLongWords == {"password"}

MCMe == <<Word("me")>>
Bob == <<Word("bob")>>
Team == <<Word("team")>>
MCRight == <<Word("password")>>
Wrong == <<Word("guess")>>
Text == <<Word("hi"), Sign(","), Space, Space, Word("bob"), Sign("!")>>

FewCommands == {
    <<"login", MCMe, MCRight>>, <<"login", MCMe, Wrong>>, <<"unchat">>,
    <<"chat_with", Bob>>, <<"history", Bob>>, <<"quit">>}

AllCommands == FewCommands \union {
    <<"help">>, <<"history", Bob, <<Word("5")>>>>,
    <<"history", Bob, <<Sign("-"), Word("5")>>>>, <<"history", Bob, Team>>,
    <<"status", Bob>>, <<"status", MCMe>>, <<"register", Bob, MCRight>>,
    <<"register", Bob, <<Sign("*"), Word("password")>>>>,
    <<"register_g", Team>>, <<"add_to_g", Bob, Team>>,
    <<"direct_msg", Bob, Text>>, <<"direct_msg", Bob, <<Sign("?")>>>>,
    <<"direct_msg_g", Team, Text>>, <<"direct_msg_g", Team>>,
    <<"history_g", Team>>, <<"status_g", Team>>, <<"hello", Bob, Team>>}

ChatCommands == {
    <<"login", MCMe, MCRight>>, <<"unchat">>, <<"chat_with", Bob>>}

SomeCommands == {
    <<"login", MCMe, MCRight>>, <<"unchat">>, <<"chat_with", Bob>>,
    <<"history", Bob, <<Word("5")>>>>, <<"history", Bob, <<Sign("-"), Word("5")>>>>}

MCTempers == {"listens", "chats", "types", "goes on"}
MCTypable == [listens |-> FewCommands, chats |-> ChatCommands, types |-> AllCommands] @@
             ("goes on" :> SomeCommands)
MCMaxFaults == [listens |-> 3, chats |-> 1, types |-> 0] @@ ("goes on" :> 0)
MCMaxTyped == [listens |-> 2, chats |-> 1, types |-> 1] @@ ("goes on" :> 2)

\* The parser reads every one of these lines as it was meant.
ASSUME LinesAreRead == WishesAreRead

ChatTempers == {"chats"}
ChatMaxFaults == [chats |-> 2]
ChatMaxTyped == [chats |-> 1]

ChatTypable == [chats |-> {<<"login", MCMe, MCRight>>, <<"unchat">>}]
=============================================================================
