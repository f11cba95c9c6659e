--------------------------- MODULE MessageStream ---------------------------
(***************************************************************************)
(* What an AsyncHttpClient promises the object that owns it (an ApiClient  *)
(* of the server, the Client of the console program), whatever the network *)
(* does to the bytes: every call of asyncResponse is answered once, by the *)
(* next message the peer sent, whole, or by an error after which there is  *)
(* nothing to ask.                                                         *)
(***************************************************************************)
EXTENDS Naturals, Sequences

CONSTANTS
    Message,   \* the messages a peer may send
    Malformed  \* what the parser cannot accept

VARIABLES
    sent,      \* the messages of the peer, in order
    delivered, \* the messages handed to the owner, in order
    asked,     \* an asyncResponse has not been answered yet
    failure    \* "none", or the error that ended the stream

streamVars == <<sent, delivered, asked, failure>>

Failures == {"protocol", "eof", "aborted"}

Init ==
    /\ sent \in Seq(Message)
    /\ delivered = <<>>
    /\ ~asked
    /\ failure = "none"

Ask ==
    /\ ~asked
    /\ failure = "none"
    /\ asked' = TRUE
    /\ UNCHANGED <<sent, delivered, failure>>

NextMessage == sent[Len(delivered) + 1]

AnswerMessage ==
    /\ asked
    /\ Len(delivered) < Len(sent)
    /\ NextMessage # Malformed
    /\ delivered' = Append(delivered, NextMessage)
    /\ asked' = FALSE
    /\ UNCHANGED <<sent, failure>>

(* Only a message the parser cannot accept is answered "protocol error".   *)
AnswerError(why) ==
    /\ asked
    /\ why = "protocol" =>
          /\ Len(delivered) < Len(sent)
          /\ NextMessage = Malformed
    /\ failure' = why
    /\ asked' = FALSE
    /\ UNCHANGED <<sent, delivered>>

Next ==
    \/ Ask
    \/ AnswerMessage
    \/ \E why \in Failures : AnswerError(why)

Spec == Init /\ [][Next]_streamVars
=============================================================================
