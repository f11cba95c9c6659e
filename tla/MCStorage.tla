------------------------------ MODULE MCStorage ------------------------------
(* Storage on a small instance: two names, so that a group and a user can    *)
(* want the same one, and room for a chat of each kind and name.             *)
EXTENDS Storage

CONSTANTS
    MaxChats,     \* bound: rows of the chat table
    MaxMessages   \* bound: rows of the message table

MCNames == {"alice", "bob"}
MCHashes == {"crc"}
MCTexts == {"text"}
MCTime == 0 .. 1

MCNext ==
    /\ StorageNext
    /\ Len(chats') <= MaxChats
    /\ Len(messages') <= MaxMessages

MCSpec == StorageInit /\ [][MCNext]_storageVars
=============================================================================
