-------------------------- MODULE MCTelegramSender --------------------------
(* TLC instance of TelegramSender: two authorized chats.                    *)
EXTENDS TelegramSender

CONSTANTS ops, noc

TwoChats == <<ops, noc>>
=============================================================================
