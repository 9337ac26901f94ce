----------------------------- MODULE MCTelegram -----------------------------
(* Small instances of Telegram for TLC.                                    *)
EXTENDS Telegram

CONSTANTS alice, bob, private, group

\* A private chat of one user, and a group of two.
MCMembers  == [c \in Chats |-> IF c = private THEN {alice} ELSE {alice, bob}]
MCMaxTexts == [c \in Chats |-> IF c = private THEN 1 ELSE 2]
=============================================================================
