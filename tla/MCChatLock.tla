----------------------------- MODULE MCChatLock -----------------------------
(* Small instances of ChatLock for TLC.                                     *)
EXTENDS ChatLock, TLC

CONSTANTS m3, own

(* Every list given to setMessages, but the chat's own, holds one message.  *)
OneNew == [l \in Lists |-> IF l = own THEN <<>> ELSE <<m3>>]
=============================================================================
