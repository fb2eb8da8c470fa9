---------------------------- MODULE MCIMStorage ----------------------------
(* Small instances of IMStorage for TLC.                                    *)
EXTENDS IMStorage, TLC

CONSTANTS i1, i2, o1, o2, o3, u1, u2, k1, k2

(* o2 is a copy of o1.                                                      *)
CopyOfFirst == [o \in Objects |-> IF o = o3 THEN i2 ELSE i1]

(* Every message goes from one user to the other.                           *)
ToFirst == [i \in Ids |-> u1]
FromSecond == [i \in Ids |-> u2]

(* The first message is in the chat of its sender, the second in a chat     *)
(* that is no user's.                                                       *)
SenderOrKey == [i \in Ids |-> IF i = i1 THEN {u2} ELSE {k1}]

(* The chat ids of CommunicationlogicTests: keys of their own.              *)
OwnKeys == [i \in Ids |-> IF i = i1 THEN {k1} ELSE {k2}]
=============================================================================
