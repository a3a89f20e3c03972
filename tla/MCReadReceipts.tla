--------------------------- MODULE MCReadReceipts ---------------------------
(***************************************************************************)
(* Instances of ReadReceipts for TLC: a group with two senders and a chat  *)
(* that the server names by its LID and the consumers by its phone number. *)
(***************************************************************************)
EXTENDS ReadReceipts, TLC

CONSTANTS group, lid, phone, s1, s2, m1, m2, m3

MCKeyOf ==
    m1 :> [chat |-> group, sender |-> s1]
    @@ m2 :> [chat |-> group, sender |-> s2]
    @@ m3 :> [chat |-> lid, sender |-> NoSender]

MCResolve == [j \in Jids |-> IF j = lid THEN phone ELSE j]
====
