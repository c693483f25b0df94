-------------------------------- MODULE Inbox --------------------------------
(***************************************************************************)
(* What the inbox of an agent promises: messages are appended one by one,   *)
(* and a consumer takes everything that is unread, in the order in which it *)
(* was written, exactly once.                                              *)
(***************************************************************************)
EXTENDS Sequences

CONSTANT Message

VARIABLES unread, delivered

box == << unread, delivered >>

Init == unread = << >> /\ delivered = << >>

Append1(m) == unread' = Append(unread, m) /\ UNCHANGED delivered

TakeAll == delivered' = delivered \o unread /\ unread' = << >>

Next == TakeAll \/ \E m \in Message : Append1(m)

Spec == Init /\ [][Next]_box
=============================================================================
