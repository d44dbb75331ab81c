---------------------------- MODULE ServerMailbox ----------------------------
(***************************************************************************)
(* The broker as a mailbox: what Server does for one identifier, seen      *)
(* through the abstract specification of Mailbox.                          *)
(***************************************************************************)
EXTENDS Server

TheId == CHOOSE id \in Ids : TRUE

(* The record of the identifier, if it has one marked as connected. *)
ConnectedRecord == {i \in get_client_by_id(TheId) : subscribers[i].connected}

LineOfId ==
  IF ConnectedRecord = {} THEN "away"
  ELSE IF \E i \in ConnectedRecord : PeerOpen(subscribers[i].socket)
       THEN "listening" ELSE "ended"

OptionOf(t) ==
  IF TopicOf(TheId, t) = {} THEN "none"
  ELSE IF \E j \in TopicOf(TheId, t) : topics[TheId][j].sf = 1 THEN "kept" ELSE "plain"

(* The mailbox knows the names that leave room for their terminator. *)
RoomyNames == Topics \ FullNames

Box == INSTANCE Mailbox WITH
  Topics <- RoomyNames,
  line   <- LineOfId,
  option <- [t \in RoomyNames |-> OptionOf(t)],
  store  <- [t \in RoomyNames |-> Replayed(TheId, t)],
  got    <- [t \in RoomyNames |-> received[TheId][t]],
  last   <- published

(***************************************************************************)
(* With one identifier in use, the broker is that mailbox: a message is    *)
(* delivered at once, or kept and delivered before anything newer, and it  *)
(* is lost only in the window between the end of the process and the       *)
(* end-of-file the broker reads (send_tcp_msg, utils.c:420-444, with       *)
(* disconnect_client and reconnect_old_sub).                               *)
(***************************************************************************)
ImplementsMailbox == Box!Spec

=============================================================================
