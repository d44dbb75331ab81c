------------------------------ MODULE Downlink ------------------------------
(***************************************************************************)
(* The stream from the broker to one subscriber, and the subscriber's      *)
(* receive loop (subscriber.c:160-201).  The broker writes every message   *)
(* with two calls of send(): ten characters that give its size, then the   *)
(* message.  The subscriber reads the size, then reads until it has that   *)
(* many characters, always to the beginning of its buffer.                 *)
(*                                                                         *)
(* Characters are grouped in cells, known by their position in the stream. *)
(* TCP keeps their order and loses none, and recv() returns as many of     *)
(* them as have arrived, up to the number it asks for.  A network may cut  *)
(* what one send() has written, or the messages and never their sizes, or  *)
(* nothing; all three are considered.                                      *)
(*                                                                         *)
(* The two memset() of the loop (subscriber.c:163, 175) clear one byte     *)
(* more than tcp_msg_buffer has.  The byte behind it is not modelled.      *)
(***************************************************************************)
EXTENDS Integers, Sequences

CONSTANTS
  HeaderLen,       \* cells of the size
  DigitCells,      \* how many of them hold its digits; the others are zeros
  BodyLen,         \* cells of a message
  TruncatedSize,   \* the number that a part of the digits gives
  MaxFrames        \* bound: messages the broker sends

ASSUME DownlinkAssumption ==
  /\ HeaderLen \in Nat \ {0}
  /\ DigitCells \in 1 .. HeaderLen
  /\ BodyLen \in Nat \ {0}
  /\ TruncatedSize \in 1 .. BodyLen
  /\ MaxFrames \in Nat

VARIABLES
  cuts,      \* what the network may cut: "nothing", "messages" or "anything"
  written,   \* cells the broker has written
  arrived,   \* cells that have reached the subscriber's kernel
  taken,     \* cells recv() has returned
  stdin,     \* "quiet", a "line" can be read, or "eof": closed
  link,      \* "open", "closed" by the broker, or "reset" by its side
  pc,        \* which recv() is next, or how the subscriber has ended
  size, got, \* the variables of the loop
  buffer,    \* tcp_msg_buffer: the cell at each place, 0 for zeros
  shown      \* what has been printed: numbers of messages, 0 for any other text

vars == <<cuts, written, arrived, taken, stdin, link, pc, size, got, buffer, shown>>

FrameLen == HeaderLen + BodyLen

(* TCP_MSG_SIZE is one more than the message. *)
BufferLen == BodyLen + 1

Zeros == [i \in 1 .. BufferLen |-> 0]

TypeOK ==
  /\ cuts \in {"nothing", "messages", "anything"}
  /\ written \in 0 .. MaxFrames * FrameLen
  /\ arrived \in 0 .. written
  /\ taken \in 0 .. arrived
  /\ stdin \in {"quiet", "line", "eof"}
  /\ link \in {"open", "closed", "reset"}
  /\ pc \in {"size", "message", "ended", "left", "died"}
  /\ size \in 0 .. BodyLen
  /\ got \in 0 .. 2 * BufferLen
  /\ buffer \in [1 .. BufferLen -> 0 .. written]
  /\ shown \in Seq(0 .. MaxFrames)

Init ==
  /\ cuts \in {"nothing", "messages", "anything"}
  /\ written = 0
  /\ arrived = 0
  /\ taken = 0
  /\ stdin = "quiet"
  /\ link = "open"
  /\ pc = "size"
  /\ size = 0
  /\ got = 0
  /\ buffer = Zeros
  /\ shown = <<>>

-----------------------------------------------------------------------------
(* The broker and the network. *)

(* send_tcp_msg_to_conn_client, and the same pair of calls elsewhere. *)
SendSize ==
  /\ link = "open"
  /\ written % FrameLen = 0
  /\ written < MaxFrames * FrameLen
  /\ written' = written + HeaderLen
  /\ UNCHANGED <<cuts, arrived, taken, stdin, link, pc, size, got, buffer, shown>>

SendBody ==
  /\ link = "open"
  /\ written % FrameLen = HeaderLen
  /\ written' = written + BodyLen
  /\ UNCHANGED <<cuts, arrived, taken, stdin, link, pc, size, got, buffer, shown>>

(* `exit` ends the broker between two messages; an interrupt may end it    *)
(* between the two calls.  With commands unread, its side sends a reset    *)
(* in place of the end of the stream.                                      *)
ServerCloses ==
  /\ link = "open"
  /\ link' \in {"closed", "reset"}
  /\ UNCHANGED <<cuts, written, arrived, taken, stdin, pc, size, got, buffer, shown>>

(* Where the text of one send() ends. *)
SendEnds(n) == n % FrameLen \in {0, HeaderLen}

(* Where what arrives may end. *)
CutAt(n) ==
  \/ SendEnds(n)
  \/ cuts = "messages" /\ n % FrameLen > HeaderLen
  \/ cuts = "anything"

(* What has not arrived when the connection is reset never does. *)
Arrive ==
  /\ link # "reset"
  /\ \E n \in arrived + 1 .. written :
       /\ CutAt(n)
       /\ arrived' = n
  /\ UNCHANGED <<cuts, written, taken, stdin, link, pc, size, got, buffer, shown>>

(* The user. *)
TypeLine ==
  /\ stdin = "quiet"
  /\ stdin' \in {"line", "eof"}
  /\ UNCHANGED <<cuts, written, arrived, taken, link, pc, size, got, buffer, shown>>

-----------------------------------------------------------------------------
(* The subscriber. *)

Available == arrived - taken

AtMost(n) == IF n < Available THEN n ELSE Available

(* recv() returns 0; it may after a reset too, when the end came first. *)
EndOfStream == link # "open" /\ arrived = written /\ Available = 0

(* A faulty form: as much as the buffer holds. *)
SizeAsked_Buffer == BufferLen

SizeAsked == HeaderLen

(* A faulty form: as much as the buffer holds. *)
MessageAsked_Buffer == BufferLen

MessageAsked == size

(***************************************************************************)
(* The values atoi may give for k cells that follow cell p.  A size is at  *)
(* the beginning of a frame, and again at the beginning of the message:    *)
(* the first field of TCP_msg is the size.  Zeros give 0; the middle of a  *)
(* message may give any number (bound: none above the real size).          *)
(***************************************************************************)
SizeRead(p, k) ==
  LET at == p % FrameLen IN
  IF at \in {0, HeaderLen}
  THEN {IF k >= DigitCells THEN BodyLen ELSE TruncatedSize}
  ELSE IF at \in DigitCells .. HeaderLen - 1 THEN {0}
  ELSE 0 .. BodyLen

(* The loop looks at STDIN first, and at the socket when nothing is typed. *)
SocketsTurn == pc = "size" /\ stdin = "quiet"

(* A line is read that sends nothing: `exit`, or no command.  At the end   *)
(* of STDIN fgets() returns nothing, for ever.                             *)
ReadLine ==
  /\ pc = "size"
  /\ stdin = "line"
  /\ stdin' = "quiet"
  /\ pc' \in {"size", "left"}
  /\ UNCHANGED <<cuts, written, arrived, taken, link, size, got, buffer, shown>>

(* A command is read and sent (Uplink).  The side of a broker that has     *)
(* closed answers with a reset, soon or late; after a reset send() fails   *)
(* and the program ends, by DIE or by SIGPIPE, or it does not know yet.    *)
ReadCommand ==
  /\ pc = "size"
  /\ stdin = "line"
  /\ stdin' = "quiet"
  /\ \/ link # "reset" /\ UNCHANGED <<link, pc>>
     \/ link = "closed" /\ link' = "reset" /\ UNCHANGED pc
     \/ link = "reset" /\ pc' \in {"size", "died"} /\ UNCHANGED link
  /\ UNCHANGED <<cuts, written, arrived, taken, size, got, buffer, shown>>

(* A faulty form: the buffer keeps the message printed before. *)
Cleared_NotAtAll == buffer

Cleared == Zeros

(* A faulty form: the count of the message before is not reset. *)
RecvSize_KeepsCount ==
  /\ SocketsTurn
  /\ Available > 0
  /\ LET k == AtMost(SizeAsked) IN
     /\ taken' = taken + k
     /\ size' \in SizeRead(taken, k)
  /\ pc' = IF size' = 0 THEN "died" ELSE "message"
  /\ buffer' = Cleared
  /\ UNCHANGED <<cuts, written, arrived, stdin, link, got, shown>>

(* The size is read; 0 is an error. *)
RecvSize ==
  /\ SocketsTurn
  /\ Available > 0
  /\ LET k == AtMost(SizeAsked) IN
     /\ taken' = taken + k
     /\ size' \in SizeRead(taken, k)
  /\ pc' = IF size' = 0 THEN "died" ELSE "message"
  /\ got' = 0
  /\ buffer' = Cleared
  /\ UNCHANGED <<cuts, written, arrived, stdin, link, shown>>

RecvSizeEnds ==
  /\ SocketsTurn
  /\ EndOfStream
  /\ pc' = "ended"
  /\ UNCHANGED <<cuts, written, arrived, taken, stdin, link, size, got, buffer, shown>>

(* The message that the buffer holds, 0 for none. *)
MessageIn(b) ==
  LET last == b[BodyLen]
      start == last - BodyLen
  IN IF last > 0 /\ last % FrameLen = 0 /\ \A i \in 1 .. BodyLen : b[i] = start + i
     THEN last \div FrameLen
     ELSE 0

(* A faulty form: the loop goes on when it has exactly what it needs. *)
Complete_OneMore(n) == n > size

Complete(n) == n >= size

(* What one recv() returns goes to the beginning of the buffer. *)
RecvMessage ==
  /\ pc = "message"
  /\ Available > 0
  /\ LET k == AtMost(MessageAsked) IN
     /\ taken' = taken + k
     /\ got' = got + k
     /\ buffer' = [i \in 1 .. BufferLen |-> IF i <= k THEN taken + i ELSE buffer[i]]
  /\ IF Complete(got')
     THEN pc' = "size" /\ shown' = Append(shown, MessageIn(buffer'))
     ELSE UNCHANGED <<pc, shown>>
  /\ UNCHANGED <<cuts, written, arrived, stdin, link, size>>

(* The end of the stream leaves the inner loop: what is there is printed. *)
RecvMessageEnds ==
  /\ pc = "message"
  /\ EndOfStream
  /\ pc' = "size"
  /\ shown' = Append(shown, MessageIn(buffer))
  /\ UNCHANGED <<cuts, written, arrived, taken, stdin, link, size, got, buffer>>

(* recv() fails once what has arrived is read, and DIE ends the program. *)
RecvFails ==
  /\ SocketsTurn \/ pc = "message"
  /\ link = "reset"
  /\ Available = 0
  /\ pc' = "died"
  /\ UNCHANGED <<cuts, written, arrived, taken, stdin, link, size, got, buffer, shown>>

Subscriber ==
  ReadLine \/ ReadCommand \/ RecvSize \/ RecvSizeEnds \/ RecvMessage \/ RecvMessageEnds \/ RecvFails

Next == SendSize \/ SendBody \/ ServerCloses \/ Arrive \/ TypeLine \/ Subscriber

(* The network delivers in the end, and the loop of the subscriber runs.   *)
(* The broker may stop sending, and the user may leave, at any time.       *)
Spec == Init /\ [][Next]_vars /\ WF_vars(Arrive) /\ WF_vars(Subscriber)

-----------------------------------------------------------------------------
(* What is printed is what was sent, each message once, in order and       *)
(* unharmed; one that the broker did not finish is the only exception.     *)
Faithful ==
  \A i \in DOMAIN shown :
    \/ shown[i] = i
    \/ link # "open" /\ written < i * FrameLen /\ shown[i] = 0

(* The subscriber prints faithfully, in whatever groups the messages       *)
(* arrive, as long as what one send() has written is not cut: the two      *)
(* calls of recv() in subscriber.c:164-187 keep in step with the stream.   *)
ShownIsSent == cuts = "nothing" => Faithful

(* When the connection ends, everything sent before has been printed:      *)
(* subscriber.c:167-169 leaves the loop only then.                         *)
NothingLostAtEnd == cuts = "nothing" /\ pc = "ended" => written <= Len(shown) * FrameLen

(***************************************************************************)
(* A user who stops typing, and does not close STDIN, sees every message   *)
(* that is sent: the inner loop never waits for more than the message has  *)
(* (subscriber.c:177-187).  A user who types on, or closes STDIN, may see  *)
(* nothing (subscriber.c:104 and 160).  Nor is anything promised after a   *)
(* reset, which the broker's end causes when it leaves commands unread,    *)
(* and the user's when a command follows the end of the broker.            *)
(***************************************************************************)
EverythingShown ==
  <>[](stdin = "quiet") =>
    \A n \in 1 .. MaxFrames :
      cuts = "nothing" /\ written >= n * FrameLen
        ~> Len(shown) >= n \/ pc = "left" \/ link = "reset"

(* Even when the network cuts messages and the loop falls out of step with *)
(* the stream, no message is printed a second time or after a later one:   *)
(* the buffer is cleared for each (subscriber.c:163 and 175).              *)
IntactOnce ==
  \A i, k \in DOMAIN shown : i < k /\ shown[i] # 0 /\ shown[k] # 0 => shown[i] < shown[k]

(* The message is collected from the pieces in which TCP delivers it       *)
(* (README.md:143), given that its size arrives in one piece.              *)
PiecesAreJoined == cuts # "anything" => Faithful

=============================================================================
