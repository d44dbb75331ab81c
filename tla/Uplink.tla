-------------------------------- MODULE Uplink --------------------------------
(***************************************************************************)
(* From the keyboard of one subscriber to the broker: the lines it types   *)
(* (subscriber.c:104-158), the stream of the connection, and the broker's  *)
(* two kinds of recv(): one for the identifier, which takes all there is,  *)
(* and one for each command, which takes at most one Action (server.c:172  *)
(* and :219).                                                              *)
(*                                                                         *)
(* The stream is the identifier, then one Action after the other.  Its     *)
(* text is grouped in cells, known by their position.  As in Downlink, TCP *)
(* keeps their order, recv() returns what has arrived, and the network     *)
(* either cuts what one send() wrote or does not.  A subscriber that       *)
(* leaves messages unread resets the connection instead of closing it:     *)
(* see RecvFails in Server.                                                *)
(*                                                                         *)
(* An Action begins with "subscribe" or with "unsubscribe", which is the   *)
(* same word behind a prefix; the rest of the field is no text.  No        *)
(* identifier and no topic is called like a command, and a topic has       *)
(* NameLen cells: it leaves room for its terminator.                       *)
(***************************************************************************)
EXTENDS Integers, Sequences

CONSTANTS
  IdLen,      \* cells of the identifier
  PrefixLen,  \* cells of "un"
  WordLen,    \* cells of "subscribe"
  TypeLen,    \* cells of the fields of an Action
  NameLen,    \* cells of the name of a topic
  TopicLen,
  BUFF_LEN,   \* cells of the buffer of the first recv()
  MaxLines    \* bound: lines the user types

ActionLen == TypeLen + TopicLen + 1

ASSUME UplinkAssumption ==
  /\ IdLen \in Nat \ {0} /\ BUFF_LEN \in Nat \ {0} /\ MaxLines \in Nat
  /\ PrefixLen \in Nat \ {0} /\ WordLen \in Nat /\ PrefixLen < WordLen
  /\ TypeLen \in Nat /\ PrefixLen + WordLen < TypeLen
  /\ NameLen \in Nat /\ PrefixLen <= NameLen
  /\ TopicLen \in Nat /\ NameLen < TopicLen

VARIABLES
  piped,     \* STDIN is a pipe: one read() takes every line that is there
  cuts,      \* the network may cut what one send() has written
  typed,     \* lines of STDIN in the kernel: what select() sees
  buffered,  \* lines of STDIN in the buffer of stdio: what it does not see
  eof,       \* STDIN has been closed
  orders,    \* how many commands the user has typed
  lines,     \* how many lines
  sent,      \* the commands the subscriber has sent
  left,      \* the subscriber has closed its end
  arrived,   \* cells that have reached the broker's kernel
  taken,     \* cells recv() has returned
  pc,        \* the broker's next recv(): "identifier", "command", or "ended"
  buffer,    \* the cell at each place of the Action, 0 for zeros
  first,     \* cells the recv() of the identifier has returned
  handled    \* what the broker took for commands, and did not refuse

network == <<piped, cuts>>
userVars == <<typed, buffered, eof, orders, lines, sent, left>>
brokerVars == <<taken, pc, buffer, first, handled>>
vars == <<network, userVars, arrived, brokerVars>>

Commands == {"subscribe", "unsubscribe"}

(* A line is a command, or one with a token missing, or is to leave. *)
Lines == Commands \union {"incomplete", "exit"}

(* A command the broker acts on: the word it read, the Action in which     *)
(* that word was, the cells it read as the name, and the Action whose SF   *)
(* it read, 0 for none.                                                    *)
Heard == [word : Commands, action : 1 .. MaxLines, name : SUBSET Nat, sf : 0 .. MaxLines]

Zeros == [i \in 1 .. ActionLen |-> 0]

(* The subscriber sends its identifier as soon as it has connected. *)
Written == IdLen + Len(sent) * ActionLen

(* The number of the Action a cell behind the identifier is in, and its    *)
(* place there.                                                            *)
ActionOf(cell) == (cell - IdLen - 1) \div ActionLen + 1
PlaceOf(cell) == ((cell - IdLen - 1) % ActionLen) + 1

TypeOK ==
  /\ piped \in BOOLEAN /\ cuts \in BOOLEAN /\ eof \in BOOLEAN /\ left \in BOOLEAN
  /\ typed \in Seq(Lines) /\ buffered \in Seq(Lines)
  /\ lines \in 0 .. MaxLines /\ orders \in 0 .. lines
  /\ sent \in Seq(Commands) /\ Len(sent) <= orders
  /\ arrived \in 0 .. Written /\ taken \in 0 .. arrived
  /\ pc \in {"identifier", "command", "ended"}
  /\ buffer \in [1 .. ActionLen -> 0 .. taken]
  /\ first \in 0 .. taken
  /\ handled \in Seq(Heard)

Init ==
  /\ piped \in BOOLEAN /\ cuts \in BOOLEAN
  /\ typed = <<>> /\ buffered = <<>>
  /\ eof = FALSE
  /\ orders = 0 /\ lines = 0 /\ sent = <<>>
  /\ left = FALSE
  /\ arrived = 0 /\ taken = 0
  /\ pc = "identifier"
  /\ buffer = Zeros
  /\ first = 0
  /\ handled = <<>>

-----------------------------------------------------------------------------
(* The user and the network. *)

ExitTyped == left \/ \E q \in {typed, buffered} : \E i \in DOMAIN q : q[i] = "exit"

TypeLine ==
  /\ ~eof /\ ~ExitTyped
  /\ lines < MaxLines
  /\ \E line \in Lines :
       /\ typed' = Append(typed, line)
       /\ orders' = IF line \in Commands THEN orders + 1 ELSE orders
  /\ lines' = lines + 1
  /\ UNCHANGED <<network, buffered, eof, sent, left, arrived, brokerVars>>

CloseStdin ==
  /\ ~eof
  /\ eof' = TRUE
  /\ UNCHANGED <<network, typed, buffered, orders, lines, sent, left, arrived, brokerVars>>

(* Where the text of one send() ends. *)
SendEnds(n) == n >= IdLen /\ (n - IdLen) % ActionLen = 0

Arrive ==
  /\ \E n \in arrived + 1 .. Written :
       /\ cuts \/ SendEnds(n)
       /\ arrived' = n
  /\ UNCHANGED <<network, userVars, brokerVars>>

-----------------------------------------------------------------------------
(* The subscriber. *)

(* A faulty form: a line with a token missing is sent all the same. *)
Execute_Unchecked(line) ==
  /\ sent' = IF line # "exit" THEN Append(sent, line) ELSE sent
  /\ left' = (line = "exit")

(* strtok() finds every token, and the Action is sent; or the line is      *)
(* passed over; or the loop ends.                                          *)
Execute(line) ==
  /\ sent' = IF line \in Commands THEN Append(sent, line) ELSE sent
  /\ left' = (line = "exit")

(* fgets() takes a line that stdio holds already. *)
NextBuffered ==
  /\ ~left
  /\ typed # <<>> \/ eof
  /\ buffered # <<>>
  /\ Execute(Head(buffered))
  /\ buffered' = Tail(buffered)
  /\ UNCHANGED <<network, typed, eof, orders, lines, arrived, brokerVars>>

(* A faulty form: what a read() brought with the line is dropped. *)
ReadLine_KeepsFirst ==
  /\ ~left
  /\ typed # <<>>
  /\ buffered = <<>>
  /\ Execute(Head(typed))
  /\ typed' = IF piped THEN <<>> ELSE Tail(typed)
  /\ UNCHANGED <<network, buffered, eof, orders, lines, arrived, brokerVars>>

(* fgets() reads: one line from a terminal, all of them from a pipe.       *)
ReadLine ==
  /\ ~left
  /\ typed # <<>>
  /\ buffered = <<>>
  /\ Execute(Head(typed))
  /\ IF piped
     THEN typed' = <<>> /\ buffered' = Tail(typed)
     ELSE typed' = Tail(typed) /\ UNCHANGED buffered
  /\ UNCHANGED <<network, eof, orders, lines, arrived, brokerVars>>

-----------------------------------------------------------------------------
(* The broker. *)

Available == arrived - taken

AtMost(n) == IF n < Available THEN n ELSE Available

(* recv() returns 0. *)
EndOfStream == left /\ arrived = Written /\ Available = 0

(* The first recv() takes whatever has come by now and fits the buffer. *)
RecvId ==
  /\ pc = "identifier"
  /\ Available > 0
  /\ taken' = taken + AtMost(BUFF_LEN)
  /\ first' = taken'
  /\ pc' = "command"
  /\ UNCHANGED <<network, userVars, arrived, buffer, handled>>

(* A faulty form: the SF is forgotten in the size. *)
CommandAsked_WithoutSf == TypeLen + TopicLen

CommandAsked == ActionLen

(* A faulty form: what was there before shows through a short read. *)
Beyond_Stale(i) == buffer[i]

(* The buffer is cleared for each descriptor that is served. *)
Beyond(i) == 0

(* The buffer b begins at this place of an Action that holds the command,  *)
(* and its first len cells have come.                                      *)
BeginsAt(b, place, command, len) ==
  /\ b[1] > IdLen
  /\ PlaceOf(b[1]) = place
  /\ sent[ActionOf(b[1])] = command
  /\ \A i \in 1 .. len : b[i] = b[1] + i - 1

(* What strcmp() finds at the beginning of b: of "unsubscribe" without its *)
(* prefix, "subscribe".                                                    *)
SaysSubscribe(b) ==
  \/ BeginsAt(b, 1, "subscribe", WordLen)
  \/ BeginsAt(b, PrefixLen + 1, "unsubscribe", WordLen)

SaysUnsubscribe(b) == BeginsAt(b, 1, "unsubscribe", PrefixLen + WordLen)

(* The name ends with its terminator, or where a short read has ended.     *)
EndsName(cell) == cell = 0 \/ PlaceOf(cell) \in TypeLen + NameLen + 1 .. TypeLen + TopicLen

NameIn(b) ==
  {b[i] : i \in {k \in TypeLen + 1 .. TypeLen + TopicLen :
                    \A l \in TypeLen + 1 .. k : ~EndsName(b[l])}}

(* Text in the place of the SF is neither 0 nor 1, and is refused.         *)
SfIsText(b) == b[ActionLen] # 0 /\ PlaceOf(b[ActionLen]) # ActionLen

HeardIn(b, word) ==
  [word |-> word, action |-> ActionOf(b[1]), name |-> NameIn(b),
   sf |-> IF b[ActionLen] = 0 THEN 0 ELSE ActionOf(b[ActionLen])]

(* The broker acts on a buffer that begins with a command. *)
RecvCommand ==
  /\ pc = "command"
  /\ Available > 0
  /\ LET k == AtMost(CommandAsked) IN
     /\ taken' = taken + k
     /\ buffer' = [i \in 1 .. ActionLen |-> IF i <= k THEN taken + i ELSE Beyond(i)]
  /\ handled' =
       IF SaysSubscribe(buffer') /\ ~SfIsText(buffer')
       THEN Append(handled, HeardIn(buffer', "subscribe"))
       ELSE IF SaysUnsubscribe(buffer')
       THEN Append(handled, HeardIn(buffer', "unsubscribe"))
       ELSE handled
  /\ UNCHANGED <<network, userVars, arrived, pc, first>>

EndOfFile ==
  /\ pc = "command"
  /\ EndOfStream
  /\ pc' = "ended"
  /\ UNCHANGED <<network, userVars, arrived, taken, buffer, first, handled>>

Subscriber == NextBuffered \/ ReadLine

Broker == RecvId \/ RecvCommand \/ EndOfFile

Next == TypeLine \/ CloseStdin \/ Arrive \/ Subscriber \/ Broker

(***************************************************************************)
(* The network delivers in the end; the subscriber's loop serves STDIN     *)
(* before anything else; and the broker serves every descriptor that is    *)
(* ready (EverybodyServed of SelectLoop).  The user may stop at any time.  *)
(***************************************************************************)
Spec == Init /\ [][Next]_vars /\ WF_vars(Arrive) /\ WF_vars(Subscriber) /\ WF_vars(Broker)

-----------------------------------------------------------------------------
(* How many commands came with the identifier. *)
Swallowed == IF first > IdLen THEN (first - IdLen) \div ActionLen ELSE 0

(* Command n, with all of its name and its SF. *)
Whole(n) ==
  [word |-> sent[n], action |-> n,
   name |-> {IdLen + (n - 1) * ActionLen + TypeLen + k : k \in 1 .. NameLen},
   sf |-> n]

(***************************************************************************)
(* As long as the network cuts nothing, the broker handles what the        *)
(* subscriber sent, whole and in order, in whatever groups it arrives; the *)
(* commands that came with the identifier are the only ones missing        *)
(* (server.c:172 and :219).  The one cut it makes itself is at the end of  *)
(* the buffer of the first recv().                                         *)
(***************************************************************************)
HandledIsSent ==
  ~cuts /\ SendEnds(first) => \A i \in DOMAIN handled : handled[i] = Whole(i + Swallowed)

(***************************************************************************)
(* Wherever the stream is cut, the name and the SF the broker acts on come *)
(* from the Action in which it read the command, or are missing, and no    *)
(* Action is handled twice or after a later one: what a short read does    *)
(* not fill is empty (server.c:128 before :219), and an SF that would come *)
(* from the next Action is text (utils.c:196).  What an Action says may    *)
(* still be turned round: "unsubscribe" is taken for "subscribe" when its  *)
(* prefix has been read before.                                            *)
(***************************************************************************)
NeverMixed ==
  \A i \in DOMAIN handled :
    /\ \A cell \in handled[i].name : ActionOf(cell) = handled[i].action
    /\ handled[i].sf \in {0, handled[i].action}
    /\ \A k \in 1 .. i - 1 : handled[k].action < handled[i].action

(* Every command that is typed is handled at last, or was taken with the   *)
(* identifier, unless that recv() cut one.  A pipe may keep lines out of   *)
(* sight of select(), until it is closed (subscriber.c:104-108).           *)
CommandsObeyed ==
  \A n \in 1 .. MaxLines :
    ~cuts /\ orders >= n /\ (piped => eof)
      ~> pc # "identifier" /\ (SendEnds(first) => Swallowed + Len(handled) >= n)

=============================================================================
