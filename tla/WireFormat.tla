------------------------------ MODULE WireFormat ------------------------------
(***************************************************************************)
(* What the fields of fixed length carry: the payload of a datagram and    *)
(* the message it is converted to (UDP_to_TCP and convert_*,               *)
(* utils.c:265-390), the name and the SF of an Action (subscriber.c:116-   *)
(* 131, utils.c:195-212), and the comparison of names by strcmp().         *)
(*                                                                         *)
(* Text and payloads are sequences of bytes, where the numbers of bytes    *)
(* and the size of a byte are parameters.  A number that is printed is     *)
(* kept as minus, units and scale: units / 10^scale.                       *)
(***************************************************************************)
EXTENDS Integers, Sequences

CONSTANTS
  Base,         \* values of a byte
  CharMax,      \* the largest value of a char: those above it are negative
  NumLen,       \* bytes of a number, 4 in the code
  TOPIC_SIZE,
  NameBytes,    \* characters that names are made of
  SignBytes, NumBytes, Exponents,  \* the bytes tried in each place of a payload
  SfNumbers     \* the numbers that users give for SF

ASSUME WireAssumption ==
  /\ Base \in Nat \ {0} /\ CharMax \in Nat \ {0}
  /\ NumLen \in Nat \ {0} /\ TOPIC_SIZE \in Nat \ {0}
  /\ NameBytes \subseteq 4 .. Base - 1
  /\ SignBytes \union NumBytes \union Exponents \subseteq 0 .. Base - 1
  /\ SfNumbers \subseteq Nat

VARIABLES
  asked,     \* the line `subscribe <TOPIC> <SF>` that was typed, if any
  topic,     \* the Topic the server made of it, if any
  datagram,  \* the datagram that was sent, if any
  message,   \* the TCP_msg it was converted to, if any
  died       \* UDP_to_TCP has returned NULL, and DIE has ended the server

vars == <<asked, topic, datagram, message, died>>

(* msg_type; STR is STRING, a word of TLA+. *)
INT == 0
SHORT_REAL == 1
FLOAT == 2
STR == 3

(* Decimals that "%lf" prints. *)
Decimals == 6

Names == UNION {[1 .. n -> NameBytes] : n \in 1 .. TOPIC_SIZE}

(* The sign, the number, the exponent. *)
Payloads ==
  {p \in [1 .. NumLen + 2 -> SignBytes \union NumBytes \union Exponents] :
     /\ p[1] \in SignBytes
     /\ \A i \in 2 .. NumLen + 1 : p[i] \in NumBytes
     /\ p[NumLen + 2] \in Exponents}

TypeOK ==
  /\ \A i \in DOMAIN asked : asked[i] \in [name : Names, sf : SfNumbers]
  /\ \A i \in DOMAIN topic : topic[i] \in [name : Names, sf : {0, 1}, subscribed : {1}]
  /\ \A i \in DOMAIN message :
       message[i].units \in Nat /\ message[i].scale \in 0 .. Decimals
  /\ Len(topic) <= Len(asked)
  /\ Len(message) <= Len(datagram)
  /\ died \in BOOLEAN

Init ==
  /\ asked = <<>>
  /\ topic = <<>>
  /\ datagram = <<>>
  /\ message = <<>>
  /\ died = FALSE

-----------------------------------------------------------------------------
(* Text in memory. *)

(* A name in a field of TOPIC_SIZE bytes: a full one has no terminator.    *)
Field(name) == [i \in 1 .. TOPIC_SIZE |-> IF i <= Len(name) THEN name[i] ELSE 0]

(* The string that begins with a memory: up to its first zero.             *)
CString(memory) ==
  LET zeros == {i \in DOMAIN memory : memory[i] = 0} IN
  IF zeros = {} THEN memory
  ELSE SubSeq(memory, 1, (CHOOSE i \in zeros : \A k \in zeros : i <= k) - 1)

(* Behind the name of a Topic come sf, subscribed and num_of_tcps.         *)
TopicName(tp) == CString(Field(tp.name) \o <<tp.sf, tp.subscribed, 0>>)

(* Behind the topic of a message come its type and the text of the payload. *)
MessageTopic(m) == CString(Field(m.topic) \o <<m.type>> \o m.text)

(* A faulty form: the last place of the field is not compared. *)
Matches_Shorter(tp, m) ==
  SubSeq(Field(tp.name), 1, TOPIC_SIZE - 1) = SubSeq(Field(m.topic), 1, TOPIC_SIZE - 1)

(* send_tcp_msg compares with strcmp(). *)
Matches(tp, m) == TopicName(tp) = MessageTopic(m)

-----------------------------------------------------------------------------
(* A subscription. *)

(* What atoi() gives, in a uint8_t. *)
SfByte(n) == n % Base

(* A faulty form: the value is not looked at. *)
SfIsValid_Always(sf) == TRUE

SfIsValid(sf) == sf \in {0, 1}

Subscribe(name, number) ==
  /\ asked = <<>>
  /\ asked' = <<[name |-> name, sf |-> number]>>
  /\ topic' = IF SfIsValid(SfByte(number))
              THEN <<[name |-> name, sf |-> SfByte(number), subscribed |-> 1]>>
              ELSE <<>>
  /\ UNCHANGED <<datagram, message, died>>

-----------------------------------------------------------------------------
(* A datagram. *)

(* A faulty form: ntohl() is forgotten on a little-endian machine. *)
Number_HostOrder(bytes) ==
  LET upTo[k \in 0 .. Len(bytes)] ==
        IF k = 0 THEN 0 ELSE upTo[k - 1] * Base + bytes[Len(bytes) + 1 - k]
  IN upTo[Len(bytes)]

(* ntohl() and ntohs(): the number of the first k bytes, for each k. *)
Number(bytes) ==
  LET upTo[k \in 0 .. Len(bytes)] == IF k = 0 THEN 0 ELSE upTo[k - 1] * Base + bytes[k]
  IN upTo[Len(bytes)]

Char(b) == IF b > CharMax THEN b - Base ELSE b

(* Any text of digits begins like this, as far as names are concerned.     *)
Digits == <<4>>

NumberText(minus, units, scale) ==
  [minus |-> minus, units |-> units, scale |-> scale, text |-> Digits]

convert_to_int(p) ==
  LET n == Number(SubSeq(p, 2, NumLen + 1)) IN
  IF Char(p[1]) > 1 THEN {}
  ELSE {NumberText(p[1] # 0 /\ n # 0, n, 0)}

convert_to_short_real(p) == {NumberText(FALSE, Number(SubSeq(p, 1, 2)), 2)}

Power(b, n) ==
  LET pow[k \in 0 .. n] == IF k = 0 THEN 1 ELSE b * pow[k - 1]
  IN pow[n]

(* n divided by 10^d, as printf() rounds it; in the middle of two values   *)
(* it depends on the representation of the quotient.                       *)
Rounded(n, d) ==
  LET unit == Power(10, d)
      q == n \div unit
      r == n % unit
  IN (IF 2 * r <= unit THEN {q} ELSE {}) \union (IF 2 * r >= unit THEN {q + 1} ELSE {})

(* A faulty form: any sign but 0 and 1 is taken for a plus, as far as it   *)
(* is not above 1.                                                         *)
FloatSignOK_NotAbove(b) == Char(b) <= 1

FloatSignOK(b) == Char(b) \in {0, 1}

convert_to_float(p) ==
  LET n == Number(SubSeq(p, 2, NumLen + 1))
      e == p[NumLen + 2]
  IN IF ~FloatSignOK(p[1]) THEN {}
     ELSE IF e <= Decimals THEN {NumberText(p[1] = 1, n, e)}
     ELSE {NumberText(p[1] = 1, u, Decimals) : u \in Rounded(n, e - Decimals)}

convert_to_string(p) == {[minus |-> FALSE, units |-> 0, scale |-> 0, text |-> CString(p)]}

(* The texts the payload may become; none stands for NULL.                 *)
Converted(type, p) ==
  CASE type = INT -> convert_to_int(p)
    [] type = SHORT_REAL -> convert_to_short_real(p)
    [] type = FLOAT -> convert_to_float(p)
    [] type = STR -> convert_to_string(p)
    [] OTHER -> {}

UDP_to_TCP(d) ==
  {[topic |-> d.topic, type |-> d.type, minus |-> c.minus, units |-> c.units,
    scale |-> c.scale, text |-> c.text] : c \in Converted(d.type, d.payload)}

Publish(d) ==
  /\ datagram = <<>>
  /\ datagram' = <<d>>
  /\ LET converted == UDP_to_TCP(d) IN
     \/ \E m \in converted : message' = <<m>> /\ UNCHANGED died
     \/ converted = {} /\ died' = TRUE /\ UNCHANGED message
  /\ UNCHANGED <<asked, topic>>

Next ==
  \/ \E name \in Names, number \in SfNumbers : Subscribe(name, number)
  \/ \E name \in Names, type \in INT .. STR + 1, p \in Payloads :
       Publish([topic |-> name, type |-> type, payload |-> p])

Spec == Init /\ [][Next]_vars

-----------------------------------------------------------------------------
(* What the format means: the most significant byte first, so that the     *)
(* last one counts ones and each byte before it Base times as much; a sign *)
(* byte of 0 or 1; and for FLOAT the number of decimals.                   *)
Meant(p, first, len) ==
  LET last[k \in 0 .. len] ==
        IF k = 0 THEN 0
        ELSE last[k - 1] + p[first + len - k] * Power(Base, k - 1)
  IN last[len]

WellFormed(d) ==
  /\ d.type \in INT .. STR
  /\ d.type \in {INT, FLOAT} => d.payload[1] \in {0, 1}

(* u is n divided by 10^d, to the nearest. *)
IsNearest(u, n, d) ==
  /\ 2 * (u * Power(10, d) - n) <= Power(10, d)
  /\ -2 * (u * Power(10, d) - n) <= Power(10, d)

ShowsMeant(d, m) ==
  LET p == d.payload
      n == Meant(p, 2, NumLen)
      e == p[NumLen + 2]
  IN CASE m.type = INT ->
            m.scale = 0 /\ m.units = n /\ (m.minus <=> p[1] = 1 /\ n > 0)
       [] m.type = SHORT_REAL ->
            m.scale = 2 /\ m.units = Meant(p, 1, 2) /\ ~m.minus
       [] m.type = FLOAT ->
            /\ m.minus <=> p[1] = 1
            /\ e <= Decimals => m.units = n /\ m.scale = e
            /\ e > Decimals => IsNearest(m.units, n, e - Decimals)
       [] OTHER -> m.text = CString(p)

(* A number is shown as what the publisher meant, with its sign; a FLOAT   *)
(* of more than six decimals is rounded to the nearest (utils.c:265-320).  *)
ShownIsMeant ==
  message # <<>> /\ WellFormed(datagram[1]) => ShowsMeant(datagram[1], message[1])

(* The server stops at a malformed datagram and at no other; the one kind  *)
(* that passes is an INT whose sign byte is negative as a char             *)
(* (utils.c:268 against :302).                                             *)
MalformedIsRefused ==
  datagram # <<>> =>
    LET d == datagram[1] IN
    died <=> ~WellFormed(d) /\ ~(d.type = INT /\ d.payload[1] > CharMax)

(* A message goes to the subscribers of its own topic and, when the name   *)
(* leaves room for a terminator, to all of them.  A full name never gets   *)
(* another topic's messages, although strcmp() runs into the fields behind *)
(* it (utils.c:365 and :429).                                              *)
MatchIsMeant ==
  topic # <<>> /\ message # <<>> =>
    /\ Matches(topic[1], message[1]) => topic[1].name = message[1].topic
    /\ topic[1].name = message[1].topic /\ Len(topic[1].name) < TOPIC_SIZE
         => Matches(topic[1], message[1])

=============================================================================
