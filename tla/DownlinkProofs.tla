---------------------------- MODULE DownlinkProofs ----------------------------
(* Theorems about module Downlink, and their proofs. *)
EXTENDS Downlink, StreamLemmas, SequenceTheorems

(* Between two calls of send() the broker is between two texts, and the    *)
(* loop of the subscriber waits for something as long as it waits.         *)
TypeInv ==
  /\ TypeOK
  /\ SendEnds(written)
  /\ pc = "message" => got < size

(* What was shown lies behind, and what is in the buffer lies ahead of it. *)
OnceInv ==
  /\ TypeInv
  /\ IntactOnce
  /\ \A i \in DOMAIN shown : shown[i] * FrameLen <= taken
  /\ pc = "message" =>
       \A c \in 1 .. BufferLen : buffer[c] # 0 =>
         buffer[c] <= taken /\ \A i \in DOMAIN shown : shown[i] * FrameLen < buffer[c]

(* The two recv() calls are where the two send() calls were: a size is     *)
(* read at the beginning of a frame, a message behind its size.  At the    *)
(* end of the stream a part of a frame may be missing.                     *)
InStep ==
  LET here == Len(shown) * FrameLen IN
  /\ pc = "message" =>
       /\ taken = here + HeaderLen
       /\ size = BodyLen /\ got = 0 /\ buffer = Zeros
  /\ pc \in {"size", "ended"} =>
       \/ taken = here
       \/ link # "open" /\ arrived = written /\ taken = written /\ written < here

StepInv ==
  /\ TypeInv
  /\ cuts = "nothing" => SendEnds(arrived) /\ InStep /\ Faithful

EndInv ==
  /\ StepInv
  /\ pc = "ended" => link # "open"
  /\ NothingLostAtEnd

-----------------------------------------------------------------------------
(* Lengths and positions. *)

LEMMA Lengths ==
  /\ HeaderLen \in Nat \ {0} /\ BodyLen \in Nat \ {0}
  /\ FrameLen \in Nat \ {0} /\ FrameLen = HeaderLen + BodyLen
  /\ HeaderLen \in 0 .. FrameLen - 1 /\ 0 \in 0 .. FrameLen - 1
  /\ BufferLen \in Nat \ {0} /\ BodyLen \in 1 .. BufferLen /\ BufferLen = BodyLen + 1
  /\ MaxFrames \in Nat
  /\ MaxFrames * FrameLen \in Nat
  BY DownlinkAssumption DEF FrameLen, BufferLen

(* The text of a send() ends behind a whole number of frames, or behind    *)
(* the size of the next one.                                               *)
LEMMA SendEndsForm ==
  ASSUME NEW n \in Nat, SendEnds(n)
  PROVE  \E q \in Nat : n = q * FrameLen \/ n = q * FrameLen + HeaderLen
<1>. DEFINE q == n \div FrameLen
<1>1. q \in Nat /\ n = q * FrameLen + (n % FrameLen)
  BY Lengths, DivMod
<1>2. n % FrameLen = 0 \/ n % FrameLen = HeaderLen
  BY DEF SendEnds
<1>3. q * FrameLen \in Nat
  BY <1>1, Lengths
<1>. HIDE DEF q
<1>4. n = q * FrameLen \/ n = q * FrameLen + HeaderLen
  BY <1>1, <1>2, <1>3
<1>. QED BY <1>1, <1>4

LEMMA FrameEnds ==
  ASSUME NEW m \in Nat
  PROVE  /\ m * FrameLen \in Nat
         /\ (m * FrameLen) % FrameLen = 0
         /\ (m * FrameLen + HeaderLen) % FrameLen = HeaderLen
         /\ SendEnds(m * FrameLen) /\ SendEnds(m * FrameLen + HeaderLen)
<1>1. (m * FrameLen) % FrameLen = 0 /\ m * FrameLen \in Nat
  BY Lengths, QuotientOfWhole
<1>2. (m * FrameLen + HeaderLen) % FrameLen = HeaderLen
  BY Lengths, QuotientOf
<1>. QED BY <1>1, <1>2 DEF SendEnds

(* From the beginning of a frame, the next end of a send() is behind its   *)
(* size, and the one after that behind the frame.                          *)
LEMMA NextSendEnd ==
  ASSUME NEW n \in Nat, SendEnds(n), NEW m \in Nat
  PROVE  /\ n > m * FrameLen => n >= m * FrameLen + HeaderLen
         /\ n > m * FrameLen + HeaderLen => n >= m * FrameLen + FrameLen
<1>1. PICK q \in Nat : n = q * FrameLen \/ n = q * FrameLen + HeaderLen
  BY SendEndsForm
<1>2. q * FrameLen \in Nat /\ m * FrameLen \in Nat
  BY Lengths
<1>3. CASE q < m
  <2>1. q * FrameLen + FrameLen <= m * FrameLen
    BY <1>3, Lengths, TimesNext
  <2>. QED BY <1>1, <1>2, <2>1, Lengths
<1>4. CASE q = m
  BY <1>1, <1>2, <1>4, Lengths
<1>5. CASE m < q
  <2>1. m * FrameLen + FrameLen <= q * FrameLen
    BY <1>5, Lengths, TimesNext
  <2>. QED BY <1>1, <1>2, <2>1, Lengths
<1>. QED BY <1>3, <1>4, <1>5

(* A message in the buffer ends where its frame ends. *)
LEMMA MessageEnds ==
  ASSUME NEW b, b[BodyLen] \in Nat
  PROVE  /\ MessageIn(b) \in Nat
         /\ MessageIn(b) # 0 => MessageIn(b) * FrameLen = b[BodyLen]
<1>. DEFINE last == b[BodyLen]
            q == last \div FrameLen
<1>1. q \in Nat /\ last = q * FrameLen + (last % FrameLen)
  BY Lengths, DivMod
<1>2. q * FrameLen \in Nat
  BY <1>1, Lengths
<1>3. MessageIn(b) = 0 \/ (MessageIn(b) = q /\ last % FrameLen = 0)
  BY DEF MessageIn
<1>. HIDE DEF q
<1>. QED BY <1>1, <1>2, <1>3

LEMMA MessageBounded ==
  ASSUME NEW b, b[BodyLen] \in Nat, b[BodyLen] <= MaxFrames * FrameLen
  PROVE  MessageIn(b) \in 0 .. MaxFrames
<1>. DEFINE m == MessageIn(b)
<1>1. m \in Nat /\ (m # 0 => m * FrameLen = b[BodyLen])
  BY MessageEnds
<1>2. MaxFrames < m => MaxFrames * FrameLen + FrameLen <= m * FrameLen
  BY <1>1, Lengths, TimesNext
<1>. HIDE DEF m
<1>3. MaxFrames < m => FALSE
  BY <1>1, <1>2, Lengths
<1>4. m \in 0 .. MaxFrames
  BY <1>1, <1>3, Lengths
<1>. QED BY <1>4 DEF m

LEMMA AtMostBounds ==
  ASSUME NEW n \in Nat, Available \in Nat
  PROVE  AtMost(n) \in 0 .. n /\ AtMost(n) <= Available
  BY DEF AtMost

LEMMA ZerosType == Zeros \in [1 .. BufferLen -> {0}]
  BY DEF Zeros

LEMMA AvailableType ==
  TypeOK => Available \in Nat /\ taken + Available = arrived
  BY Lengths DEF TypeOK, Available

(* Every number the size may be read as is within the message. *)
LEMMA SizeType ==
  ASSUME NEW p, NEW k
  PROVE  SizeRead(p, k) \subseteq 0 .. BodyLen
  BY DownlinkAssumption DEF SizeRead

-----------------------------------------------------------------------------
(* Every variable keeps its type. *)

LEMMA TypeInit == Init => TypeInv
<1>. SUFFICES ASSUME Init PROVE TypeInv
  OBVIOUS
<1>1. SendEnds(written)
  <2>1. 0 * FrameLen = 0
    BY Lengths
  <2>. QED BY <2>1, FrameEnds DEF Init
<1>2. buffer \in [1 .. BufferLen -> 0 .. written]
  BY ZerosType DEF Init
<1>3. shown \in Seq(0 .. MaxFrames)
  BY EmptySeq DEF Init
<1>. QED BY <1>1, <1>2, <1>3, Lengths DEF Init, TypeInv, TypeOK

(* The broker writes no more than its messages (server.c, the two calls of *)
(* send() for each of them).                                               *)
LEMMA SendsBounded ==
  ASSUME TypeInv, SendSize \/ SendBody
  PROVE  /\ written' \in written .. MaxFrames * FrameLen
         /\ SendEnds(written')
<1>1. written \in Nat /\ written <= MaxFrames * FrameLen /\ SendEnds(written)
  BY Lengths DEF TypeInv, TypeOK
<1>. DEFINE q == written \div FrameLen
<1>2. q \in Nat /\ written = q * FrameLen + (written % FrameLen)
  BY <1>1, Lengths, DivMod
<1>. HIDE DEF q
<1>3. q * FrameLen \in Nat
  BY <1>2, Lengths
<1>4. q * FrameLen < MaxFrames * FrameLen
  BY <1>1, <1>2, <1>3, Lengths DEF SendSize, SendBody
<1>5. q < MaxFrames
  BY <1>2, <1>4, Lengths, TimesLess
<1>6. q * FrameLen + FrameLen <= MaxFrames * FrameLen
  BY <1>2, <1>5, Lengths, TimesNext
<1>7. (q + 1) * FrameLen = q * FrameLen + FrameLen
  BY <1>2, Lengths, NextUnit
<1>8. CASE SendSize
  <2>1. written' = q * FrameLen + HeaderLen
    BY <1>2, <1>3, <1>8 DEF SendSize
  <2>2. SendEnds(written')
    BY <1>2, <2>1, FrameEnds
  <2>3. /\ written <= written' /\ written' \in Nat
        /\ written' <= q * FrameLen + FrameLen /\ q * FrameLen + FrameLen \in Nat
    BY <1>1, <1>3, <1>8, <2>1, Lengths DEF SendSize
  <2>4. written' <= MaxFrames * FrameLen
    BY <1>6, <2>3, Lengths
  <2>. QED BY <1>1, <2>2, <2>3, <2>4, Lengths
<1>9. CASE SendBody
  <2>1. written' = (q + 1) * FrameLen
    BY <1>2, <1>3, <1>7, <1>9, Lengths DEF SendBody
  <2>2. SendEnds((q + 1) * FrameLen)
    BY <1>2, FrameEnds
  <2>3. written = q * FrameLen + HeaderLen
    BY <1>2, <1>9 DEF SendBody
  <2>4. written <= q * FrameLen + FrameLen /\ q * FrameLen + FrameLen \in Nat
    BY <1>3, <2>3, Lengths
  <2>5. written' = q * FrameLen + FrameLen
    BY <1>7, <2>1
  <2>6. SendEnds(written')
    BY <2>1, <2>2
  <2>7. written' \in Nat /\ written' <= MaxFrames * FrameLen /\ written <= written'
    BY <1>6, <2>4, <2>5
  <2>. QED BY <1>1, <2>6, <2>7, Lengths
<1>. QED BY <1>8, <1>9

(* One recv() of the message takes what has arrived, and not more than the *)
(* message has (subscriber.c:178-183).                                     *)
LEMMA RecvMessageTakes ==
  ASSUME TypeInv, RecvMessage
  PROVE  /\ taken' \in taken .. arrived /\ taken < taken'
         /\ \E k \in 1 .. size :
              /\ taken' = taken + k
              /\ \A c \in 1 .. BufferLen :
                   buffer'[c] = IF c <= k THEN taken + c ELSE buffer[c]
         /\ buffer' \in [1 .. BufferLen -> 0 .. written]
         /\ got' \in 0 .. 2 * BufferLen
         /\ pc' = "message" => got' < size
         /\ MessageIn(buffer') \in 0 .. MaxFrames
<1>. DEFINE k == AtMost(MessageAsked)
<1>1. /\ Available \in Nat \ {0} /\ taken + Available = arrived
      /\ size \in 0 .. BodyLen /\ got \in Nat /\ got < size
      /\ taken \in Nat /\ arrived \in Nat /\ written \in Nat /\ arrived <= written
      /\ written <= MaxFrames * FrameLen
  BY AvailableType, Lengths DEF TypeInv, TypeOK, RecvMessage
<1>2. k \in 0 .. size /\ k <= Available /\ 0 < k
  BY <1>1, Lengths DEF AtMost, MessageAsked
<1>3. /\ taken' = taken + k /\ got' = got + k
      /\ buffer' = [i \in 1 .. BufferLen |-> IF i <= k THEN taken + i ELSE buffer[i]]
  BY DEF RecvMessage
<1>. HIDE DEF k
<1>4. taken' \in taken .. arrived /\ taken < taken'
  BY <1>1, <1>2, <1>3
<1>5. \E n \in 1 .. size :
        /\ taken' = taken + n
        /\ \A c \in 1 .. BufferLen :
             buffer'[c] = IF c <= n THEN taken + c ELSE buffer[c]
  <2>1. k \in 1 .. size
    BY <1>1, <1>2
  <2>2. \A c \in 1 .. BufferLen :
          buffer'[c] = IF c <= k THEN taken + c ELSE buffer[c]
    BY <1>3
  <2>. QED BY <1>3, <2>1, <2>2
<1>6. buffer' \in [1 .. BufferLen -> 0 .. written]
  <2>1. \A c \in 1 .. BufferLen :
          (IF c <= k THEN taken + c ELSE buffer[c]) \in 0 .. written
    BY <1>1, <1>2, Lengths DEF TypeInv, TypeOK
  <2>. QED BY <1>3, <2>1
<1>7. got' \in 0 .. 2 * BufferLen
  BY <1>1, <1>2, <1>3, Lengths
<1>8. pc' = "message" => got' < size
  BY <1>1, <1>2, <1>3 DEF RecvMessage, Complete
<1>9. MessageIn(buffer') \in 0 .. MaxFrames
  <2>1. buffer'[BodyLen] \in 0 .. written
    BY <1>6, Lengths
  <2>. QED BY <2>1, <1>1, MessageBounded, Lengths
<1>. QED BY <1>4, <1>5, <1>6, <1>7, <1>8, <1>9

LEMMA TypeStep == TypeInv /\ [Next]_vars => TypeInv'
<1>. SUFFICES ASSUME TypeInv, [Next]_vars PROVE TypeInv'
  OBVIOUS
<1>a. Available \in Nat /\ taken + Available = arrived
  BY AvailableType DEF TypeInv
<1>b. RecvMessage =>
        /\ taken' \in taken .. arrived
        /\ buffer' \in [1 .. BufferLen -> 0 .. written]
        /\ got' \in 0 .. 2 * BufferLen
        /\ pc' = "message" => got' < size
        /\ MessageIn(buffer') \in 0 .. MaxFrames
  BY RecvMessageTakes
<1>. USE DEF TypeInv, TypeOK
<1>1. CASE UNCHANGED vars
  BY <1>1 DEF vars, SendEnds
<1>2. CASE SendSize \/ SendBody
  <2>1. /\ written' \in written .. MaxFrames * FrameLen
        /\ SendEnds(written')
    BY <1>2, SendsBounded
  <2>2. UNCHANGED <<cuts, arrived, taken, stdin, link, pc, size, got, buffer, shown>>
    BY <1>2 DEF SendSize, SendBody
  <2>3. buffer' \in [1 .. BufferLen -> 0 .. written']
    BY <2>1, <2>2, Lengths
  <2>4. written' \in 0 .. MaxFrames * FrameLen /\ arrived' \in 0 .. written'
    BY <2>1, <2>2, Lengths
  <2>. QED BY <2>1, <2>2, <2>3, <2>4 DEF SendEnds
<1>3. CASE ServerCloses
  BY <1>3 DEF ServerCloses, SendEnds
<1>4. CASE Arrive
  BY <1>4, Lengths DEF Arrive, SendEnds
<1>5. CASE TypeLine
  BY <1>5 DEF TypeLine, SendEnds
<1>6. CASE ReadLine \/ ReadCommand
  BY <1>6 DEF ReadLine, ReadCommand, SendEnds
<1>7. CASE RecvSize
  <2>1. AtMost(SizeAsked) \in Nat /\ AtMost(SizeAsked) <= Available
    BY <1>a, Lengths DEF AtMost, SizeAsked
  <2>2. size' \in 0 .. BodyLen /\ taken' = taken + AtMost(SizeAsked)
    BY <1>7, SizeType DEF RecvSize
  <2>3. taken' \in 0 .. arrived
    BY <2>1, <2>2, <1>a, Lengths
  <2>4. /\ UNCHANGED <<cuts, written, arrived, stdin, link, shown>>
        /\ got' = 0 /\ buffer' = Zeros
        /\ pc' = IF size' = 0 THEN "died" ELSE "message"
    BY <1>7 DEF RecvSize, Cleared
  <2>5. buffer' \in [1 .. BufferLen -> 0 .. written']
    BY <2>4, ZerosType
  <2>. QED BY <2>2, <2>3, <2>4, <2>5, Lengths DEF SendEnds
<1>8. CASE RecvSizeEnds
  BY <1>8 DEF RecvSizeEnds, SendEnds
<1>9. CASE RecvMessage
  <2>1. /\ taken' \in 0 .. arrived
        /\ buffer' \in [1 .. BufferLen -> 0 .. written]
        /\ got' \in 0 .. 2 * BufferLen
        /\ pc' = "message" => got' < size
    BY <1>9, <1>b, Lengths
  <2>2. UNCHANGED <<cuts, written, arrived, stdin, link, size>>
    BY <1>9 DEF RecvMessage
  <2>3. Append(shown, MessageIn(buffer')) \in Seq(0 .. MaxFrames)
    BY <1>9, <1>b
  <2>4. pc' \in {"size", "message"} /\ shown' \in Seq(0 .. MaxFrames)
    BY <1>9, <2>3 DEF RecvMessage
  <2>. QED BY <2>1, <2>2, <2>4 DEF SendEnds
<1>10. CASE RecvMessageEnds
  <2>1. MessageIn(buffer) \in 0 .. MaxFrames
    <3>1. buffer[BodyLen] \in 0 .. written
      BY Lengths
    <3>. QED BY <3>1, MessageBounded, Lengths
  <2>. QED BY <2>1, <1>10 DEF RecvMessageEnds, SendEnds
<1>11. CASE RecvFails
  BY <1>11 DEF RecvFails, SendEnds
<1>. QED BY <1>1, <1>2, <1>3, <1>4, <1>5, <1>6, <1>7, <1>8, <1>9, <1>10, <1>11
     DEF Next, Subscriber

(* The positions of the stream, the counts of the loop and the numbers of  *)
(* what is printed stay within their bounds (subscriber.c:160-201).        *)
THEOREM DownlinkTypeCorrect == Spec => []TypeOK
<1>1. TypeInv => TypeOK
  BY DEF TypeInv
<1>. QED BY <1>1, TypeInit, TypeStep, PTL DEF Spec

-----------------------------------------------------------------------------
(* No message is shown twice, or after a later one, wherever the network   *)
(* cuts the stream.                                                        *)

LEMMA ShownFields ==
  ASSUME TypeInv
  PROVE  /\ shown \in Seq(Nat) /\ Len(shown) \in Nat
         /\ DOMAIN shown = 1 .. Len(shown)
         /\ \A i \in DOMAIN shown : shown[i] \in Nat /\ shown[i] * FrameLen \in Nat
         /\ taken \in Nat /\ arrived \in Nat /\ written \in Nat
         /\ taken <= arrived /\ arrived <= written
  BY Lengths DEF TypeInv, TypeOK

(* A message that ends in a cell ahead of all that was shown is a later    *)
(* one than those.                                                         *)
LEMMA AppendKeepsOnce ==
  ASSUME OnceInv, NEW b, b[BodyLen] \in Nat, NEW position \in Nat,
         shown' = Append(shown, MessageIn(b)),
         b[BodyLen] # 0 =>
           /\ b[BodyLen] <= position
           /\ \A i \in DOMAIN shown : shown[i] * FrameLen < b[BodyLen],
         taken <= position
  PROVE  /\ IntactOnce'
         /\ \A i \in DOMAIN shown' : shown'[i] * FrameLen <= position
<1>. DEFINE m == MessageIn(b)
<1>1. m \in Nat /\ (m # 0 => m * FrameLen = b[BodyLen])
  BY MessageEnds
<1>2. TypeInv
  BY DEF OnceInv
<1>3. 0 * FrameLen = 0
  BY Lengths
<1>4. m # 0 => b[BodyLen] # 0
  <2>. HIDE DEF m
  <2>1. SUFFICES ASSUME m # 0 PROVE b[BodyLen] # 0
    OBVIOUS
  <2>2. 0 \in Nat /\ 0 < m /\ FrameLen \in Nat
    BY <1>1, <2>1, Lengths
  <2>3. 0 * FrameLen + FrameLen <= m * FrameLen
    BY <1>1, <2>2, TimesNext
  <2>. QED BY <1>1, <1>3, <2>1, <2>3, Lengths
<1>5. /\ DOMAIN shown' = 1 .. Len(shown) + 1
      /\ \A i \in 1 .. Len(shown) : shown'[i] = shown[i]
      /\ shown'[Len(shown) + 1] = m
  BY <1>2, ShownFields
<1>6. m # 0 => \A i \in 1 .. Len(shown) : shown[i] < m
  <2>. SUFFICES ASSUME m # 0, NEW i \in 1 .. Len(shown) PROVE shown[i] < m
    OBVIOUS
  <2>1. shown[i] * FrameLen < m * FrameLen
    BY <1>1, <1>2, <1>4, ShownFields
  <2>2. shown[i] \in Nat /\ FrameLen \in Nat
    BY <1>2, ShownFields, Lengths
  <2>. HIDE DEF m
  <2>. QED BY <1>1, <2>1, <2>2, TimesLess
<1>. HIDE DEF m
<1>7. IntactOnce'
  <2>. SUFFICES ASSUME NEW i \in DOMAIN shown', NEW k \in DOMAIN shown', i < k,
                       shown'[i] # 0, shown'[k] # 0
                PROVE  shown'[i] < shown'[k]
    BY DEF IntactOnce
  <2>1. CASE k \in 1 .. Len(shown)
    <3>1. i \in 1 .. Len(shown)
      BY <1>2, <1>5, <2>1, ShownFields
    <3>. QED BY <1>2, <1>5, <2>1, <3>1, ShownFields DEF OnceInv, IntactOnce
  <2>2. CASE k = Len(shown) + 1
    <3>1. i \in 1 .. Len(shown)
      BY <1>2, <1>5, <2>2, ShownFields
    <3>. QED BY <1>5, <1>6, <2>2, <3>1
  <2>. QED BY <1>2, <1>5, <2>1, <2>2, ShownFields
<1>8. \A i \in DOMAIN shown' : shown'[i] * FrameLen <= position
  <2>. SUFFICES ASSUME NEW i \in DOMAIN shown'
                PROVE  shown'[i] * FrameLen <= position
    OBVIOUS
  <2>1. CASE i \in 1 .. Len(shown)
    <3>1. shown[i] * FrameLen <= taken /\ shown[i] * FrameLen \in Nat
      BY <1>2, <2>1, ShownFields DEF OnceInv
    <3>. QED BY <1>2, <1>5, <2>1, <3>1, ShownFields
  <2>2. CASE i = Len(shown) + 1
    BY <1>1, <1>3, <1>4, <1>5, <2>2
  <2>. QED BY <1>2, <1>5, <2>1, <2>2, ShownFields
<1>. QED BY <1>7, <1>8

LEMMA OnceInit == Init => OnceInv
<1>. SUFFICES ASSUME Init PROVE OnceInv
  OBVIOUS
<1>1. TypeInv
  BY TypeInit
<1>2. shown = <<>> /\ pc = "size"
  BY DEF Init
<1>. QED BY <1>1, <1>2 DEF OnceInv, IntactOnce

LEMMA OnceStep == OnceInv /\ [Next]_vars => OnceInv'
<1>. SUFFICES ASSUME OnceInv, [Next]_vars PROVE OnceInv'
  OBVIOUS
<1>t. TypeInv /\ TypeInv'
  BY TypeStep DEF OnceInv
<1>1. CASE UNCHANGED <<taken, pc, buffer, shown>>
  BY <1>1, <1>t DEF OnceInv, IntactOnce
<1>2. CASE UNCHANGED <<taken, shown>> /\ pc' # "message"
  BY <1>2, <1>t DEF OnceInv, IntactOnce
<1>3. CASE RecvSize
  <2>1. UNCHANGED shown /\ buffer' = Zeros
    BY <1>3 DEF RecvSize, Cleared
  <2>2. \A c \in 1 .. BufferLen : buffer'[c] = 0
    BY <2>1, ZerosType
  <2>3. taken <= taken'
    <3>1. AtMost(SizeAsked) \in Nat
      BY <1>t, AvailableType, Lengths DEF AtMost, SizeAsked, TypeInv
    <3>. QED BY <1>3, <1>t, <3>1, ShownFields DEF RecvSize
  <2>4. \A i \in DOMAIN shown : shown[i] * FrameLen <= taken'
    BY <1>t, <2>3, ShownFields DEF OnceInv, TypeInv, TypeOK
  <2>. QED BY <1>t, <2>1, <2>2, <2>4 DEF OnceInv, IntactOnce
<1>4. CASE RecvMessage
  <2>a. taken' \in Nat /\ taken < taken' /\ taken \in Nat
    BY <1>4, <1>t, RecvMessageTakes, ShownFields
  <2>b. PICK k \in 1 .. size :
          /\ taken' = taken + k
          /\ \A c \in 1 .. BufferLen :
               buffer'[c] = IF c <= k THEN taken + c ELSE buffer[c]
    BY <1>4, <1>t, RecvMessageTakes
  <2>d. k \in Nat
    BY <1>t, Lengths DEF TypeInv, TypeOK
  <2>c. buffer[BodyLen] \in Nat /\ buffer'[BodyLen] \in Nat
    BY <1>t, Lengths DEF TypeInv, TypeOK
  <2>2. pc = "message"
    BY <1>4 DEF RecvMessage
  <2>3. \A c \in 1 .. BufferLen : buffer'[c] # 0 =>
          /\ buffer'[c] <= taken'
          /\ \A i \in DOMAIN shown : shown[i] * FrameLen < buffer'[c]
    <3>. SUFFICES ASSUME NEW c \in 1 .. BufferLen, buffer'[c] # 0
                  PROVE  /\ buffer'[c] <= taken'
                         /\ \A i \in DOMAIN shown : shown[i] * FrameLen < buffer'[c]
      OBVIOUS
    <3>1. \A i \in DOMAIN shown :
            shown[i] * FrameLen \in Nat /\ shown[i] * FrameLen <= taken
      BY <1>t, ShownFields DEF OnceInv
    <3>2. CASE c <= k
      <4>1. buffer'[c] = taken + c
        BY <2>b, <3>2
      <4>2. c \in Nat /\ 0 < c
        BY Lengths
      <4>3. taken + c <= taken' /\ taken < taken + c
        BY <2>a, <2>b, <2>d, <3>2, <4>2
      <4>. QED BY <2>a, <3>1, <4>1, <4>2, <4>3
    <3>3. CASE ~ (c <= k)
      <4>1. buffer'[c] = buffer[c]
        BY <2>b, <3>3
      <4>3. buffer[c] \in Nat
        BY <1>t DEF TypeInv, TypeOK
      <4>2. /\ buffer[c] <= taken
            /\ \A i \in DOMAIN shown : shown[i] * FrameLen < buffer[c]
        BY <2>2, <4>1 DEF OnceInv
      <4>. QED BY <2>a, <4>1, <4>2, <4>3
    <3>. QED BY <3>2, <3>3
  <2>4. CASE shown' = Append(shown, MessageIn(buffer')) /\ pc' = "size"
    <3>1. buffer'[BodyLen] # 0 =>
            /\ buffer'[BodyLen] <= taken'
            /\ \A i \in DOMAIN shown : shown[i] * FrameLen < buffer'[BodyLen]
      BY <2>3, Lengths
    <3>2. /\ IntactOnce'
          /\ \A i \in DOMAIN shown' : shown'[i] * FrameLen <= taken'
      BY <2>a, <2>c, <2>4, <3>1, AppendKeepsOnce
    <3>. QED BY <1>t, <2>4, <3>2 DEF OnceInv
  <2>5. CASE UNCHANGED <<shown, pc>>
    <3>1. \A i \in DOMAIN shown : shown[i] * FrameLen <= taken'
      BY <1>t, <2>a, ShownFields DEF OnceInv
    <3>. QED BY <1>t, <2>3, <2>5, <3>1 DEF OnceInv, IntactOnce
  <2>. QED BY <1>4, <2>4, <2>5 DEF RecvMessage
<1>5. CASE RecvMessageEnds
  <2>1. /\ shown' = Append(shown, MessageIn(buffer)) /\ pc' = "size"
        /\ pc = "message" /\ taken' = taken
    BY <1>5 DEF RecvMessageEnds
  <2>2. buffer[BodyLen] \in Nat /\ taken \in Nat
    BY <1>t, Lengths DEF TypeInv, TypeOK
  <2>3. /\ IntactOnce'
        /\ \A i \in DOMAIN shown' : shown'[i] * FrameLen <= taken
    BY <2>1, <2>2, AppendKeepsOnce, Lengths DEF OnceInv
  <2>. QED BY <1>t, <2>1, <2>3 DEF OnceInv
<1>6. CASE SendSize \/ SendBody \/ ServerCloses \/ Arrive \/ TypeLine
  BY <1>1, <1>6 DEF SendSize, SendBody, ServerCloses, Arrive, TypeLine
<1>7. CASE ReadLine \/ ReadCommand \/ RecvSizeEnds \/ RecvFails
  BY <1>2, <1>7 DEF ReadLine, ReadCommand, RecvSizeEnds, RecvFails
<1>. QED BY <1>1, <1>3, <1>4, <1>5, <1>6, <1>7 DEF Next, Subscriber, vars

(* Whatever the network cuts, and however far the subscriber falls out of  *)
(* step with the stream, it prints no message a second time or after a     *)
(* later one: a message in the buffer lies ahead of all that was printed   *)
(* (subscriber.c:163 and 175-187).                                         *)
THEOREM ShownOnlyOnce == Spec => []IntactOnce
<1>1. OnceInv => IntactOnce
  BY DEF OnceInv
<1>. QED BY <1>1, OnceInit, OnceStep, PTL DEF Spec

-----------------------------------------------------------------------------
(* As long as the network does not cut what one send() has written, the    *)
(* two calls of recv() keep in step with the stream.                       *)

Here == Len(shown) * FrameLen

LEMMA HereType == TypeInv => Here \in Nat
  BY ShownFields, Lengths DEF Here

(* What was printed stays faithful: a stream that is closed does not grow. *)
LEMMA FaithfulStays ==
  ASSUME Faithful, UNCHANGED shown,
         link # "open" => link' # "open" /\ written' = written
  PROVE  Faithful'
  BY DEF Faithful

(* The next thing printed is the next message, or a part of it at the end. *)
LEMMA FaithfulGrows ==
  ASSUME TypeInv, Faithful, NEW m, shown' = Append(shown, m),
         UNCHANGED <<link, written>>,
         \/ m = Len(shown) + 1
         \/ link # "open" /\ written < (Len(shown) + 1) * FrameLen /\ m = 0
  PROVE  Faithful'
<1>1. /\ DOMAIN shown = 1 .. Len(shown) /\ Len(shown) \in Nat
      /\ DOMAIN shown' = 1 .. Len(shown) + 1
      /\ \A i \in 1 .. Len(shown) : shown'[i] = shown[i]
      /\ shown'[Len(shown) + 1] = m
  BY ShownFields
<1>. SUFFICES ASSUME NEW i \in DOMAIN shown'
              PROVE  \/ shown'[i] = i
                     \/ link' # "open" /\ written' < i * FrameLen /\ shown'[i] = 0
  BY DEF Faithful
<1>2. CASE i \in 1 .. Len(shown)
  BY <1>1, <1>2 DEF Faithful
<1>3. CASE i = Len(shown) + 1
  BY <1>1, <1>3
<1>. QED BY <1>1, <1>2, <1>3

(* The size is read, all of it and nothing else (subscriber.c:164-176).    *)
LEMMA SizeInStep ==
  ASSUME TypeInv, SendEnds(arrived), InStep, RecvSize
  PROVE  /\ taken' = Here + HeaderLen /\ size' = BodyLen
         /\ got' = 0 /\ buffer' = Zeros /\ pc' = "message"
<1>1. /\ Available \in Nat \ {0} /\ taken + Available = arrived
      /\ arrived \in Nat /\ Here \in Nat /\ taken \in Nat
  BY AvailableType, ShownFields, HereType DEF TypeInv, RecvSize
<1>2. taken = Here
  BY <1>1 DEF InStep, Here, RecvSize, SocketsTurn
<1>3. arrived >= Here + HeaderLen
  BY <1>1, <1>2, NextSendEnd, ShownFields DEF Here
<1>4. AtMost(SizeAsked) = HeaderLen
  BY <1>1, <1>2, <1>3, Lengths DEF AtMost, SizeAsked
<1>5. taken % FrameLen = 0
  BY <1>2, FrameEnds, ShownFields DEF Here
<1>6. SizeRead(taken, HeaderLen) = {BodyLen}
  BY <1>5, DownlinkAssumption DEF SizeRead
<1>7. size' = BodyLen /\ taken' = Here + HeaderLen
  BY <1>2, <1>4, <1>6 DEF RecvSize
<1>. QED BY <1>7, Lengths DEF RecvSize, Cleared

(* The message is read, all of it and nothing else (subscriber.c:177-187). *)
LEMMA MessageInStep ==
  ASSUME TypeInv, SendEnds(arrived), InStep, RecvMessage
  PROVE  /\ taken' = (Len(shown) + 1) * FrameLen
         /\ pc' = "size" /\ shown' = Append(shown, Len(shown) + 1)
<1>1. /\ Available \in Nat \ {0} /\ taken + Available = arrived
      /\ arrived \in Nat /\ Here \in Nat /\ taken \in Nat /\ Len(shown) \in Nat
  BY AvailableType, ShownFields, HereType DEF TypeInv, RecvMessage
<1>2. taken = Here + HeaderLen /\ size = BodyLen /\ got = 0
  BY DEF InStep, Here, RecvMessage
<1>3. arrived >= Here + FrameLen
  BY <1>1, <1>2, NextSendEnd, Lengths DEF Here
<1>4. AtMost(MessageAsked) = BodyLen
  BY <1>1, <1>2, <1>3, Lengths DEF AtMost, MessageAsked
<1>5. (Len(shown) + 1) * FrameLen = Here + FrameLen
  BY <1>1, Lengths, NextUnit DEF Here
<1>6. taken' = Here + FrameLen /\ got' = BodyLen
  BY <1>1, <1>2, <1>4, Lengths DEF RecvMessage
<1>7. /\ \A c \in 1 .. BodyLen : buffer'[c] = Here + HeaderLen + c
      /\ buffer'[BodyLen] = Here + FrameLen
  <2>1. \A c \in 1 .. BodyLen : c \in 1 .. BufferLen /\ c <= BodyLen
    BY Lengths
  <2>2. buffer' = [i \in 1 .. BufferLen |-> IF i <= BodyLen THEN taken + i ELSE buffer[i]]
    BY <1>4 DEF RecvMessage
  <2>3. \A c \in 1 .. BodyLen : buffer'[c] = taken + c
    BY <2>1, <2>2
  <2>4. BodyLen \in 1 .. BodyLen /\ Here + HeaderLen + BodyLen = Here + FrameLen
    BY <1>1, Lengths
  <2>. QED BY <1>2, <2>3, <2>4
<1>8. MessageIn(buffer') = Len(shown) + 1
  <2>1. /\ (Here + FrameLen) % FrameLen = 0
        /\ (Here + FrameLen) \div FrameLen = Len(shown) + 1
    <3>. DEFINE n == Len(shown) + 1
    <3>1. n \in Nat /\ n * FrameLen = Here + FrameLen
      BY <1>1, <1>5
    <3>. HIDE DEF n
    <3>2. (n * FrameLen) \div FrameLen = n /\ (n * FrameLen) % FrameLen = 0
      BY <3>1, Lengths, QuotientOfWhole
    <3>3. (Here + FrameLen) \div FrameLen = n /\ (Here + FrameLen) % FrameLen = 0
      BY <3>1, <3>2
    <3>. QED BY <3>3 DEF n
  <2>2. Here + FrameLen > 0 /\ (Here + FrameLen) - BodyLen = Here + HeaderLen
    BY <1>1, Lengths
  <2>. QED BY <1>7, <2>1, <2>2 DEF MessageIn
<1>9. pc' = "size" /\ shown' = Append(shown, MessageIn(buffer'))
  BY <1>2, <1>6, Lengths DEF RecvMessage, Complete
<1>. QED BY <1>5, <1>6, <1>8, <1>9

LEMMA StepInit == Init => StepInv
<1>. SUFFICES ASSUME Init PROVE StepInv
  OBVIOUS
<1>1. TypeInv
  BY TypeInit
<1>2. 0 * FrameLen = 0
  BY Lengths
<1>3. SendEnds(0)
  BY <1>2, FrameEnds
<1>4. shown = <<>> /\ taken = 0 /\ arrived = 0 /\ pc = "size"
  BY DEF Init
<1>5. InStep
  BY <1>2, <1>4 DEF InStep
<1>6. Faithful
  BY <1>4 DEF Faithful
<1>. QED BY <1>1, <1>3, <1>4, <1>5, <1>6 DEF StepInv

LEMMA StepStep == StepInv /\ [Next]_vars => StepInv'
<1>. SUFFICES ASSUME StepInv, [Next]_vars PROVE StepInv'
  OBVIOUS
<1>t. TypeInv /\ TypeInv'
  BY TypeStep DEF StepInv
<1>c. cuts' = cuts
  BY DEF vars, Next, Subscriber, SendSize, SendBody, ServerCloses, Arrive, TypeLine,
         ReadLine, ReadCommand, RecvSize, RecvSizeEnds, RecvMessage, RecvMessageEnds, RecvFails
<1>. SUFFICES ASSUME cuts = "nothing" PROVE (SendEnds(arrived) /\ InStep /\ Faithful)'
  BY <1>t, <1>c DEF StepInv
<1>i. SendEnds(arrived) /\ InStep /\ Faithful
  BY DEF StepInv
<1>1. CASE UNCHANGED vars
  BY <1>1, <1>i DEF vars, SendEnds, InStep, Faithful
<1>2. CASE SendSize \/ SendBody \/ ServerCloses
  <2>1. link = "open" /\ UNCHANGED <<arrived, taken, pc, size, got, buffer, shown>>
    BY <1>2 DEF SendSize, SendBody, ServerCloses
  <2>2. InStep'
    BY <1>i, <2>1 DEF InStep
  <2>. QED BY <1>i, <2>1, <2>2, FaithfulStays DEF SendEnds
<1>3. CASE Arrive
  <2>1. /\ UNCHANGED <<written, taken, link, pc, size, got, buffer, shown>>
        /\ SendEnds(arrived')
    BY <1>3 DEF Arrive, CutAt
  <2>2. arrived # written
    BY <1>3, <1>t, ShownFields DEF Arrive
  <2>3. InStep'
    BY <1>i, <2>1, <2>2 DEF InStep
  <2>. QED BY <1>i, <2>1, <2>3, FaithfulStays DEF SendEnds
<1>4. CASE TypeLine \/ ReadLine \/ RecvSizeEnds \/ RecvFails
  <2>1. /\ UNCHANGED <<written, arrived, taken, link, size, got, buffer, shown>>
        /\ pc' = pc \/ (pc' \in {"size", "ended"} /\ pc = "size")
           \/ pc' \in {"left", "died"}
    BY <1>4 DEF TypeLine, ReadLine, RecvSizeEnds, RecvFails, SocketsTurn
  <2>2. InStep'
    BY <1>i, <2>1 DEF InStep
  <2>. QED BY <1>i, <2>1, <2>2, FaithfulStays DEF SendEnds
<1>8. CASE ReadCommand
  <2>1. /\ UNCHANGED <<written, arrived, taken, size, got, buffer, shown>>
        /\ link' = link \/ (link = "closed" /\ link' = "reset")
        /\ pc' = pc \/ pc' = "size" \/ pc' = "died"
        /\ pc = "size"
    BY <1>8 DEF ReadCommand
  <2>2. InStep'
    BY <1>i, <2>1 DEF InStep
  <2>3. link # "open" => link' # "open" /\ written' = written
    BY <2>1
  <2>. QED BY <1>i, <2>1, <2>2, <2>3, FaithfulStays DEF SendEnds
<1>5. CASE RecvSize
  <2>1. UNCHANGED <<written, arrived, link, shown>>
    BY <1>5 DEF RecvSize
  <2>2. InStep'
    BY <1>i, <1>t, <1>5, <2>1, SizeInStep DEF InStep, Here
  <2>. QED BY <1>i, <2>1, <2>2, FaithfulStays DEF SendEnds
<1>6. CASE RecvMessage
  <2>1. UNCHANGED <<written, arrived, link>>
    BY <1>6 DEF RecvMessage
  <2>2. /\ taken' = (Len(shown) + 1) * FrameLen
        /\ pc' = "size" /\ shown' = Append(shown, Len(shown) + 1)
    BY <1>i, <1>t, <1>6, MessageInStep
  <2>3. Len(shown') = Len(shown) + 1
    BY <1>t, <2>2, ShownFields
  <2>4. InStep'
    BY <2>2, <2>3 DEF InStep
  <2>5. Faithful'
    BY <1>i, <1>t, <2>1, <2>2, FaithfulGrows
  <2>. QED BY <1>i, <2>1, <2>4, <2>5 DEF SendEnds
<1>7. CASE RecvMessageEnds
  <2>1. /\ UNCHANGED <<written, arrived, taken, link>>
        /\ pc = "message" /\ pc' = "size"
        /\ shown' = Append(shown, MessageIn(buffer))
        /\ link # "open" /\ arrived = written /\ Available = 0
    BY <1>7 DEF RecvMessageEnds, EndOfStream
  <2>2. taken = written /\ taken = Here + HeaderLen /\ buffer = Zeros
    BY <1>i, <1>t, <2>1, AvailableType, ShownFields
       DEF InStep, Here, TypeInv
  <2>3. MessageIn(buffer) = 0
    BY <2>2, ZerosType, Lengths DEF MessageIn
  <2>4. (Len(shown) + 1) * FrameLen = Here + FrameLen
    BY <1>t, ShownFields, Lengths, NextUnit DEF Here
  <2>5. written < (Len(shown) + 1) * FrameLen
    BY <1>t, <2>2, <2>4, HereType, Lengths
  <2>6. Len(shown') = Len(shown) + 1
    BY <1>t, <2>1, ShownFields
  <2>7. InStep'
    BY <2>1, <2>2, <2>5, <2>6 DEF InStep
  <2>8. Faithful'
    BY <1>i, <1>t, <2>1, <2>3, <2>5, FaithfulGrows
  <2>. QED BY <1>i, <2>1, <2>7, <2>8 DEF SendEnds
<1>. QED BY <1>1, <1>2, <1>3, <1>4, <1>5, <1>6, <1>7, <1>8 DEF Next, Subscriber

(* If the network does not cut what one send() has written, the subscriber *)
(* prints what was sent: each message once, in order and unharmed, in      *)
(* whatever groups they arrive; a part of a message the broker did not     *)
(* finish is the only exception (subscriber.c:164-187).                    *)
THEOREM ShownAsSent == Spec => []ShownIsSent
<1>1. StepInv => ShownIsSent
  BY DEF StepInv, ShownIsSent
<1>. QED BY <1>1, StepInit, StepStep, PTL DEF Spec

LEMMA EndStep == EndInv /\ [Next]_vars => EndInv'
<1>. SUFFICES ASSUME EndInv, [Next]_vars PROVE EndInv'
  OBVIOUS
<1>s. StepInv /\ StepInv'
  BY StepStep DEF EndInv
<1>t. TypeInv /\ TypeInv'
  BY <1>s DEF StepInv
<1>1. CASE RecvSizeEnds
  <2>1. /\ UNCHANGED <<cuts, written, arrived, taken, link, shown>>
        /\ pc = "size" /\ link # "open" /\ arrived = written /\ Available = 0
    BY <1>1 DEF RecvSizeEnds, SocketsTurn, EndOfStream
  <2>2. taken = written
    BY <1>t, <2>1, AvailableType, ShownFields DEF TypeInv
  <2>3. cuts = "nothing" => written <= Here
    BY <1>s, <1>t, <2>1, <2>2, HereType, ShownFields DEF StepInv, InStep, Here
  <2>. QED BY <1>s, <2>1, <2>3 DEF EndInv, NothingLostAtEnd, Here
<1>2. CASE pc' # "ended"
  BY <1>s, <1>2 DEF EndInv, NothingLostAtEnd
<1>3. CASE UNCHANGED <<cuts, written, link, pc, shown>>
  BY <1>s, <1>3 DEF EndInv, NothingLostAtEnd
<1>4. CASE SendSize \/ SendBody \/ ServerCloses
  <2>1. link = "open" /\ pc' = pc
    BY <1>4 DEF SendSize, SendBody, ServerCloses
  <2>. QED BY <1>2, <2>1 DEF EndInv
<1>5. CASE Arrive \/ TypeLine
  BY <1>3, <1>5 DEF Arrive, TypeLine
<1>6. CASE ReadLine \/ ReadCommand \/ RecvSize \/ RecvMessage \/ RecvMessageEnds \/ RecvFails
  BY <1>2, <1>6 DEF ReadLine, ReadCommand, RecvSize, RecvMessage, RecvMessageEnds, RecvFails,
                    SocketsTurn
<1>. QED BY <1>1, <1>3, <1>4, <1>5, <1>6 DEF Next, Subscriber, vars

(* When the subscriber ends with the connection, all that the broker sent  *)
(* completely has been printed: the loop is left at the end of the stream  *)
(* and nowhere else (subscriber.c:167-169).                                *)
THEOREM NothingIsLost == Spec => []NothingLostAtEnd
<1>1. Init => EndInv
  <2>1. Init => pc # "ended"
    BY DEF Init
  <2>. QED BY <2>1, StepInit DEF EndInv, NothingLostAtEnd
<1>2. EndInv => NothingLostAtEnd
  BY DEF EndInv
<1>. QED BY <1>1, <1>2, EndStep, PTL DEF Spec

=============================================================================
